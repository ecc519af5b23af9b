------------------------- MODULE MonitorPagesProofs -------------------------
(* The pages that watch the server, for all nodes, connections, slots and limits:    *)
(* types, the label that fits its list, and the numbers of the runtime page.         *)
EXTENDS MonitorPages, NodeSessionsProofs, DataProofs, FiniteSetTheorems

-----------------------------------------------------------------------------
(* The invariant, next to IInv of NodeSessionsProofs. *)

Names == {"nodes", "tasks", "events"}

\* The list was in the log at some time, for the filters that were asked.
Held(list, asked) ==
    \E i \in 0..Len(events) :
        list = ListSessionEvents(SubSeq(events, 1, i), asked.node, asked.kind, FilteredRead)

\* A list of nodes with no more flags than rows.
NodesOK(list) == list \in NodeList /\ Len(list.flags) <= Len(list.rows)

\* What a script gets may be no list: no answer yet, or one that is not ok.
NoList == {NoAnswer, NotOk}

\* Answers, each of its kind unless it is none; those for the page of events were in
\* the log.
GotOK(got, asked, none) ==
    /\ got = [part \in Names |-> got[part]]
    /\ got.nodes \notin none => NodesOK(got.nodes)
    /\ got.tasks \in Seq(Snapshot) \cup none
    /\ page.kind = "session_events" /\ got.events \notin none => Held(got.events, asked)

CallOK(call) ==
    /\ call = [pc |-> call.pc, asked |-> call.asked, got |-> call.got]
    /\ call.pc \in {"idle", "fetching"} /\ call.asked \in Filter
    /\ call.pc = "idle" => call = Idle
    /\ GotOK(call.got, call.asked, NoList)

Calls == refresh = [r \in Slot |-> refresh[r]] /\ \A r \in Slot : CallOK(refresh[r])

\* What the handler of the page has read, for the filters of its query.
Reads ==
    /\ GotOK(read, filters, {NoAnswer})
    /\ page.pc = "open" => read = Nothing

\* The tables, and the rows that list_nodes can list.
Tables ==
    /\ events \in Seq(Event) /\ tasks \in Seq(Task)
    /\ IsFiniteSet({n \in Node : rows[n].known})
    /\ page \in [kind : DOMAIN PartsOf, pc : {"loading", "open"}]
    /\ filters \in Filter /\ troubles \in 0..MaxTroubles
    /\ page.pc = "loading" => \A r \in Slot : refresh[r] = Idle

PagesIInv == Tables /\ Reads /\ Calls /\ LabelFitsList /\ RuntimeAgrees

-----------------------------------------------------------------------------
(* Lists of tasks and what the pages count in them. *)

\* The elements of list that are in good: Where without its operator.
Chosen(list, good) ==
    Joined(Len(list), [i \in DOMAIN list |-> IF list[i] \in good THEN <<list[i]>> ELSE <<>>])

\* The elements of left are the good ones of list, each with its place there.
Places(place, left, list, good) ==
    /\ place \in [1..Len(left) -> 1..Len(list)]
    /\ \A k \in 1..Len(left) : left[k] = list[place[k]] /\ list[place[k]] \in good
    /\ \A j, k \in 1..Len(left) : j < k => place[j] < place[k]
    /\ \A i \in 1..Len(list) : list[i] \in good => \E k \in 1..Len(left) : place[k] = i

\* The chosen elements are those of the list that are good.
LEMMA ChosenPlaces ==
    ASSUME NEW S, NEW list \in Seq(S), NEW good
    PROVE  /\ Chosen(list, good) \in Seq(S)
           /\ \E place : Places(place, Chosen(list, good), list, good)
<1> DEFINE n == Len(list)
           pieces == [i \in DOMAIN list |-> IF list[i] \in good THEN <<list[i]>> ELSE <<>>]
           left == Joined(n, pieces)
<1>1. n \in Nat /\ DOMAIN list = 1..n /\ \A i \in 1..n : list[i] \in S
  OBVIOUS
<1>2. Pieces(n, pieces, S)
  BY <1>1 DEF Pieces
<1>3. Chosen(list, good) = left
  BY DEF Chosen
<1>4. PICK place \in [1..Len(left) -> 1..n] :
         /\ left \in Seq(S)
         /\ \A k \in 1..Len(left) : pieces[place[k]] = <<left[k]>>
         /\ \A j, k \in 1..Len(left) : j < k => place[j] < place[k]
         /\ \A i \in 1..n : pieces[i] # <<>> => \E k \in 1..Len(left) : place[k] = i
  <2>1. Assembled(left, n, pieces, S)
    BY <1>1, <1>2, JoinedAssembled
  <2> HIDE DEF left, pieces, n
  <2> QED
    BY <2>1, Zenon DEF Assembled
<1>5. \A k \in 1..Len(left) : left[k] = list[place[k]] /\ list[place[k]] \in good
  <2> TAKE k \in 1..Len(left)
  <2>1. place[k] \in 1..n /\ pieces[place[k]] = <<left[k]>>
    BY <1>4
  <2>2. \/ pieces[place[k]] = <<>>
        \/ pieces[place[k]] = <<list[place[k]]>> /\ list[place[k]] \in good
    BY <1>1, <2>1
  <2> HIDE DEF pieces, left
  <2> QED
    BY <2>1, <2>2
<1>6. \A i \in 1..n : list[i] \in good => pieces[i] # <<>>
  BY <1>1
<1> HIDE DEF pieces, left
<1>7. \A i \in 1..n : list[i] \in good => \E k \in 1..Len(left) : place[k] = i
  BY <1>4, <1>6
<1>8. /\ \A k \in 1..Len(left) : left[k] = list[place[k]] /\ list[place[k]] \in good
      /\ \A j, k \in 1..Len(left) : j < k => place[j] < place[k]
      /\ \A i \in 1..n : list[i] \in good => \E k \in 1..Len(left) : place[k] = i
  BY <1>4, <1>5, <1>7
<1> HIDE DEF n
<1>9. Places(place, left, list, good)
  BY <1>4, <1>8, Zenon DEF Places, n
<1> QED
  BY <1>3, <1>4, <1>9, Zenon

Failed   == {task \in Snapshot : task.status \in {"failed", "canceled"}}
Finished == {task \in Snapshot : task.status \in Terminal}

\* The tasks that the pages filter out of a list.
LEMMA TasksChosen ==
    ASSUME NEW list \in Seq(Snapshot)
    PROVE  /\ FailedTasks(list) = Chosen(list, Failed)
           /\ \A n : RecentResults(list, n) = FirstOf(Chosen(list, Finished), n)
<1>0. \A i \in DOMAIN list : list[i] \in Snapshot
  OBVIOUS
<1>1. [i \in DOMAIN list |-> IF list[i].status \in {"failed", "canceled"} THEN <<list[i]>> ELSE <<>>]
         = [i \in DOMAIN list |-> IF list[i] \in Failed THEN <<list[i]>> ELSE <<>>]
  BY <1>0 DEF Failed
<1>2. [i \in DOMAIN list |-> IF list[i].status \in Terminal THEN <<list[i]>> ELSE <<>>]
         = [i \in DOMAIN list |-> IF list[i] \in Finished THEN <<list[i]>> ELSE <<>>]
  BY <1>0 DEF Finished
<1>3. FailedTasks(list) = Chosen(list, Failed)
  BY <1>1 DEF FailedTasks, Where, Chosen
<1>4. ASSUME NEW n PROVE RecentResults(list, n) = FirstOf(Chosen(list, Finished), n)
  BY <1>2 DEF RecentResults, Where, Chosen
<1> QED
  BY <1>3, <1>4

\* A list whose elements are, in some order, at different places of the good elements of
\* another list, is not longer than these.
LEMMA NotLonger ==
    ASSUME NEW m \in Nat, NEW n \in Nat, NEW to \in [1..m -> 1..n],
           \A j, k \in 1..m : to[j] = to[k] => j = k
    PROVE  m <= n
<1>1. to \in Injection(1..m, 1..n)
  BY DEF Injection, IsInjective
<1>2. /\ IsFiniteSet(1..n) /\ Cardinality(1..n) = n /\ Cardinality(1..m) = m
  BY FS_Interval
<1>3. Cardinality(1..m) <= Cardinality(1..n)
  BY <1>1, <1>2, FS_Injection
<1> QED
  BY <1>2, <1>3

\* Of the results that are shown no more have failed than of all tasks that were read.
LEMMA FailedWithin ==
    ASSUME NEW list \in Seq(Snapshot), NEW n \in Nat
    PROVE  Len(FailedTasks(RecentResults(list, n))) <= Len(FailedTasks(list))
<1> DEFINE done  == Chosen(list, Finished)
           shown == FirstOf(done, n)
           few   == Chosen(shown, Failed)
           all   == Chosen(list, Failed)
<1>1. done \in Seq(Snapshot)
  BY ChosenPlaces
<1>2. PICK p : Places(p, done, list, Finished)
  BY ChosenPlaces
<1>a. /\ p \in [1..Len(done) -> 1..Len(list)]
      /\ \A k \in 1..Len(done) : done[k] = list[p[k]]
      /\ \A j, k \in 1..Len(done) : j < k => p[j] < p[k]
  BY <1>2, Zenon DEF Places
<1> HIDE DEF done
<1>3. /\ shown \in Seq(Snapshot) /\ Len(shown) <= Len(done) /\ Len(shown) \in Nat
      /\ \A i \in 1..Len(shown) : shown[i] = done[i]
  <2>1. /\ shown \in Seq(Snapshot)
        /\ Len(shown) = IF n <= Len(done) THEN n ELSE Len(done)
        /\ \A i \in 1..Len(shown) : shown[i] = done[i]
    BY <1>1, FirstOfList
  <2>2. Len(done) \in Nat
    BY <1>1
  <2> QED
    BY <2>1, <2>2
<1> HIDE DEF shown
<1>4. few \in Seq(Snapshot) /\ all \in Seq(Snapshot)
  BY <1>3, ChosenPlaces
<1>5. PICK q : Places(q, few, shown, Failed)
  BY <1>3, ChosenPlaces
<1>b. /\ q \in [1..Len(few) -> 1..Len(shown)]
      /\ \A k \in 1..Len(few) : shown[q[k]] \in Failed
      /\ \A j, k \in 1..Len(few) : j < k => q[j] < q[k]
  BY <1>5, Zenon DEF Places
<1>6. PICK s : Places(s, all, list, Failed)
  BY ChosenPlaces
<1>c. /\ s \in [1..Len(all) -> 1..Len(list)]
      /\ \A i \in 1..Len(list) : list[i] \in Failed => \E k \in 1..Len(all) : s[k] = i
  BY <1>6, Zenon DEF Places
<1> HIDE DEF few, all
<1>7. Len(few) \in Nat /\ Len(all) \in Nat /\ Len(done) \in Nat
  BY <1>1, <1>4
<1> DEFINE to == [k \in 1..Len(few) |-> CHOOSE i \in 1..Len(all) : s[i] = p[q[k]]]
<1>8. ASSUME NEW k \in 1..Len(few)
      PROVE  to[k] \in 1..Len(all) /\ s[to[k]] = p[q[k]] /\ q[k] \in 1..Len(done)
  <2>1. q[k] \in 1..Len(shown) /\ q[k] \in 1..Len(done)
    BY <1>3, <1>b, <1>7
  <2>2. p[q[k]] \in 1..Len(list) /\ list[p[q[k]]] \in Failed
    BY <1>a, <1>3, <1>b, <2>1
  <2>3. \E i \in 1..Len(all) : s[i] = p[q[k]]
    BY <1>c, <2>2
  <2> QED
    BY <2>1, <2>3
<1>9. ASSUME NEW j \in 1..Len(few), NEW k \in 1..Len(few), to[j] = to[k]
      PROVE  j = k
  <2>1. p[q[j]] = p[q[k]] /\ q[j] \in 1..Len(done) /\ q[k] \in 1..Len(done)
    BY <1>8, <1>9
  <2> HIDE DEF to
  <2>2. q[j] = q[k]
    <3>1. ~(q[j] < q[k]) /\ ~(q[k] < q[j])
      <4>1. p[q[j]] \in Int /\ p[q[k]] \in Int
        BY <1>a, <2>1
      <4> QED
        BY <1>a, <2>1, <4>1
    <3> QED
      BY <1>7, <2>1, <3>1
  <2>3. ~(j < k) /\ ~(k < j)
    <3>1. q[j] \in Int /\ q[k] \in Int
      BY <2>1, <1>7
    <3> QED
      BY <1>b, <2>2, <3>1
  <2> QED
    BY <1>7, <2>3
<1>10. to \in [1..Len(few) -> 1..Len(all)]
  BY <1>8
<1> HIDE DEF to
<1>11. Len(few) <= Len(all)
  BY <1>7, <1>9, <1>10, NotLonger
<1>12. FailedTasks(RecentResults(list, n)) = few /\ FailedTasks(list) = all
  BY <1>3, TasksChosen DEF few, all, shown, done
<1> QED
  BY <1>11, <1>12

-----------------------------------------------------------------------------
(* The log of session events. *)

Grows == events' = events \/ \E event \in Event : events' = Append(events, event)

\* What is asked for now was in the log.
LEMMA HeldNow ==
    ASSUME events \in Seq(Event), NEW asked
    PROVE  Held(EventsAnswer(events, asked.node, asked.kind, FilteredRead), asked)
<1> DEFINE n == Len(events)
<1>1. n \in Nat /\ n \in 0..n
  OBVIOUS
<1>2. SubSeq(events, 1, n) = events
  OBVIOUS
<1>3. /\ FilteredRead \in Nat /\ MaxLimit \in Nat /\ 1 <= FilteredRead /\ FilteredRead <= MaxLimit
      /\ FilteredRead # All
  BY PagesAssumption, ReadsAssumption
<1>4. PageLimit(FilteredRead) = FilteredRead
  <2>1. Min({FilteredRead, MaxLimit}) = FilteredRead
    BY <1>3, MinMax
  <2>2. Max({1, FilteredRead}) = FilteredRead
    <3>1. \A c \in Int : Max({1, c}) = IF 1 <= c THEN c ELSE 1
      BY MinMax, 1 \in Int, Zenon
    <3> QED
      BY <1>3, <3>1
  <2> QED
    BY <1>3, <2>1, <2>2 DEF PageLimit
<1> HIDE DEF n
<1>5. EventsAnswer(events, asked.node, asked.kind, FilteredRead)
         = ListSessionEvents(SubSeq(events, 1, n), asked.node, asked.kind, FilteredRead)
  BY <1>2, <1>4 DEF EventsAnswer
<1> QED
  BY <1>1, <1>5 DEF Held, n

\* What was in the log stays a part of it.
LEMMA HeldLater ==
    ASSUME events \in Seq(Event), Grows, NEW list, NEW asked, Held(list, asked)
    PROVE  Held(list, asked)'
<1>1. CASE events' = events
  BY <1>1 DEF Held
<1>2. CASE \E event \in Event : events' = Append(events, event)
  <2>1. PICK event \in Event : events' = Append(events, event)
    BY <1>2
  <2>2. PICK i \in 0..Len(events) :
           list = ListSessionEvents(SubSeq(events, 1, i), asked.node, asked.kind, FilteredRead)
    BY DEF Held
  <2>3. Len(events') = Len(events) + 1 /\ i \in 0..Len(events')
    BY <2>1
  <2>4. SubSeq(events', 1, i) = SubSeq(events, 1, i)
    <3>1. SubSeq(events, 1, i) = [j \in 1..i |-> events[j]]
      <4>1. i \in Nat /\ 1 + i - 1 = i /\ \A j \in 1..i : j + 1 - 1 = j
        OBVIOUS
      <4> QED
        BY <4>1
    <3>2. SubSeq(events', 1, i) = [j \in 1..i |-> events'[j]]
      <4>1. i \in Nat /\ 1 + i - 1 = i /\ \A j \in 1..i : j + 1 - 1 = j
        OBVIOUS
      <4> QED
        BY <4>1
    <3>3. \A j \in 1..i : events'[j] = events[j]
      BY <2>1
    <3> QED
      BY <3>1, <3>2, <3>3
  <2> QED
    BY <2>2, <2>3, <2>4 DEF Held
<1> QED
  BY <1>1, <1>2 DEF Grows

\* What a session does to the log, the tasks and the rows that can be listed.
LEMMA SessionsMove ==
    ASSUME IInv, Tables, NEW c \in Conn, Continue(c) \/ PeerStep(c) \/ Misbehave(c)
    PROVE  /\ IInv' /\ Grows /\ tasks' \in Seq(Task)
           /\ IsFiniteSet({n \in Node : rows'[n].known})
<1>1. IInv'
  BY NextKeepsIInv DEF SessionsNext
<1>0. /\ conn[c].node \in Node /\ conn[c].hello \in Node
      /\ rows \in [Node -> [known : BOOLEAN, by : Token]]
      /\ events \in Seq(Event) /\ tasks \in Table
      /\ IsFiniteSet({n \in Node : rows[n].known})
  BY DEF IInv, ConnTypes, Tables, Table
<1>2. Grows
  <2>1. \A kind \in EventKind : [node |-> conn[c].node, kind |-> kind] \in Event
    BY <1>0 DEF Event
  <2>2. \A kind \in EventKind : events' = Recorded(conn[c].node, kind) => Grows
    BY <2>1 DEF Recorded, Grows
  <2>3. UNCHANGED events => Grows
    BY DEF Grows
  <2>4. ASSUME NEW id, NEW token, ReceiveConnect(c, id, token)
        PROVE  Grows
    BY <2>2, <2>3, <2>4 DEF ReceiveConnect, EventKind
  <2>5. Continue(c) => Grows
    BY <2>2, <2>3 DEF Continue, InsertSession, RecordOpened, RegisterNode, RecordRegistered,
                      RecordClosed, Requeue, RemoveSession, EventKind
  <2>6. PeerStep(c) => Grows
    BY <2>3, <2>4 DEF PeerStep, Upgrade, RemoveSession, ReceiveCatalog, Hello
  <2>7. Misbehave(c) => Grows
    BY <2>2, <2>3, <2>4 DEF Misbehave, NoConnect, ConnackFails, EventKind
  <2> QED
    BY <2>5, <2>6, <2>7
<1>3. tasks' \in Table
  <2>1. RequeueIncomplete(tasks, conn[c].node) \in Table
    BY <1>0, RequeueRows
  <2>2. tasks' = tasks \/ tasks' = RequeueIncomplete(tasks, conn[c].node)
    BY DEF Continue, InsertSession, RecordOpened, RegisterNode, RecordRegistered, RecordClosed,
           Requeue, RemoveSession, PeerStep, Upgrade, ReceiveConnect, ReceiveCatalog, Hello,
           Misbehave, NoConnect, ConnackFails
  <2> QED
    BY <1>0, <2>1, <2>2
<1>4. IsFiniteSet({n \in Node : rows'[n].known})
  <2> DEFINE known == {n \in Node : rows[n].known}
  <2>1. CASE rows' = rows
    BY <1>0, <2>1
  <2>2. CASE RegisterNode(c)
    <3>1. IsFiniteSet(known \cup {conn[c].hello})
      BY <1>0, FS_AddElement
    <3>2. {n \in Node : rows'[n].known} \subseteq known \cup {conn[c].hello}
      BY <1>0, <2>2 DEF RegisterNode
    <3> QED
      BY <3>1, <3>2, FS_Subset
  <2>3. CASE ReceiveCatalog(c)
    <3>1. {n \in Node : rows'[n].known} \subseteq known
      BY <1>0, <2>3 DEF ReceiveCatalog
    <3> QED
      BY <1>0, <3>1, FS_Subset
  <2>4. rows' = rows \/ RegisterNode(c) \/ ReceiveCatalog(c)
    BY DEF Continue, InsertSession, RecordOpened, RecordRegistered, RecordClosed,
           Requeue, RemoveSession, PeerStep, Upgrade, ReceiveConnect, Hello, Misbehave, NoConnect,
           ConnackFails
  <2> QED
    BY <2>1, <2>2, <2>3, <2>4
<1> QED
  BY <1>1, <1>2, <1>3, <1>4 DEF Table

-----------------------------------------------------------------------------
(* Answers. *)

\* The lists of a page, and which of its parts it has.
LEMMA PartsNamed ==
    ASSUME Tables
    PROVE  /\ Parts \subseteq Names
           /\ PartsOf[page.kind] \in Seq(Names)
           /\ page.kind = "session_events" => "events" \in Parts
           /\ page.kind = "runtime" => "tasks" \in Parts
<1>1. page.kind \in {"nodes", "runtime", "session_events", "tasks"}
  BY DEF Tables, PartsOf
<1> DEFINE s == PartsOf[page.kind]
<1>2. /\ page.kind = "nodes" => s = <<"nodes">>
      /\ page.kind = "runtime" => s = <<"nodes", "tasks", "events">>
      /\ page.kind = "session_events" => s = <<"events">>
      /\ page.kind = "tasks" => s = <<"tasks">>
  BY DEF PartsOf
<1> HIDE DEF s
<1>3. /\ <<"nodes">> \in Seq(Names) /\ <<"nodes", "tasks", "events">> \in Seq(Names)
      /\ <<"events">> \in Seq(Names) /\ <<"tasks">> \in Seq(Names)
  BY DEF Names
<1>4. s \in Seq(Names)
  BY <1>1, <1>2, <1>3
<1>5. ToSet(s) \subseteq Names
  BY <1>4 DEF ToSet
<1>6. /\ 1 \in DOMAIN <<"events">> /\ <<"events">>[1] = "events"
      /\ 2 \in DOMAIN <<"nodes", "tasks", "events">> /\ <<"nodes", "tasks", "events">>[2] = "tasks"
  OBVIOUS
<1>7. "events" \in ToSet(<<"events">>) /\ "tasks" \in ToSet(<<"nodes", "tasks", "events">>)
  BY <1>6 DEF ToSet
<1> QED
  BY <1>2, <1>4, <1>5, <1>7 DEF Parts, s

\* The elements of a finite set in a list.
LEMMA SetListed ==
    ASSUME NEW S, IsFiniteSet(S)
    PROVE  Cardinality(S) \in Nat /\ SetToSeq(S) \in [1..Cardinality(S) -> S]
<1>1. Cardinality(S) \in Nat /\ ExistsBijection(1..Cardinality(S), S)
  BY FS_CardinalityType
<1>2. \E f \in [1..Cardinality(S) -> S] : IsInjective(f)
  BY <1>1 DEF ExistsBijection, Bijection, Injection
<1>3. SetToSeq(S) \in [1..Cardinality(S) -> S]
  BY <1>2, Zenon DEF SetToSeq
<1> QED
  BY <1>1, <1>3

\* The rows of the nodes that are known.
LEMMA RowsListed ==
    ASSUME Tables
    PROVE  RowsRead \in NodeList /\ Len(RowsRead.flags) <= Len(RowsRead.rows)
<1> DEFINE known == {n \in Node : rows[n].known}
           k == Cardinality(known)
           list == SetToSeq(known)
<1>1. k \in Nat /\ list \in [1..k -> known]
  BY SetListed DEF Tables
<1> HIDE DEF list, k
<1>4. list \in [1..k -> Node]
  <2>1. known \subseteq Node
    OBVIOUS
  <2> QED
    BY <1>1, <2>1
<1>5. list \in Seq(Node) /\ Len(list) = k
  <2>1. \A m \in Nat : \A f \in [1..m -> Node] : f \in Seq(Node) /\ Len(f) = m
    OBVIOUS
  <2> QED
    BY <1>1, <1>4, <2>1
<1>6. RowsRead = [rows |-> list, flags |-> <<>>]
  BY DEF RowsRead, list
<1>7. <<>> \in Seq(BOOLEAN) /\ Len(<<>>) = 0
  OBVIOUS
<1>8. 0 <= k
  BY <1>1
<1> QED
  BY <1>5, <1>6, <1>7, <1>8 DEF NodeList

\* One node more is looked up.
LEMMA FlagAdded ==
    ASSUME NEW list, NodesOK(list), ~Complete(list)
    PROVE  NodesOK(LookedUp(list))
<1> DEFINE flag == registry[list.rows[Len(list.flags) + 1]] # NoConn
           more == Append(list.flags, flag)
<1>1. list \in NodeList /\ Len(list.flags) <= Len(list.rows) /\ Len(list.flags) # Len(list.rows)
  BY DEF NodesOK, Complete
<1>2. list.rows \in Seq(Node) /\ list.flags \in Seq(BOOLEAN)
  BY <1>1 DEF NodeList
<1>3. flag \in BOOLEAN
  BY Zenon
<1>4. LookedUp(list) = [list EXCEPT !.flags = more]
  BY DEF LookedUp
<1> HIDE DEF flag
<1>5. more \in Seq(BOOLEAN) /\ Len(more) = Len(list.flags) + 1
  BY <1>2, <1>3
<1> HIDE DEF more
<1>6. LookedUp(list) \in NodeList /\ LookedUp(list).flags = more /\ LookedUp(list).rows = list.rows
  BY <1>1, <1>4, <1>5 DEF NodeList
<1>7. Len(list.flags) \in Nat /\ Len(list.rows) \in Nat
  BY <1>2
<1>8. Len(more) <= Len(list.rows)
  BY <1>1, <1>5, <1>7
<1> QED
  BY <1>6, <1>8 DEF NodesOK

\* Every list of tasks that a page reads holds snapshots.
LEMMA TasksListed ==
    ASSUME Tables, NEW answer, NEW asked
    PROVE  ReadOn(answer, "tasks", asked) \in Seq(Snapshot)
<1>1. tasks \in Table /\ Len(tasks) \in Nat
  BY DEF Tables, Table
<1>2. ListTasks(tasks) \in Seq(Snapshot)
  <2>1. \A id \in DOMAIN tasks : SnapshotOf(tasks, id) \in Snapshot
    BY <1>1, RowOfTable DEF SnapshotOf, Snapshot, Task
  <2>2. DOMAIN tasks = 1..Len(tasks)
    BY <1>1 DEF Table
  <2>3. ListTasks(tasks) \in [1..Len(tasks) -> Snapshot]
    BY <2>1, <2>2 DEF ListTasks
  <2>4. \A k \in Nat : \A f \in [1..k -> Snapshot] : f \in Seq(Snapshot)
    OBVIOUS
  <2> QED
    BY <1>1, <2>3, <2>4
<1>3. Reverse(ListTasks(tasks)) \in Seq(Snapshot)
  BY <1>2, ReverseOfList
<1>4. Max({1, Min({TasksRead, MaxLimit})}) \in Nat /\ TasksRead # All
  <2>1. TasksRead \in Nat /\ MaxLimit \in Nat /\ TasksRead # All
    BY PagesAssumption, ReadsAssumption
  <2>2. Min({TasksRead, MaxLimit}) \in Nat
    BY <2>1, MinMax
  <2>3. \A c \in Int : Max({1, c}) = IF 1 <= c THEN c ELSE 1
    BY MinMax, 1 \in Int, Zenon
  <2> DEFINE m == Min({TasksRead, MaxLimit})
  <2> HIDE DEF m
  <2>4. m \in Nat
    BY <2>2 DEF m
  <2>5. Max({1, m}) \in Nat
    BY <2>3, <2>4
  <2> QED
    BY <2>1, <2>5 DEF m
<1>5. TasksAnswer(tasks, TasksRead) \in Seq(Snapshot)
  <2>1. FirstOf(Reverse(ListTasks(tasks)), Max({1, Min({TasksRead, MaxLimit})})) \in Seq(Snapshot)
    BY <1>3, <1>4, FirstOfList
  <2> QED
    BY <1>4, <2>1 DEF TasksAnswer, ListRecentTasks
<1>6. Reverse(TasksAnswer(tasks, All)) \in Seq(Snapshot)
  BY <1>3 DEF TasksAnswer
<1> QED
  BY <1>5, <1>6 DEF ReadOn

\* Answers to which one is added.
With(got, part, answer) == [got EXCEPT ![part] = answer]

\* What With changes.
LEMMA WithPart ==
    ASSUME NEW got, got = [part \in Names |-> got[part]], NEW part \in Names, NEW answer
    PROVE  /\ With(got, part, answer) = [other \in Names |-> With(got, part, answer)[other]]
           /\ With(got, part, answer)[part] = answer
           /\ \A other \in Names \ {part} : With(got, part, answer)[other] = got[other]
<1>1. With(got, part, answer) = [other \in Names |-> IF other = part THEN answer ELSE got[other]]
  BY DEF With
<1> QED
  BY <1>1

\* An answer for a part that fits.
AnswerOK(part, answer, asked, none) ==
    /\ part = "nodes" => answer \in none \/ NodesOK(answer)
    /\ part = "tasks" => answer \in Seq(Snapshot) \cup none
    /\ part = "events" /\ page.kind = "session_events" =>
          answer \in none \/ Held(answer, asked)

\* One answer changes.
LEMMA GotChanges ==
    ASSUME NEW got, NEW asked, NEW none, GotOK(got, asked, none), NEW part \in Names, NEW answer,
           AnswerOK(part, answer, asked, none)
    PROVE  GotOK(With(got, part, answer), asked, none)
<1>0. got = [p \in Names |-> got[p]]
  BY DEF GotOK
<1> DEFINE next == With(got, part, answer)
<1>1. next = [other \in Names |-> next[other]]
  BY <1>0, WithPart
<1>2. next[part] = answer
  BY <1>0, WithPart
<1>3. \A other \in Names \ {part} : next[other] = got[other]
  BY <1>0, WithPart
<1> HIDE DEF next
<1>4. next.nodes \notin none => NodesOK(next.nodes)
  BY <1>2, <1>3 DEF GotOK, AnswerOK, Names
<1>5. next.tasks \in Seq(Snapshot) \cup none
  BY <1>2, <1>3 DEF GotOK, AnswerOK, Names
<1>6. page.kind = "session_events" /\ next.events \notin none => Held(next.events, asked)
  BY <1>2, <1>3 DEF GotOK, AnswerOK, Names
<1>7. GotOK(next, asked, none)
  BY <1>1, <1>4, <1>5, <1>6, Zenon DEF GotOK
<1> QED
  BY <1>7 DEF next

\* One read more for a part.
LEMMA GotMore ==
    ASSUME Tables, NEW got, NEW asked, NEW none, none \in {{NoAnswer}, NoList},
           GotOK(got, asked, none), NEW part \in Names,
           ~Answered(got[part], part)
    PROVE  GotOK(With(got, part, ReadOn(got[part], part, asked)), asked, none)
<1> DEFINE answer == ReadOn(got[part], part, asked)
<1>1. CASE part = "nodes"
  <2>1. CASE got.nodes = NoAnswer
    <3>1. answer = RowsRead
      BY <1>1, <2>1 DEF ReadOn
    <3>2. NodesOK(answer)
      BY <3>1, RowsListed DEF NodesOK
    <3>3. AnswerOK(part, answer, asked, none)
      BY <1>1, <3>2, Zenon DEF AnswerOK
    <3> QED
      BY <3>3, GotChanges
  <2>2. CASE got.nodes # NoAnswer
    <3>1. got.nodes # NotOk /\ ~Complete(got.nodes)
      BY <1>1, <2>2 DEF Answered
    <3>2. NodesOK(got.nodes)
      BY <2>2, <3>1 DEF GotOK, NoList
    <3>3. answer = LookedUp(got.nodes)
      BY <1>1, <2>2 DEF ReadOn
    <3> QED
      BY <1>1, <3>1, <3>2, <3>3, FlagAdded, GotChanges DEF AnswerOK
  <2>3. AnswerOK(part, answer, asked, none) => GotOK(With(got, part, answer), asked, none)
    BY GotChanges
  <2> QED
    BY <2>1, <2>2, <2>3
<1>2. CASE part = "tasks"
  BY <1>2, TasksListed, GotChanges DEF AnswerOK
<1>3. CASE part = "events"
  <2>1. page.kind = "session_events" =>
           answer = EventsAnswer(events, asked.node, asked.kind, FilteredRead)
    BY <1>3 DEF ReadOn
  <2>2. Held(EventsAnswer(events, asked.node, asked.kind, FilteredRead), asked)
    BY HeldNow DEF Tables
  <2>3. AnswerOK(part, answer, asked, none)
    BY <1>3, <2>1, <2>2 DEF AnswerOK
  <2> QED
    BY <2>3, GotChanges
<1> QED
  BY <1>1, <1>2, <1>3 DEF Names

\* No answers, and answers that are kept while the server goes on.
LEMMA GotNothing ==
    ASSUME NEW asked, NEW none, NoAnswer \in none
    PROVE  GotOK(Nothing, asked, none)
<1>1. Nothing = [part \in Names |-> NoAnswer]
  BY DEF Nothing, Names
<1> QED
  BY <1>1 DEF GotOK, Names

\* Answers stay what they are while the log grows.
LEMMA GotLater ==
    ASSUME events \in Seq(Event), Grows, page'.kind = page.kind,
           NEW got, NEW asked, NEW none, GotOK(got, asked, none)
    PROVE  GotOK(got, asked, none)'
<1>1. Held(got.events, asked) => Held(got.events, asked)'
  BY HeldLater
<1> QED
  BY <1>1 DEF GotOK

-----------------------------------------------------------------------------
(* Steps. *)

\* The steps of Next, one by one.
LEMMA PageSteps ==
    ASSUME [Next]_vars
    PROVE  \/ ServerStep \/ TaskMoves \/ PageReads \/ PageOpens \/ EditFilters
           \/ \E r \in Slot : \/ Tick(r) \/ Apply(r) \/ Abandon(r)
                              \/ \E part \in Parts : Serve(r, part) \/ ServeNotOk(r, part)
           \/ UNCHANGED vars
BY DEF Next, Load, Run, Fails

\* The server next to the page: its sessions keep their invariant, and the log grows.
LEMMA ServerNext ==
    ASSUME IInv, Tables, [Next]_vars
    PROVE  /\ IInv' /\ Grows /\ tasks' \in Seq(Task)
           /\ IsFiniteSet({n \in Node : rows'[n].known})
<1> DEFINE OK == /\ IInv' /\ Grows /\ tasks' \in Seq(Task)
                 /\ IsFiniteSet({n \in Node : rows'[n].known})
<1>0. /\ tasks \in Table /\ IsFiniteSet({n \in Node : rows[n].known})
      /\ Path \subseteq Node
  BY SessionsAssumption DEF Tables, Table
<1>1. CASE ServerStep
  BY <1>1, SessionsMove DEF ServerStep
<1>2. UNCHANGED <<conn, registry, rows>> => IInv'
  BY DEF IInv, ConnTypes, Shown, NoGhostSession, RowsWrittenByOwner
<1>3. CASE TaskMoves
  <2>1. ASSUME NEW n \in Path PROVE n \in Node
    BY <1>0
  <2>2. tasks' \in Table
    <3>1. ASSUME NEW n \in Path, tasks' = Insert(tasks, n) PROVE tasks' \in Table
      <4>1. TableStep(tasks, tasks')
        BY <2>1, <3>1 DEF TableStep
      <4> QED
        BY <1>0, <4>1, StepTable
    <3>2. ASSUME NEW n \in Path, QueuedFor(tasks, n) # {}, tasks' = Claim(tasks, n)
          PROVE  tasks' \in Table
      <4>1. TableStep(tasks, tasks')
        BY <2>1, <3>2 DEF TableStep, RowStep
      <4> QED
        BY <1>0, <4>1, StepTable
    <3>3. ASSUME NEW id \in DOMAIN tasks, NEW outcome \in {"success", "failure"},
                 tasks' = SubmitResult(tasks, id, tasks[id].node, outcome)
          PROVE  tasks' \in Table
      <4>1. tasks[id].node \in Node
        BY <1>0, RowOfTable DEF Task
      <4>2. TableStep(tasks, tasks')
        BY <3>3, <4>1 DEF TableStep, RowStep, NamedStep
      <4> QED
        BY <1>0, <4>2, StepTable
    <3> QED
      BY <1>3, <3>1, <3>2, <3>3 DEF TaskMoves
  <2> QED
    BY <1>0, <1>2, <1>3, <2>2 DEF TaskMoves, Grows, Table
<1>4. CASE UNCHANGED sessionVars
  BY <1>0, <1>2, <1>4 DEF sessionVars, Grows, Table
<1>5. PageReads \/ PageOpens \/ EditFilters \/ UNCHANGED vars => UNCHANGED sessionVars
  BY DEF PageReads, PageOpens, EditFilters, vars
<1>6. \A r \in Slot : Tick(r) \/ Apply(r) \/ Abandon(r)
         \/ (\E part \in Parts : Serve(r, part) \/ ServeNotOk(r, part)) => UNCHANGED sessionVars
  BY DEF Tick, Apply, Abandon, Serve, ServeNotOk
<1> QED
  BY <1>1, <1>3, <1>4, <1>5, <1>6, PageSteps, Zenon

\* A page stays the page that it is, and does not close.
LEMMA PageNext ==
    ASSUME Tables, [Next]_vars
    PROVE  /\ page' \in [kind : DOMAIN PartsOf, pc : {"loading", "open"}]
           /\ page'.kind = page.kind
           /\ page'.pc = "loading" => page.pc = "loading"
<1>0. page \in [kind : DOMAIN PartsOf, pc : {"loading", "open"}]
  BY DEF Tables
<1>1. CASE page' = page
  BY <1>0, <1>1
<1>2. CASE PageOpens
  <2>1. page' = [page EXCEPT !.pc = "open"]
    BY <1>2 DEF PageOpens
  <2> QED
    BY <1>0, <2>1
<1>3. ServerStep \/ TaskMoves \/ PageReads \/ EditFilters \/ UNCHANGED vars => page' = page
  BY DEF ServerStep, TaskMoves, PageReads, EditFilters, vars, pageVars
<1>4. \A r \in Slot : Tick(r) \/ Apply(r) \/ Abandon(r)
         \/ (\E part \in Parts : Serve(r, part) \/ ServeNotOk(r, part)) => page' = page
  BY DEF Tick, Apply, Abandon, Serve, ServeNotOk
<1> QED
  BY <1>1, <1>2, <1>3, <1>4, PageSteps, Zenon

\* The tables, the form, and the calls of a page that is still rendered.
LEMMA TablesNext ==
    ASSUME IInv, Tables, [Next]_vars
    PROVE  Tables'
<1>1. Grows /\ tasks' \in Seq(Task) /\ IsFiniteSet({n \in Node : rows'[n].known})
  BY ServerNext
<1>2. events' \in Seq(Event)
  <2>0. events \in Seq(Event)
    BY DEF Tables
  <2>1. \A event \in Event : Append(events, event) \in Seq(Event)
    BY <2>0
  <2> QED
    BY <1>1, <2>0, <2>1 DEF Grows
<1>3. page' \in [kind : DOMAIN PartsOf, pc : {"loading", "open"}] /\ (page'.pc = "loading" => page.pc = "loading")
  BY PageNext
<1>4. filters' \in Filter
  <2>1. CASE EditFilters
    BY <2>1, SessionsAssumption DEF EditFilters, FormValues, Filter
  <2>2. filters' = filters => filters' \in Filter
    BY DEF Tables
  <2>3. ServerStep \/ TaskMoves \/ PageReads \/ PageOpens \/ UNCHANGED vars => filters' = filters
    BY DEF ServerStep, TaskMoves, PageReads, PageOpens, vars, pageVars
  <2>4. \A r \in Slot : Tick(r) \/ Apply(r) \/ Abandon(r)
           \/ (\E part \in Parts : Serve(r, part) \/ ServeNotOk(r, part)) => filters' = filters
    BY DEF Tick, Apply, Abandon, Serve, ServeNotOk
  <2> QED
    BY <2>1, <2>2, <2>3, <2>4, PageSteps, Zenon
<1>5. troubles' \in 0..MaxTroubles
  <2>0. troubles \in 0..MaxTroubles /\ MaxTroubles \in Nat
    BY PagesAssumption DEF Tables
  <2>1. Trouble \/ UNCHANGED troubles => troubles' \in 0..MaxTroubles
    BY <2>0 DEF Trouble
  <2>2. ServerStep \/ TaskMoves \/ PageReads \/ PageOpens \/ EditFilters \/ UNCHANGED vars
           => Trouble \/ UNCHANGED troubles
    BY DEF ServerStep, TaskMoves, PageReads, PageOpens, EditFilters, vars
  <2>3. \A r \in Slot : Tick(r) \/ Apply(r) \/ Abandon(r)
           \/ (\E part \in Parts : Serve(r, part) \/ ServeNotOk(r, part)) => Trouble \/ UNCHANGED troubles
    BY DEF Tick, Apply, Abandon, Serve, ServeNotOk
  <2> QED
    BY <2>1, <2>2, <2>3, PageSteps, Zenon
<1>6. page'.pc = "loading" => \A r \in Slot : refresh'[r] = Idle
  <2>0. SUFFICES ASSUME page'.pc = "loading" PROVE \A r \in Slot : refresh'[r] = Idle
    OBVIOUS
  <2>1. page.pc = "loading" /\ \A r \in Slot : refresh[r] = Idle /\ refresh[r].pc = "idle"
    BY <1>3, <2>0 DEF Tables, Idle
  <2>2. ~PageOpens
    BY <2>0 DEF PageOpens, Tables
  <2>3. \A r \in Slot : ~(Tick(r) \/ Apply(r) \/ Abandon(r)
                          \/ (\E part \in Parts : Serve(r, part) \/ ServeNotOk(r, part)))
    BY <2>1 DEF Tick, Apply, Abandon, Serve, ServeNotOk
  <2>4. ServerStep \/ TaskMoves \/ PageReads \/ EditFilters \/ UNCHANGED vars => refresh' = refresh
    BY DEF ServerStep, TaskMoves, PageReads, EditFilters, vars, pageVars
  <2>5. refresh' = refresh
    BY <2>2, <2>3, <2>4, PageSteps, Zenon
  <2> QED
    BY <2>1, <2>5
<1> QED
  BY <1>1, <1>2, <1>3, <1>4, <1>5, <1>6 DEF Tables

-----------------------------------------------------------------------------
(* Calls of the refresh function, and what the handler of the page reads. *)

\* A call that is over.
LEMMA IdleCall == CallOK(Idle)
<1>1. GotOK(Nothing, NoFilter, NoList)
  BY GotNothing DEF NoList
<1>2. NoFilter \in Filter
  BY DEF NoFilter, Filter
<1> QED
  BY <1>1, <1>2 DEF CallOK, Idle

\* A call that starts.
LEMMA CallStarts ==
    ASSUME NEW asked \in Filter
    PROVE  CallOK([pc |-> "fetching", asked |-> asked, got |-> Nothing])
<1>1. GotOK(Nothing, asked, NoList)
  BY GotNothing DEF NoList
<1> QED
  BY <1>1 DEF CallOK

\* A call that gets an answer.
LEMMA CallGets ==
    ASSUME NEW call, CallOK(call), call.pc = "fetching", NEW part \in Names, NEW answer,
           GotOK(With(call.got, part, answer), call.asked, NoList)
    PROVE  CallOK([call EXCEPT !.got[part] = answer])
<1> DEFINE got == With(call.got, part, answer)
<1>1. call = [pc |-> call.pc, asked |-> call.asked, got |-> call.got] /\ call.asked \in Filter
  BY DEF CallOK
<1>2. [call EXCEPT !.got[part] = answer] = [pc |-> "fetching", asked |-> call.asked, got |-> got]
  BY <1>1 DEF With
<1> HIDE DEF got
<1>3. CallOK([pc |-> "fetching", asked |-> call.asked, got |-> got])
  BY <1>1 DEF CallOK, got
<1> QED
  BY <1>2, <1>3

\* Calls stay what they are while the log grows.
LEMMA CallLater ==
    ASSUME events \in Seq(Event), Grows, page'.kind = page.kind, NEW call, CallOK(call)
    PROVE  CallOK(call)'
<1>1. GotOK(call.got, call.asked, NoList)'
  BY GotLater DEF CallOK
<1> QED
  BY <1>1 DEF CallOK

\* One call changes.
LEMMA CallsChange ==
    ASSUME events \in Seq(Event), Grows, page'.kind = page.kind, Calls,
           NEW r \in Slot, NEW call, CallOK(call), refresh' = [refresh EXCEPT ![r] = call]
    PROVE  Calls'
<1>1. refresh = [s \in Slot |-> refresh[s]] /\ \A s \in Slot : CallOK(refresh[s])
  BY DEF Calls
<1>2. refresh' = [s \in Slot |-> IF s = r THEN call ELSE refresh[s]]
  BY <1>1
<1>3. refresh' = [s \in Slot |-> refresh'[s]]
  BY <1>2
<1>4. ASSUME NEW s \in Slot PROVE CallOK(refresh[s])'
  <2>1. PICK next : next = refresh'[s]
    OBVIOUS
  <2>2. CallOK(next)
    BY <1>1, <1>2, <2>1
  <2>3. CallOK(next)'
    BY <2>2, CallLater
  <2> QED
    BY <2>1, <2>3
<1> QED
  BY <1>3, <1>4 DEF Calls

\* No call changes.
LEMMA CallsStay ==
    ASSUME events \in Seq(Event), Grows, page'.kind = page.kind, Calls, refresh' = refresh
    PROVE  Calls'
<1>1. ASSUME NEW s \in Slot PROVE CallOK(refresh[s])'
  <2>1. PICK call : call = refresh[s]
    OBVIOUS
  <2>2. CallOK(call)'
    BY <2>1, CallLater DEF Calls
  <2> QED
    BY <2>1, <2>2
<1> QED
  BY <1>1 DEF Calls

\* The calls, whatever happens.
LEMMA CallsNext ==
    ASSUME IInv, Tables, Calls, [Next]_vars
    PROVE  Calls'
<1>0. /\ events \in Seq(Event) /\ Grows /\ page'.kind = page.kind
      /\ filters \in Filter /\ Parts \subseteq Names
  BY ServerNext, PageNext, PartsNamed DEF Tables
<1>1. ASSUME NEW r \in Slot PROVE CallOK(refresh[r])
  BY DEF Calls
<1>2. ASSUME NEW r \in Slot, refresh' = [refresh EXCEPT ![r].pc = "fetching", ![r].asked = filters],
             refresh[r] = Idle
      PROVE  Calls'
  <2>1. refresh' = [refresh EXCEPT ![r] = [pc |-> "fetching", asked |-> filters, got |-> Nothing]]
    <3>1. refresh = [s \in Slot |-> refresh[s]]
      BY DEF Calls
    <3>2. [refresh[r] EXCEPT !.pc = "fetching", !.asked = filters]
             = [pc |-> "fetching", asked |-> filters, got |-> Nothing]
      <4>1. refresh[r] = [pc |-> "idle", asked |-> NoFilter, got |-> Nothing]
        BY <1>2 DEF Idle
      <4> DEFINE called == [refresh[r] EXCEPT !.pc = "fetching"]
      <4>2. called = [pc |-> "fetching", asked |-> NoFilter, got |-> Nothing]
        BY <4>1
      <4> HIDE DEF called
      <4>3. [called EXCEPT !.asked = filters] = [pc |-> "fetching", asked |-> filters, got |-> Nothing]
        BY <4>2
      <4> QED
        BY <4>3 DEF called
    <3>3. [refresh EXCEPT ![r].pc = "fetching", ![r].asked = filters]
             = [refresh EXCEPT ![r] = [refresh[r] EXCEPT !.pc = "fetching", !.asked = filters]]
      BY <3>1
    <3> QED
      BY <1>2, <3>2, <3>3
  <2>2. CallOK([pc |-> "fetching", asked |-> filters, got |-> Nothing])
    BY <1>0, CallStarts
  <2> QED
    BY <1>0, <2>1, <2>2, CallsChange
<1>3. CASE PageOpens
  <2>1. CASE page.kind = "tasks"
    BY <1>0, <1>3, <2>1, CallsStay DEF PageOpens
  <2>2. CASE page.kind # "tasks"
    <3>1. PICK r \in Slots : refresh' = [refresh EXCEPT ![r].pc = "fetching", ![r].asked = filters]
      BY <1>3, <2>2 DEF PageOpens
    <3>2. r \in Slot
      BY PagesAssumption DEF Slots
    <3>3. refresh[r] = Idle
      BY <1>3, <3>2 DEF PageOpens, Tables
    <3> QED
      BY <1>2, <3>1, <3>2, <3>3
  <2> QED
    BY <2>1, <2>2
<1>4. ASSUME NEW r \in Slot, Tick(r) PROVE Calls'
  <2>1. refresh[r] = Idle
    BY <1>1, <1>4 DEF Tick, CallOK
  <2> QED
    BY <1>2, <1>4, <2>1 DEF Tick, CurrentFilters
<1>5. ASSUME NEW r \in Slot, Apply(r) \/ Abandon(r) PROVE Calls'
  <2>1. refresh' = [refresh EXCEPT ![r] = Idle]
    BY <1>5 DEF Apply, Abandon, Returned
  <2> QED
    BY <1>0, <2>1, IdleCall, CallsChange
<1>6. ASSUME NEW r \in Slot, NEW part \in Names, NEW answer, refresh[r].pc = "fetching",
             GotOK(With(refresh[r].got, part, answer), refresh[r].asked, NoList),
             refresh' = [refresh EXCEPT ![r].got[part] = answer]
      PROVE  Calls'
  <2>1. CallOK([refresh[r] EXCEPT !.got[part] = answer])
    BY <1>1, <1>6, CallGets
  <2>2. refresh' = [refresh EXCEPT ![r] = [refresh[r] EXCEPT !.got[part] = answer]]
    BY <1>6
  <2> QED
    BY <1>0, <2>1, <2>2, CallsChange
<1>7. ASSUME NEW r \in Slot, NEW part \in Parts, Serve(r, part) PROVE Calls'
  <2> DEFINE got == refresh[r].got
             asked == refresh[r].asked
             answer == ReadOn(got[part], part, asked)
  <2>1. GotOK(got, asked, NoList)
    BY <1>1 DEF CallOK
  <2>2. part \in Names /\ ~Answered(got[part], part)
    BY <1>0, <1>7 DEF Serve
  <2>3. refresh[r].pc = "fetching" /\ refresh' = [refresh EXCEPT ![r].got[part] = answer]
    BY <1>7 DEF Serve
  <2>4. GotOK(With(got, part, answer), asked, NoList)
    BY <2>1, <2>2, GotMore
  <2> HIDE DEF answer
  <2> QED
    BY <1>6, <2>2, <2>3, <2>4
<1>8. ASSUME NEW r \in Slot, NEW part \in Parts, ServeNotOk(r, part) PROVE Calls'
  <2>1. part \in Names /\ GotOK(refresh[r].got, refresh[r].asked, NoList)
    BY <1>0, <1>1 DEF CallOK
  <2>2. AnswerOK(part, NotOk, refresh[r].asked, NoList)
    BY DEF AnswerOK, NoList
  <2>3. GotOK(With(refresh[r].got, part, NotOk), refresh[r].asked, NoList)
    BY <2>1, <2>2, GotChanges
  <2> QED
    BY <1>6, <1>8, <2>1, <2>3 DEF ServeNotOk
<1>9. ServerStep \/ TaskMoves \/ PageReads \/ EditFilters \/ UNCHANGED vars => refresh' = refresh
  BY DEF ServerStep, TaskMoves, PageReads, EditFilters, vars, pageVars
<1>10. refresh' = refresh => Calls'
  BY <1>0, CallsStay
<1> QED
  BY <1>3, <1>4, <1>5, <1>7, <1>8, <1>9, <1>10, PageSteps, Zenon

\* The part that the handler of the page reads next.
LEMMA PartToRead ==
    ASSUME Tables
    PROVE  /\ NextPart # 0 => /\ PartsOf[page.kind][NextPart] \in Names
                              /\ ~Answered(read[PartsOf[page.kind][NextPart]], PartsOf[page.kind][NextPart])
           /\ NextPart = 0 => \A part \in Parts : Answered(read[part], part)
<1> DEFINE s == PartsOf[page.kind]
           open == {i \in 1..Len(s) : ~Answered(read[s[i]], s[i])}
<1>1. s \in Seq(Names)
  BY PartsNamed
<1>2. NextPart = IF open # {} THEN Min(open) ELSE 0
  BY DEF NextPart, SelectInSeq
<1>3. CASE open # {}
  <2>1. open \in SUBSET Nat
    OBVIOUS
  <2>2. \E least \in open : \A other \in open : least <= other
    BY <1>3, <2>1, Least
  <2> HIDE DEF open
  <2>3. Min(open) \in open
    BY <2>2 DEF Min
  <2>4. NextPart \in open
    BY <1>2, <1>3, <2>3
  <2>5. NextPart \in 1..Len(s) /\ ~Answered(read[s[NextPart]], s[NextPart])
    BY <2>4 DEF open
  <2> HIDE DEF s
  <2>6. NextPart # 0 /\ s[NextPart] \in Names
    BY <1>1, <2>5
  <2> QED
    BY <2>5, <2>6 DEF s
<1>4. CASE open = {}
  <2>1. NextPart = 0
    BY <1>2, <1>4
  <2>2. \A i \in 1..Len(s) : Answered(read[s[i]], s[i])
    BY <1>4
  <2>3. \A part \in Parts : \E i \in 1..Len(s) : s[i] = part
    BY <1>1 DEF Parts, ToSet
  <2> QED
    BY <2>1, <2>2, <2>3
<1> QED
  BY <1>3, <1>4

\* What the handler has read, for the filters of its query.
LEMMA ReadsNext ==
    ASSUME IInv, Tables, Reads, [Next]_vars
    PROVE  Reads'
<1>0. /\ events \in Seq(Event) /\ Grows /\ page'.kind = page.kind
      /\ page'.pc = "loading" => page.pc = "loading"
      /\ page'.pc \in {"loading", "open"}
      /\ GotOK(read, filters, {NoAnswer})
  BY ServerNext, PageNext DEF Tables, Reads
<1>1. ASSUME NEW got, NEW asked, GotOK(got, asked, {NoAnswer}), read' = got, filters' = asked,
             page'.pc = "open" => got = Nothing
      PROVE  Reads'
  <2>1. PICK g, a : g = got /\ a = asked
    OBVIOUS
  <2>2. GotOK(g, a, {NoAnswer})'
    BY <1>0, <1>1, <2>1, GotLater
  <2> QED
    BY <1>1, <2>1, <2>2 DEF Reads, Nothing
<1>2. CASE PageReads
  <2> DEFINE part == PartsOf[page.kind][NextPart]
             got  == With(read, part, ReadOn(read[part], part, filters))
  <2>1. part \in Names /\ ~Answered(read[part], part)
    BY <1>2, PartToRead DEF PageReads
  <2>2. read' = got /\ filters' = filters /\ page'.pc = "loading"
    BY <1>2 DEF PageReads, With
  <2>3. GotOK(got, filters, {NoAnswer})
    BY <1>0, <2>1, GotMore
  <2> HIDE DEF got
  <2> QED
    BY <1>1, <2>2, <2>3
<1>3. CASE PageOpens
  <2>1. read' = Nothing /\ filters' = filters
    BY <1>3 DEF PageOpens
  <2>2. GotOK(Nothing, filters, {NoAnswer})
    BY GotNothing
  <2> QED
    BY <1>1, <2>1, <2>2
<1>4. CASE EditFilters
  <2>1. read' = Nothing /\ GotOK(Nothing, filters', {NoAnswer})
    BY <1>4, GotNothing DEF EditFilters, Reads
  <2> QED
    BY <1>1, <2>1
<1>5. CASE UNCHANGED <<page, read, filters>>
  BY <1>0, <1>1, <1>5 DEF Reads
<1>6. ServerStep \/ TaskMoves \/ UNCHANGED vars => UNCHANGED <<page, read, filters>>
  BY DEF ServerStep, TaskMoves, vars, pageVars
<1>7. \A r \in Slot : Tick(r) \/ Apply(r) \/ Abandon(r)
         \/ (\E part \in Parts : Serve(r, part) \/ ServeNotOk(r, part)) => UNCHANGED <<page, read, filters>>
  BY DEF Tick, Apply, Abandon, Serve, ServeNotOk
<1> QED
  BY <1>2, <1>3, <1>4, <1>5, <1>6, <1>7, PageSteps, Zenon

-----------------------------------------------------------------------------
(* What the page shows. *)

\* The list on the page of events, under its label, was in the log.
LEMMA EventsShown ==
    ASSUME page.kind = "session_events", NEW got, NEW asked, NEW shown,
           shown = Rendered(got, asked), Held(got.events, asked)
    PROVE  /\ shown.count = Len(shown.list)
           /\ Held(shown.list, shown.label)
<1>1. shown = [label |-> asked, count |-> Len(got.events), list |-> got.events]
  BY DEF Rendered, EventsDom
<1> QED
  BY <1>1

\* The numbers that the runtime page shows.
Agreeing(shown) ==
    /\ shown.summary.online = Len(shown.nodes) /\ shown.cards.online = Len(shown.nodes)
    /\ shown.summary.active = Len(shown.active) /\ shown.cards.active = Len(shown.active)
    /\ shown.summary.events = Len(shown.events)
    /\ shown.cards.last = FirstOf(shown.events, 1)
    /\ shown.cards.failed = shown.summary.failed
    /\ Len(FailedTasks(shown.results)) <= shown.summary.failed

\* They agree when all of it is rendered from the same answers.
LEMMA RuntimeShown ==
    ASSUME page.kind = "runtime", NEW got, NEW asked, NEW shown,
           shown = Rendered(got, asked), got.tasks \in Seq(Snapshot)
    PROVE  Agreeing(shown)
<1>0. ResultsShown \in Nat
  BY PagesAssumption, ReadsAssumption
<1> DEFINE online == OnlineNodes(got.nodes)
           active == ActiveTasks(got.tasks)
           failed == Len(FailedTasks(got.tasks))
           results == RecentResults(got.tasks, ResultsShown)
           total == Len(got.nodes.rows)
<1>1. Len(FailedTasks(results)) <= failed
  BY <1>0, FailedWithin
<1>2. shown = [summary |-> [online |-> Len(online), total |-> total, active |-> Len(active),
                            failed |-> failed, events |-> Len(got.events)],
               cards |-> [online |-> Len(online), total |-> total, active |-> Len(active),
                          failed |-> failed, last |-> FirstOf(got.events, 1)],
               nodes |-> online, active |-> active, events |-> got.events, results |-> results]
  BY DEF Rendered, RuntimeDom, RuntimeSummary, OverviewCards
<1> HIDE DEF online, active, failed, results, total
<1> QED
  BY <1>1, <1>2 DEF Agreeing

\* What is shown, of the page of events and of the runtime page.
ShownOK(shown) ==
    /\ page.kind = "session_events" => shown.count = Len(shown.list) /\ Held(shown.list, shown.label)
    /\ page.kind = "runtime" => Agreeing(shown)

\* The two properties, in one.
LEMMA ShownMeans == (page.pc = "open" => ShownOK(dom)) <=> LabelFitsList /\ RuntimeAgrees
BY DEF ShownOK, LabelFitsList, RuntimeAgrees, Agreeing, Held

\* A page that shows answers to all that it asked shows what it should.
LEMMA AnswersShown ==
    ASSUME Tables, NEW got, NEW asked, NEW none, NoAnswer \in none, none \subseteq NoList,
           GotOK(got, asked, none),
           \A part \in Parts : Answered(got[part], part) /\ got[part] \notin none
    PROVE  ShownOK(Rendered(got, asked))
<1> DEFINE shown == Rendered(got, asked)
<1>1. CASE page.kind = "session_events"
  <2>1. got.events \notin none
    BY <1>1, PartsNamed
  <2>2. Held(got.events, asked)
    BY <1>1, <2>1 DEF GotOK
  <2>3. shown.count = Len(shown.list) /\ Held(shown.list, shown.label)
    BY <1>1, <2>2, EventsShown
  <2> HIDE DEF shown
  <2>4. ShownOK(shown)
    BY <1>1, <2>3 DEF ShownOK
  <2> QED
    BY <2>4 DEF shown
<1>2. CASE page.kind = "runtime"
  <2>1. got.tasks \notin none
    BY <1>2, PartsNamed
  <2>2. got.tasks \in Seq(Snapshot)
    BY <2>1 DEF GotOK
  <2>3. Agreeing(shown)
    BY <1>2, <2>2, RuntimeShown
  <2> HIDE DEF shown
  <2>4. ShownOK(shown)
    BY <1>2, <2>3 DEF ShownOK
  <2> QED
    BY <2>4 DEF shown
<1>3. CASE page.kind \notin {"session_events", "runtime"}
  BY <1>3 DEF ShownOK
<1> QED
  BY <1>1, <1>2, <1>3

\* What is shown stays right while the log grows.
LEMMA ShownLater ==
    ASSUME events \in Seq(Event), Grows, page'.kind = page.kind, NEW shown, ShownOK(shown)
    PROVE  ShownOK(shown)'
<1>1. page.kind = "session_events" => Held(shown.list, shown.label)'
  BY HeldLater DEF ShownOK
<1> QED
  BY <1>1 DEF ShownOK, Agreeing

\* What the page shows, whatever happens.
LEMMA ShownNext ==
    ASSUME IInv, Tables, Reads, Calls, page.pc = "open" => ShownOK(dom), [Next]_vars
    PROVE  page'.pc = "open" => ShownOK(dom)'
<1>0. /\ events \in Seq(Event) /\ Grows /\ page'.kind = page.kind
      /\ page.pc \in {"loading", "open"} /\ Parts \subseteq Names
  BY ServerNext, PageNext, PartsNamed DEF Tables
<1>1. ASSUME NEW shown, ShownOK(shown), dom' = shown PROVE ShownOK(dom)'
  <2>1. PICK s : s = shown
    OBVIOUS
  <2>2. ShownOK(s)'
    BY <1>0, <1>1, <2>1, ShownLater
  <2> QED
    BY <1>1, <2>1, <2>2
<1>2. CASE PageOpens
  <2>1. \A part \in Parts : Answered(read[part], part)
    BY <1>2, PartToRead DEF PageOpens
  <2>2. \A part \in Parts : read[part] \notin {NoAnswer}
    BY <2>1 DEF Answered
  <2>3. ShownOK(Rendered(read, filters))
    BY <2>1, <2>2, AnswersShown DEF Reads, NoList
  <2> QED
    BY <1>1, <1>2, <2>3 DEF PageOpens
<1>3. ASSUME NEW r \in Slot, Apply(r), page.pc = "open" PROVE ShownOK(dom)'
  <2>1. \A part \in Parts : Answered(refresh[r].got[part], part)
    BY <1>3 DEF Apply
  <2>2. CASE \E part \in Parts : refresh[r].got[part] = NotOk
    BY <1>1, <1>3, <2>2 DEF Apply, Applied
  <2>3. CASE ~ \E part \in Parts : refresh[r].got[part] = NotOk
    <3>1. dom' = Rendered(refresh[r].got, refresh[r].asked)
      BY <1>3, <2>3 DEF Apply, Applied
    <3>2. \A part \in Parts : refresh[r].got[part] \notin NoList
      BY <2>1, <2>3 DEF Answered, NoList
    <3>3. GotOK(refresh[r].got, refresh[r].asked, NoList)
      BY DEF Calls, CallOK
    <3>4. ShownOK(Rendered(refresh[r].got, refresh[r].asked))
      BY <2>1, <3>2, <3>3, AnswersShown DEF NoList
    <3> QED
      BY <1>1, <3>1, <3>4
  <2> QED
    BY <2>2, <2>3
<1>4. \A r \in Slot : page.pc = "loading" => ~Apply(r)
  BY DEF Tables, Apply, Idle
<1>5. dom' = dom /\ page' = page => (page'.pc = "open" => ShownOK(dom)')
  BY <1>1
<1>6. ServerStep \/ TaskMoves \/ PageReads \/ EditFilters \/ UNCHANGED vars => dom' = dom /\ page' = page
  BY DEF ServerStep, TaskMoves, PageReads, EditFilters, vars, pageVars
<1>7. \A r \in Slot : Tick(r) \/ Abandon(r)
         \/ (\E part \in Parts : Serve(r, part) \/ ServeNotOk(r, part)) => dom' = dom /\ page' = page
  BY DEF Tick, Abandon, Serve, ServeNotOk
<1>8. \A r \in Slot : Apply(r) => ShownOK(dom)'
  BY <1>0, <1>3, <1>4
<1> QED
  BY <1>2, <1>5, <1>6, <1>7, <1>8, PageSteps, Zenon

-----------------------------------------------------------------------------
(* Theorems. *)

\* list_session_events answers with the newest events that pass the filters and with no
\* others, the newest first, and leaves out none that is newer than one that it shows.
THEOREM NewestSelected ==
    ASSUME NEW log \in Seq(Event), NEW n, NEW kind, NEW limit \in Nat
    PROVE  /\ ListSessionEvents(log, n, kind, limit) \in Seq(Event)
           /\ Latest(ListSessionEvents(log, n, kind, limit), Len(log),
                     {id \in DOMAIN log : n \in {All, log[id].node} /\ kind \in {All, log[id].kind}},
                     log, limit)
<1> DEFINE good == {id \in DOMAIN log : n \in {All, log[id].node} /\ kind \in {All, log[id].kind}}
           list == ListSessionEvents(log, n, kind, limit)
<1>1. /\ Len(log) \in Nat /\ DOMAIN log = 1..Len(log)
      /\ \A i \in 1..Len(log) : Len(log) + 1 - i \in 1..Len(log) /\ log[i] \in Event
  OBVIOUS
<1>2. \A id \in 1..Len(log) :
         id \in good <=> n \in {All, log[id].node} /\ kind \in {All, log[id].kind}
  BY <1>1
<1>3. list = FirstOf(Joined(Len(log),
                [i \in 1..Len(log) |-> IF /\ n \in {All, log[Len(log) + 1 - i].node}
                                          /\ kind \in {All, log[Len(log) + 1 - i].kind}
                                       THEN <<log[Len(log) + 1 - i]>> ELSE <<>>]), limit)
  BY DEF ListSessionEvents, Newest
<1> HIDE DEF good
<1>4. [i \in 1..Len(log) |-> IF /\ n \in {All, log[Len(log) + 1 - i].node}
                                /\ kind \in {All, log[Len(log) + 1 - i].kind}
                             THEN <<log[Len(log) + 1 - i]>> ELSE <<>>]
         = [i \in 1..Len(log) |-> IF Len(log) + 1 - i \in good
                                  THEN <<log[Len(log) + 1 - i]>> ELSE <<>>]
  BY <1>1, <1>2
<1>5. list = FirstOf(Joined(Len(log), [i \in 1..Len(log) |-> IF Len(log) + 1 - i \in good
                                       THEN <<log[Len(log) + 1 - i]>> ELSE <<>>]), limit)
  BY <1>3, <1>4
<1> HIDE DEF list
<1>6. list \in Seq(Event) /\ Latest(list, Len(log), good, log, limit)
  BY <1>1, <1>5, LatestOfNewest
<1> QED
  BY <1>6 DEF good, list

\* The invariant holds when a page is asked for.
LEMMA PageStarts == Init => IInv /\ PagesIInv
<1> SUFFICES ASSUME Init PROVE IInv /\ PagesIInv
  OBVIOUS
<1>1. IInv
  BY InitIInv DEF Init
<1>2. tasks \in Seq(Task)
  <2> DEFINE k == Cardinality(Busy)
             list == SetToSeq(Busy)
  <2>1. k \in Nat /\ list \in [1..k -> Busy] /\ Busy \subseteq Node
    BY SessionsAssumption, SetListed
  <2>2. tasks = [id \in 1..k |-> ClaimedRow(NewRow(list[id]))]
    BY DEF Init, SessionsInit
  <2> HIDE DEF k, list
  <2>3. ASSUME NEW id \in 1..k PROVE ClaimedRow(NewRow(list[id])) \in Task
    <3>1. list[id] \in Node
      BY <2>1
    <3>2. NewRow(list[id]) \in Task
      BY <3>1, NewRowFacts
    <3> QED
      BY <3>2, RowTypes
  <2>4. tasks \in [1..k -> Task]
    BY <2>2, <2>3
  <2>5. \A m \in Nat : \A f \in [1..m -> Task] : f \in Seq(Task)
    OBVIOUS
  <2> QED
    BY <2>1, <2>4, <2>5
<1>3. page \in [kind : DOMAIN PartsOf, pc : {"loading", "open"}] /\ page.pc = "loading"
  <2>1. PICK kind \in DOMAIN PartsOf : page = [kind |-> kind, pc |-> "loading"]
    BY DEF Init
  <2> QED
    BY <2>1
<1>4. filters \in Filter
  BY SessionsAssumption DEF Init, FormValues, Filter, NoFilter
<1>5. IsFiniteSet({n \in Node : rows[n].known})
  <2>1. {n \in Node : rows[n].known} = {}
    BY DEF Init, SessionsInit, NoRow
  <2> QED
    BY <2>1, FS_EmptySet
<1>6. events \in Seq(Event) /\ troubles \in 0..MaxTroubles /\ \A r \in Slot : refresh[r] = Idle
  BY PagesAssumption DEF Init, SessionsInit
<1>7. Tables
  BY <1>2, <1>3, <1>4, <1>5, <1>6 DEF Tables
<1>8. Reads
  BY <1>3, GotNothing DEF Init, Reads
<1>9. Calls
  BY <1>6, IdleCall DEF Init, Calls
<1>10. LabelFitsList /\ RuntimeAgrees
  BY <1>3, ShownMeans
<1> QED
  BY <1>1, <1>7, <1>8, <1>9, <1>10 DEF PagesIInv

\* Every step keeps it.
LEMMA PageKeeps ==
    ASSUME IInv, PagesIInv, [Next]_vars
    PROVE  IInv' /\ PagesIInv'
<1>1. Tables /\ Reads /\ Calls /\ (page.pc = "open" => ShownOK(dom))
  BY ShownMeans DEF PagesIInv
<1>2. IInv' /\ Tables' /\ Reads' /\ Calls'
  BY <1>1, ServerNext, TablesNext, ReadsNext, CallsNext
<1>3. page'.pc = "open" => ShownOK(dom)'
  BY <1>1, ShownNext
<1>4. ShownOK(dom)' => (page'.kind = "session_events" =>
            /\ dom'.count = Len(dom'.list)
            /\ \E i \in 0..Len(events') :
                  dom'.list = ListSessionEvents(SubSeq(events', 1, i), dom'.label.node,
                                                dom'.label.kind, FilteredRead))
  BY DEF ShownOK, Held
<1>5. ShownOK(dom)' => (page'.kind = "runtime" => Agreeing(dom)')
  BY DEF ShownOK
<1>6. LabelFitsList'
  BY <1>3, <1>4 DEF LabelFitsList
<1>7. RuntimeAgrees'
  BY <1>3, <1>5 DEF RuntimeAgrees, Agreeing
<1> QED
  BY <1>2, <1>6, <1>7 DEF PagesIInv

\* The invariant holds in every state.
THEOREM PagesInvariance == Spec => [](IInv /\ PagesIInv)
<1>1. IInv /\ PagesIInv /\ [Next]_vars => (IInv /\ PagesIInv)'
  BY PageKeeps
<1> QED
  BY <1>1, PageStarts, PTL DEF Spec

\* The tables, the lists that are read and asked for, and the calls have their types; no
\* list of nodes has more flags than rows.
THEOREM PagesTypeCorrect == Spec => []TypeOK
<1>1. IInv /\ PagesIInv => TypeOK
  <2> SUFFICES ASSUME IInv, PagesIInv PROVE TypeOK
    OBVIOUS
  <2>1. SessionsTypeOK
    BY DEF IInv, ConnTypes, PagesIInv, Tables, SessionsTypeOK
  <2>2. read.nodes \in NodeList \cup {NoAnswer}
    BY DEF PagesIInv, Reads, GotOK, NodesOK
  <2>3. ASSUME NEW r \in Slot
        PROVE  /\ refresh[r].pc \in {"idle", "fetching"} /\ refresh[r].asked \in Filter
               /\ refresh[r].pc = "idle" => refresh[r] = Idle
               /\ refresh[r].got.nodes \notin {NoAnswer, NotOk} =>
                     /\ refresh[r].got.nodes \in NodeList
                     /\ Len(refresh[r].got.nodes.flags) <= Len(refresh[r].got.nodes.rows)
    BY DEF PagesIInv, Calls, CallOK, GotOK, NodesOK, NoList
  <2> QED
    BY <2>1, <2>2, <2>3 DEF TypeOK, PagesIInv, Tables
<1> QED
  BY <1>1, PagesInvariance, PTL

\* The label above the list of events names the filters that selected it, however the
\* form is edited and the answers are overtaken.
THEOREM LabelFits == Spec => []LabelFitsList
<1>1. PagesIInv => LabelFitsList
  BY DEF PagesIInv
<1> QED
  BY <1>1, PagesInvariance, PTL

\* The numbers of the runtime page are those of the lists under them, and of the
\* results that it shows no more have failed than it says.
THEOREM RuntimeNumbersAgree == Spec => []RuntimeAgrees
<1>1. PagesIInv => RuntimeAgrees
  BY DEF PagesIInv
<1> QED
  BY <1>1, PagesInvariance, PTL
=============================================================================
