----------------------------- MODULE DataProofs -----------------------------
(* Lemmas about the data that the modules share: the rows of TaskTable (what each    *)
(* statement writes), its tables (what a step does to all rows), and the lists of    *)
(* Lists.                                                                            *)
EXTENDS TaskTable, Lists, WellFoundedInduction, TLAPS

-----------------------------------------------------------------------------
(* Rows and tables. *)

\* A function that agrees with a table on its domain and holds only rows is a
\* table.
LEMMA TableOfRows ==
    ASSUME NEW t \in Table, NEW u,
           u = [id \in DOMAIN t |-> u[id]],
           \A id \in DOMAIN t : u[id] \in Task
    PROVE  u \in Table /\ DOMAIN u = DOMAIN t
<1>1. PICK k \in Nat : t \in [1..k -> Task]
  BY DEF Table
<1>2. u \in [1..k -> Task]
  BY <1>1
<1> QED BY <1>1, <1>2 DEF Table

\* A row of a table is a Task, and its id a positive number.
LEMMA RowOfTable ==
    ASSUME NEW t \in Table, NEW id \in DOMAIN t
    PROVE  t[id] \in Task /\ id \in Nat \ {0}
BY DEF Table

\* A row with one column rewritten is a row.
LEMMA ColumnTypes ==
    ASSUME NEW row \in Task
    PROVE  /\ \A status \in Status : [row EXCEPT !.status = status] \in Task
           /\ \A flag \in BOOLEAN :
                /\ [row EXCEPT !.dispatched = flag] \in Task
                /\ [row EXCEPT !.acked = flag] \in Task
                /\ [row EXCEPT !.started = flag] \in Task
                /\ [row EXCEPT !.finished = flag] \in Task
                /\ [row EXCEPT !.canceled = flag] \in Task
           /\ \A outcome \in Outcome : [row EXCEPT !.result = outcome] \in Task
           /\ \A count \in Nat : [row EXCEPT !.retry_count = count] \in Task
BY DEF Task

\* Every row that a statement writes is a row.
LEMMA RowTypes ==
    ASSUME NEW row \in Task
    PROVE  /\ ClaimedRow(row) \in Task
           /\ AckedRow(row) \in Task
           /\ CanceledRow(row) \in Task
           /\ RequeuedRow(row) \in Task
           /\ RetriedRow(row) \in Task
           /\ \A outcome \in {"success", "failure"} : FinishedRow(row, outcome) \in Task
<1>1. ClaimedRow(row) \in Task
  BY ColumnTypes DEF ClaimedRow, Status, Outcome
<1>2. AckedRow(row) \in Task
  BY ColumnTypes DEF AckedRow, Status
<1>3. CanceledRow(row) \in Task
  BY ColumnTypes DEF CanceledRow, Status
<1>4. row.retry_count + 1 \in Nat
  BY DEF Task
<1>5. RequeuedRow(row) \in Task
  BY <1>4, ColumnTypes DEF RequeuedRow, Status
<1>6. RetriedRow(row) \in Task
  BY <1>4, ColumnTypes DEF RetriedRow, Status, Outcome
<1>7. ASSUME NEW outcome \in {"success", "failure"}
      PROVE  FinishedRow(row, outcome) \in Task
  BY <1>7, ColumnTypes DEF FinishedRow, Status, Outcome
<1> QED BY <1>1, <1>2, <1>3, <1>5, <1>6, <1>7

\* A statement that runs where its WHERE clause or its status check lets it
\* leaves the columns of the row consistent.
LEMMA RowsStayConsistent ==
    ASSUME NEW row \in Task, RowConsistent(row)
    PROVE  /\ row.status = "queued" => RowConsistent(ClaimedRow(row))
           /\ row.status = "dispatched" => RowConsistent(AckedRow(row))
           /\ row.status \in InProgress =>
                /\ RowConsistent(RequeuedRow(row))
                /\ RowConsistent(RetriedRow(row))
                /\ \A outcome \in {"success", "failure"} :
                      RowConsistent(FinishedRow(row, outcome))
           /\ row.status \in Cancelable => RowConsistent(CanceledRow(row))
<1> USE DEF RowConsistent, QueuedColumns, InProgressColumns, FinishedColumns, CanceledColumns,
            Untouched, InProgress, Cancelable, Task, Status, Outcome
<1>1. row.status = "queued" => RowConsistent(ClaimedRow(row))
  BY DEF ClaimedRow
<1>2. row.status = "dispatched" => RowConsistent(AckedRow(row))
  BY DEF AckedRow
<1>3. row.status \in InProgress => RowConsistent(RequeuedRow(row))
  BY DEF RequeuedRow
<1>4. row.status \in InProgress => RowConsistent(RetriedRow(row))
  BY DEF RetriedRow
<1>5. row.status \in InProgress =>
        \A outcome \in {"success", "failure"} : RowConsistent(FinishedRow(row, outcome))
  BY DEF FinishedRow
<1>6. row.status \in Cancelable => RowConsistent(CanceledRow(row))
  BY Zenon DEF CanceledRow
<1> QED BY <1>1, <1>2, <1>3, <1>4, <1>5, <1>6

\* The row that create_task inserts.
LEMMA NewRowFacts ==
    ASSUME NEW n \in Node
    PROVE  /\ NewRow(n) \in Task /\ NewRow(n).node = n /\ NewRow(n).status = "queued"
           /\ RowConsistent(NewRow(n)) /\ Attempts(NewRow(n)) = 0
<1>1. NewRow(n) \in Task
  BY DEF NewRow, Task, Status, Outcome
<1>2. RowConsistent(NewRow(n))
  BY DEF NewRow, RowConsistent, QueuedColumns, InProgressColumns, FinishedColumns,
         CanceledColumns, Untouched, InProgress
<1>3. Attempts(NewRow(n)) = 0 /\ NewRow(n).node = n /\ NewRow(n).status = "queued"
  BY DEF NewRow, Attempts
<1> QED BY <1>1, <1>2, <1>3

\* Only a claim adds to the attempts of a row: a task that is taken back trades
\* its dispatch stamp for one more retry.
LEMMA AttemptsOfRow ==
    ASSUME NEW row \in Task, RowConsistent(row)
    PROVE  /\ Attempts(row) \in Nat
           /\ row.status = "queued" => Attempts(ClaimedRow(row)) = Attempts(row) + 1
           /\ Attempts(AckedRow(row)) = Attempts(row)
           /\ Attempts(CanceledRow(row)) = Attempts(row)
           /\ row.status \in InProgress =>
                /\ Attempts(RequeuedRow(row)) = Attempts(row)
                /\ Attempts(RetriedRow(row)) = Attempts(row)
                /\ \A outcome : Attempts(FinishedRow(row, outcome)) = Attempts(row)
<1>1. row.retry_count \in Nat /\ row.dispatched \in BOOLEAN
  BY DEF Task
<1>2. row.status = "queued" => ~row.dispatched
  BY DEF RowConsistent, QueuedColumns
<1>3. row.status \in InProgress => row.dispatched
  BY DEF RowConsistent, InProgressColumns
<1>5. /\ ClaimedRow(row).retry_count = row.retry_count /\ ClaimedRow(row).dispatched
      /\ AckedRow(row).retry_count = row.retry_count
      /\ AckedRow(row).dispatched = row.dispatched
      /\ CanceledRow(row).retry_count = row.retry_count
      /\ CanceledRow(row).dispatched = row.dispatched
  BY DEF Task, ClaimedRow, AckedRow, CanceledRow
<1>6. /\ RequeuedRow(row).retry_count = row.retry_count + 1 /\ ~RequeuedRow(row).dispatched
      /\ RetriedRow(row).retry_count = row.retry_count + 1 /\ ~RetriedRow(row).dispatched
  BY DEF Task, RequeuedRow, RetriedRow
<1>7. \A outcome : /\ FinishedRow(row, outcome).retry_count = row.retry_count
                   /\ FinishedRow(row, outcome).dispatched = row.dispatched
  BY DEF Task, FinishedRow
<1> QED BY <1>1, <1>2, <1>3, <1>5, <1>6, <1>7 DEF Attempts

\* The columns of a row that each statement leaves alone, or sets.
LEMMA NodeOfRow ==
    ASSUME NEW row \in Task
    PROVE  /\ ClaimedRow(row).node = row.node
           /\ AckedRow(row).node = row.node
           /\ RequeuedRow(row).node = row.node
           /\ RetriedRow(row).node = row.node
           /\ CanceledRow(row).node = row.node
           /\ \A outcome : FinishedRow(row, outcome).node = row.node
BY DEF Task, ClaimedRow, AckedRow, RequeuedRow, RetriedRow, CanceledRow, FinishedRow

\* The status that each statement leaves a row in.
LEMMA StatusOfRow ==
    ASSUME NEW row \in Task
    PROVE  /\ ClaimedRow(row).status = "dispatched"
           /\ AckedRow(row).status = "running"
           /\ RequeuedRow(row).status = "queued"
           /\ RetriedRow(row).status = "queued"
           /\ CanceledRow(row).status = "canceled"
           /\ FinishedRow(row, "success").status = "succeeded"
           /\ FinishedRow(row, "failure").status = "failed"
BY DEF Task, ClaimedRow, AckedRow, RequeuedRow, RetriedRow, CanceledRow, FinishedRow

-----------------------------------------------------------------------------
(* Statements. *)

\* ORDER BY task_id LIMIT 1 finds the least queued task when there is one.
LEMMA NextTaskIsOldest ==
    ASSUME NEW t \in Table, NEW n, QueuedFor(t, n) # {}
    PROVE  /\ NextTask(t, n) \in QueuedFor(t, n)
           /\ \A other \in QueuedFor(t, n) : NextTask(t, n) <= other
<1>1. QueuedFor(t, n) \subseteq Nat
  BY RowOfTable DEF QueuedFor
<1>2. PICK least \in QueuedFor(t, n) :
        \A other \in QueuedFor(t, n) : <<other, least>> \notin OpToRel(<, Nat)
  BY <1>1, WFMin, NatLessThanWellFounded, Zenon
<1>3. \A other \in QueuedFor(t, n) : ~ (other < least)
  BY <1>1, <1>2, Zenon DEF OpToRel
<1>4. \A other \in QueuedFor(t, n) : least <= other
  BY <1>1, <1>3
<1> QED BY <1>4 DEF NextTask, Oldest

\* Writing one row of a table leaves a table of the same length.
LEMMA OneRow ==
    ASSUME NEW t \in Table, NEW id \in DOMAIN t, NEW row \in Task
    PROVE  /\ [t EXCEPT ![id] = row] \in Table
           /\ DOMAIN [t EXCEPT ![id] = row] = DOMAIN t
           /\ [t EXCEPT ![id] = row][id] = row
           /\ \A j \in DOMAIN t \ {id} : [t EXCEPT ![id] = row][j] = t[j]
<1> DEFINE u == [t EXCEPT ![id] = row]
<1>1. u = [j \in DOMAIN t |-> u[j]]
  OBVIOUS
<1>2. \A j \in DOMAIN t : u[j] \in Task
  BY RowOfTable
<1>3. u \in Table /\ DOMAIN u = DOMAIN t
  <2> HIDE DEF u
  <2> QED BY <1>1, <1>2, TableOfRows
<1> QED BY <1>3

\* What appending one row does to a table.
LEMMA OneMore ==
    ASSUME NEW t \in Table, NEW row \in Task
    PROVE  /\ Append(t, row) \in Table
           /\ DOMAIN Append(t, row) = DOMAIN t \cup {Len(t) + 1}
           /\ Len(t) + 1 \notin DOMAIN t
           /\ Append(t, row)[Len(t) + 1] = row
           /\ \A j \in DOMAIN t : Append(t, row)[j] = t[j]
BY DEF Table

\* What requeue_incomplete_tasks does to a table.
LEMMA RequeueRows ==
    ASSUME NEW t \in Table, NEW n \in Node
    PROVE  LET u == RequeueIncomplete(t, n) IN
           /\ u \in Table /\ DOMAIN u = DOMAIN t
           /\ \A id \in DOMAIN t :
                 u[id] = IF IsIncomplete(t[id], n) THEN RequeuedRow(t[id]) ELSE t[id]
<1> DEFINE u == RequeueIncomplete(t, n)
<1>1. /\ u = [id \in DOMAIN t |-> u[id]]
      /\ \A id \in DOMAIN t :
            u[id] = IF IsIncomplete(t[id], n) THEN RequeuedRow(t[id]) ELSE t[id]
  BY DEF RequeueIncomplete
<1>2. \A id \in DOMAIN t : u[id] \in Task
  BY <1>1, RowOfTable, RowTypes
<1> HIDE DEF u
<1>3. u \in Table /\ DOMAIN u = DOMAIN t
  BY <1>1, <1>2, TableOfRows
<1> QED BY <1>1, <1>3 DEF u

-----------------------------------------------------------------------------
(* What TaskLifecycle sees. *)

Phase == {"pending", "active", "succeeded", "failed", "canceled"}

\* The two sequences that TaskLifecycle sees, row by row.
LEMMA BarTypes ==
    ASSUME NEW t \in Table
    PROVE  /\ OwnersOf(t) \in Seq(Node) /\ DOMAIN OwnersOf(t) = DOMAIN t
           /\ PhasesOf(t) \in Seq(Phase) /\ DOMAIN PhasesOf(t) = DOMAIN t
           /\ Len(OwnersOf(t)) = Len(t) /\ Len(PhasesOf(t)) = Len(t)
           /\ \A id \in DOMAIN t : /\ OwnersOf(t)[id] = t[id].node
                                  /\ PhasesOf(t)[id] = PhaseOf(t[id].status)
<1>1. PICK k \in Nat : t \in [1..k -> Task]
  BY DEF Table
<1>2. DOMAIN t = 1..k
  BY <1>1
<1>3. \A id \in 1..k : /\ t[id].node \in Node
                       /\ PhaseOf(t[id].status) \in Phase
  BY <1>1 DEF Task, Status, PhaseOf, InProgress, Phase
<1>4. OwnersOf(t) \in [1..k -> Node] /\ PhasesOf(t) \in [1..k -> Phase]
  BY <1>2, <1>3 DEF OwnersOf, PhasesOf
<1> QED BY <1>1, <1>2, <1>4 DEF OwnersOf, PhasesOf

\* Two sequences of equal length and equal elements are equal.
LEMMA SeqEqual ==
    ASSUME NEW S, NEW s \in Seq(S), NEW t \in Seq(S), DOMAIN s = DOMAIN t,
           \A i \in DOMAIN s : s[i] = t[i]
    PROVE  s = t
OBVIOUS

\* The phases that the statuses of a row stand for.
LEMMA PhaseValues ==
    /\ PhaseOf("queued") = "pending"
    /\ \A status \in InProgress : PhaseOf(status) = "active"
    /\ \A status \in Terminal : PhaseOf(status) = status
    /\ \A status \in Status : PhaseOf(status) = "pending" <=> status = "queued"
BY DEF PhaseOf, InProgress, Terminal, Status

\* The new row is the new pending task.
LEMMA BarInsert ==
    ASSUME NEW t \in Table, NEW n \in Node
    PROVE  /\ OwnersOf(Insert(t, n)) = Append(OwnersOf(t), n)
           /\ PhasesOf(Insert(t, n)) = Append(PhasesOf(t), "pending")
<1> DEFINE u == Insert(t, n)
           new == Len(t) + 1
<1>1. /\ u \in Table
      /\ DOMAIN u = DOMAIN t \cup {new}
      /\ new \notin DOMAIN t
      /\ u[new].node = n /\ u[new].status = "queued"
      /\ \A j \in DOMAIN t : u[j] = t[j]
  BY OneMore, NewRowFacts DEF Insert
<1>2. "pending" \in Phase
  BY DEF Phase
<1>3. /\ Append(OwnersOf(t), n) \in Seq(Node)
      /\ DOMAIN Append(OwnersOf(t), n) = DOMAIN t \cup {new}
      /\ Append(OwnersOf(t), n)[new] = n
      /\ \A j \in DOMAIN t : Append(OwnersOf(t), n)[j] = t[j].node
  <2>1. OwnersOf(t) \in Seq(Node) /\ Len(OwnersOf(t)) = Len(t) /\ DOMAIN OwnersOf(t) = DOMAIN t
        /\ \A j \in DOMAIN t : OwnersOf(t)[j] = t[j].node
    BY BarTypes
  <2> QED BY <2>1
<1>4. /\ Append(PhasesOf(t), "pending") \in Seq(Phase)
      /\ DOMAIN Append(PhasesOf(t), "pending") = DOMAIN t \cup {new}
      /\ Append(PhasesOf(t), "pending")[new] = "pending"
      /\ \A j \in DOMAIN t : Append(PhasesOf(t), "pending")[j] = PhaseOf(t[j].status)
  <2>1. /\ PhasesOf(t) \in Seq(Phase) /\ Len(PhasesOf(t)) = Len(t)
        /\ DOMAIN PhasesOf(t) = DOMAIN t
        /\ \A j \in DOMAIN t : PhasesOf(t)[j] = PhaseOf(t[j].status)
    BY BarTypes
  <2> QED BY <1>2, <2>1
<1> HIDE DEF u, new
<1>5. /\ OwnersOf(u) \in Seq(Node) /\ DOMAIN OwnersOf(u) = DOMAIN t \cup {new}
      /\ PhasesOf(u) \in Seq(Phase) /\ DOMAIN PhasesOf(u) = DOMAIN t \cup {new}
      /\ \A id \in DOMAIN u : /\ OwnersOf(u)[id] = u[id].node
                             /\ PhasesOf(u)[id] = PhaseOf(u[id].status)
  BY <1>1, BarTypes
<1>6. ASSUME NEW id \in DOMAIN t \cup {new}
      PROVE  /\ OwnersOf(u)[id] = Append(OwnersOf(t), n)[id]
             /\ PhasesOf(u)[id] = Append(PhasesOf(t), "pending")[id]
  <2>1. CASE id = new
    BY <1>1, <1>3, <1>4, <1>5, <2>1, PhaseValues
  <2>2. CASE id \in DOMAIN t
    BY <1>1, <1>3, <1>4, <1>5, <2>2
  <2> QED BY <2>1, <2>2
<1>7. OwnersOf(u) = Append(OwnersOf(t), n)
  BY <1>3, <1>5, <1>6, SeqEqual
<1>8. PhasesOf(u) = Append(PhasesOf(t), "pending")
  BY <1>4, <1>5, <1>6, SeqEqual
<1> QED BY <1>7, <1>8 DEF u

\* A statement that rewrites one row and keeps its node changes no owner.
LEMMA BarOwner ==
    ASSUME NEW t \in Table, NEW id \in DOMAIN t, NEW row \in Task, row.node = t[id].node,
           NEW u, u = [t EXCEPT ![id] = row]
    PROVE  OwnersOf(u) = OwnersOf(t)
<1>1. /\ DOMAIN u = DOMAIN t
      /\ u[id] = row
      /\ \A j \in DOMAIN t \ {id} : u[j] = t[j]
  BY OneRow
<1> QED BY <1>1 DEF OwnersOf

\* It moves the phase of that task only.
LEMMA BarPhase ==
    ASSUME NEW t \in Table, NEW id \in DOMAIN t, NEW row \in Task,
           NEW u, u = [t EXCEPT ![id] = row]
    PROVE  PhasesOf(u) = [PhasesOf(t) EXCEPT ![id] = PhaseOf(row.status)]
<1>1. /\ DOMAIN u = DOMAIN t
      /\ u[id] = row
      /\ \A j \in DOMAIN t \ {id} : u[j] = t[j]
  BY OneRow
<1> QED BY <1>1 DEF PhasesOf

\* requeue_incomplete_tasks takes back the tasks of the rows it selects.
LEMMA BarRequeue ==
    ASSUME NEW t \in Table, NEW n \in Node
    PROVE  LET u   == RequeueIncomplete(t, n)
               ids == {id \in DOMAIN t : IsIncomplete(t[id], n)}
           IN  /\ OwnersOf(u) = OwnersOf(t)
               /\ PhasesOf(u) = [id \in DOMAIN PhasesOf(t) |->
                                    IF id \in ids THEN "pending" ELSE PhasesOf(t)[id]]
<1> DEFINE u   == RequeueIncomplete(t, n)
           ids == {id \in DOMAIN t : IsIncomplete(t[id], n)}
<1>1. /\ DOMAIN u = DOMAIN t
      /\ \A id \in DOMAIN t : u[id] = IF id \in ids THEN RequeuedRow(t[id]) ELSE t[id]
  BY RequeueRows
<1>2. \A id \in DOMAIN t : /\ RequeuedRow(t[id]).node = t[id].node
                          /\ RequeuedRow(t[id]).status = "queued"
  BY RowOfTable, NodeOfRow, StatusOfRow
<1> HIDE DEF u, ids
<1>3. OwnersOf(u) = OwnersOf(t)
  <2>1. \A id \in DOMAIN t : u[id].node = t[id].node
    BY <1>1, <1>2
  <2> QED BY <1>1, <2>1 DEF OwnersOf
<1>4. PhasesOf(u) = [id \in DOMAIN PhasesOf(t) |->
                        IF id \in ids THEN "pending" ELSE PhasesOf(t)[id]]
  <2>1. \A id \in DOMAIN t :
            PhaseOf(u[id].status) = IF id \in ids THEN "pending" ELSE PhaseOf(t[id].status)
    BY <1>1, <1>2, PhaseValues
  <2> QED BY <1>1, <2>1 DEF PhasesOf
<1> QED BY <1>3, <1>4 DEF u, ids

-----------------------------------------------------------------------------
(* One statement as a relation between the table before and after it. *)

\* The statements that name the task they write.
NamedStep(t, u) ==
    \E id \in DOMAIN t, n \in Node :
        \/ u = Acknowledge(t, id, n)
        \/ u = Retry(t, id, n)
        \/ u = Cancel(t, id)
        \/ \E outcome \in {"success", "failure"} : u = SubmitResult(t, id, n, outcome)

\* The statements that write rows which the table has already.
RowStep(t, u) ==
    \/ \E n \in Node : \/ QueuedFor(t, n) # {} /\ u = Claim(t, n)
                       \/ u = RequeueIncomplete(t, n)
    \/ NamedStep(t, u)

TableStep(t, u) == RowStep(t, u) \/ \E n \in Node : u = Insert(t, n)

\* The steps of TaskLifecycle, from owners o and phases p to q and r.
PhaseStep(o, p, q, r) ==
    \/ \E n \in Node : q = Append(o, n) /\ r = Append(p, "pending")
    \/ /\ q = o
       /\ \E i \in DOMAIN p :
            \/ /\ p[i] = "pending"
               /\ \A j \in DOMAIN p : o[j] = o[i] /\ p[j] = "pending" => i <= j
               /\ r = [p EXCEPT ![i] = "active"]
            \/ p[i] \in {"pending", "active"} /\ r = [p EXCEPT ![i] = "canceled"]
            \/ /\ p[i] = "active"
               /\ \E outcome \in {"succeeded", "failed"} : r = [p EXCEPT ![i] = outcome]
    \/ /\ q = o
       /\ \E ids \in SUBSET DOMAIN p :
            /\ \A i \in ids : p[i] = "active"
            /\ r = [i \in DOMAIN p |-> IF i \in ids THEN "pending" ELSE p[i]]

\* What a statement that names a task does to the table: nothing, or one row
\* moves as the life cycle allows and keeps its node and its attempts.
LEMMA NamedRow ==
    ASSUME NEW t \in Table, NEW u, NamedStep(t, u), u # t
    PROVE  \E id \in DOMAIN t, row \in Task :
              /\ u = [t EXCEPT ![id] = row]
              /\ row.node = t[id].node
              /\ RowConsistent(t[id]) => RowConsistent(row) /\ Attempts(row) = Attempts(t[id])
              /\ \/ t[id].status \in InProgress /\ row.status # "dispatched"
                 \/ t[id].status \in Cancelable /\ row.status = "canceled"
<1>1. PICK id \in DOMAIN t, n \in Node :
        \/ u = Acknowledge(t, id, n)
        \/ u = Retry(t, id, n)
        \/ u = Cancel(t, id)
        \/ \E outcome \in {"success", "failure"} : u = SubmitResult(t, id, n, outcome)
  BY DEF NamedStep
<1>2. t[id] \in Task
  BY RowOfTable
<1>3. CASE u = Acknowledge(t, id, n)
  <2>1. u = [t EXCEPT ![id] = AckedRow(t[id])] /\ t[id].status = "dispatched"
    BY <1>3 DEF Acknowledge
  <2> QED BY <1>2, <2>1, RowTypes, RowsStayConsistent, NodeOfRow, StatusOfRow, AttemptsOfRow
             DEF InProgress
<1>4. CASE u = Retry(t, id, n)
  <2>1. u = [t EXCEPT ![id] = RetriedRow(t[id])] /\ t[id].status \in InProgress
    BY <1>4 DEF Retry, InProgressOf
  <2> QED BY <1>2, <2>1, RowTypes, RowsStayConsistent, NodeOfRow, StatusOfRow, AttemptsOfRow
<1>5. CASE u = Cancel(t, id)
  <2>1. u = [t EXCEPT ![id] = CanceledRow(t[id])] /\ t[id].status \in Cancelable
    BY <1>5 DEF Cancel
  <2> QED BY <1>2, <2>1, RowTypes, RowsStayConsistent, NodeOfRow, StatusOfRow, AttemptsOfRow
<1>6. ASSUME NEW outcome \in {"success", "failure"}, u = SubmitResult(t, id, n, outcome)
      PROVE  \E row \in Task :
                /\ u = [t EXCEPT ![id] = row]
                /\ row.node = t[id].node
                /\ RowConsistent(t[id]) => RowConsistent(row) /\ Attempts(row) = Attempts(t[id])
                /\ t[id].status \in InProgress /\ row.status # "dispatched"
  <2> DEFINE row == FinishedRow(t[id], outcome)
  <2>1. u = [t EXCEPT ![id] = row] /\ t[id].status \in InProgress
    BY <1>6 DEF SubmitResult, InProgressOf
  <2>2. row \in Task /\ row.node = t[id].node
    BY <1>2, RowTypes, NodeOfRow
  <2>4. row.status # "dispatched"
    BY <1>2, StatusOfRow
  <2>3. RowConsistent(t[id]) => RowConsistent(row) /\ Attempts(row) = Attempts(t[id])
    BY <1>2, <2>1, RowsStayConsistent, AttemptsOfRow
  <2> HIDE DEF row
  <2> QED BY <2>1, <2>2, <2>3, <2>4
<1> QED BY <1>1, <1>3, <1>4, <1>5, <1>6

\* A statement leaves a table, keeps every row's node and removes no row.
LEMMA StepTable ==
    ASSUME NEW t \in Table, NEW u, TableStep(t, u)
    PROVE  /\ u \in Table
           /\ DOMAIN t \subseteq DOMAIN u
           /\ RowStep(t, u) => DOMAIN u = DOMAIN t
           /\ \A id \in DOMAIN t : u[id].node = t[id].node
<1>1. ASSUME NEW n \in Node, u = Insert(t, n)
      PROVE  /\ u \in Table /\ DOMAIN t \subseteq DOMAIN u
             /\ \A id \in DOMAIN t : u[id].node = t[id].node
  BY <1>1, OneMore, NewRowFacts DEF Insert
<1>2. ASSUME NEW n \in Node, QueuedFor(t, n) # {}, u = Claim(t, n)
      PROVE  /\ u \in Table /\ DOMAIN u = DOMAIN t
             /\ \A id \in DOMAIN t : u[id].node = t[id].node
  <2> DEFINE new == NextTask(t, n)
             row == ClaimedRow(t[new])
  <2>1. new \in DOMAIN t
    BY <1>2, NextTaskIsOldest DEF QueuedFor
  <2>2. row \in Task /\ row.node = t[new].node
    BY <2>1, RowOfTable, RowTypes, NodeOfRow
  <2>3. u = [t EXCEPT ![new] = row]
    BY <1>2 DEF Claim
  <2> HIDE DEF new, row
  <2> QED BY <2>1, <2>2, <2>3, OneRow
<1>3. ASSUME NEW n \in Node, u = RequeueIncomplete(t, n)
      PROVE  /\ u \in Table /\ DOMAIN u = DOMAIN t
             /\ \A id \in DOMAIN t : u[id].node = t[id].node
  <2>1. \A id \in DOMAIN t : RequeuedRow(t[id]).node = t[id].node
    BY RowOfTable, NodeOfRow
  <2> QED BY <1>3, <2>1, RequeueRows
<1>4. ASSUME NamedStep(t, u), u # t
      PROVE  /\ u \in Table /\ DOMAIN u = DOMAIN t
             /\ \A id \in DOMAIN t : u[id].node = t[id].node
  <2>1. PICK id \in DOMAIN t, row \in Task :
           u = [t EXCEPT ![id] = row] /\ row.node = t[id].node
    BY <1>4, NamedRow
  <2> QED BY <2>1, OneRow
<1> QED BY <1>1, <1>2, <1>3, <1>4 DEF TableStep, RowStep

Consistent(t) == \A id \in DOMAIN t : RowConsistent(t[id])

\* A statement leaves the columns of every row consistent.
LEMMA StepConsistent ==
    ASSUME NEW t \in Table, NEW u, TableStep(t, u), Consistent(t)
    PROVE  Consistent(u)
<1>0. \A id \in DOMAIN t : t[id] \in Task /\ RowConsistent(t[id])
  BY RowOfTable DEF Consistent
<1>1. ASSUME NEW n \in Node, u = Insert(t, n)
      PROVE  Consistent(u)
  BY <1>0, <1>1, OneMore, NewRowFacts DEF Insert, Consistent
<1>2. ASSUME NEW n \in Node, QueuedFor(t, n) # {}, u = Claim(t, n)
      PROVE  Consistent(u)
  <2> DEFINE new == NextTask(t, n)
             row == ClaimedRow(t[new])
  <2>1. new \in DOMAIN t /\ t[new].status = "queued"
    BY <1>2, NextTaskIsOldest DEF QueuedFor
  <2>2. row \in Task /\ RowConsistent(row)
    BY <1>0, <2>1, RowTypes, RowsStayConsistent
  <2>3. u = [t EXCEPT ![new] = row]
    BY <1>2 DEF Claim
  <2> HIDE DEF new, row
  <2> QED BY <1>0, <2>1, <2>2, <2>3, OneRow DEF Consistent
<1>3. ASSUME NEW n \in Node, u = RequeueIncomplete(t, n)
      PROVE  Consistent(u)
  <2>1. \A id \in DOMAIN t : IsIncomplete(t[id], n) => RowConsistent(RequeuedRow(t[id]))
    BY <1>0, RowsStayConsistent DEF IsIncomplete
  <2> QED BY <1>0, <1>3, <2>1, RequeueRows DEF Consistent
<1>4. ASSUME NamedStep(t, u), u # t
      PROVE  Consistent(u)
  <2>1. PICK id \in DOMAIN t, row \in Task :
           u = [t EXCEPT ![id] = row] /\ (RowConsistent(t[id]) => RowConsistent(row))
    BY <1>4, NamedRow
  <2> QED BY <1>0, <2>1, OneRow DEF Consistent
<1> QED BY <1>1, <1>2, <1>3, <1>4 DEF TableStep, RowStep

\* A row whose task has ended is never written again.
LEMMA StepKeepsEnded ==
    ASSUME NEW t \in Table, NEW u, TableStep(t, u), NEW id \in DOMAIN t,
           t[id].status \in Terminal
    PROVE  u[id] = t[id]
<1>0. t[id].status # "queued" /\ t[id].status \notin InProgress
      /\ (t[id].status \in Cancelable => FALSE)
  BY DEF Terminal, InProgress, Cancelable
<1>1. ASSUME NEW n \in Node, u = Insert(t, n)
      PROVE  u[id] = t[id]
  BY <1>1, OneMore, NewRowFacts DEF Insert
<1>2. ASSUME NEW n \in Node, QueuedFor(t, n) # {}, u = Claim(t, n)
      PROVE  u[id] = t[id]
  <2>1. NextTask(t, n) # id
    BY <1>0, <1>2, NextTaskIsOldest DEF QueuedFor
  <2> QED BY <1>2, <2>1 DEF Claim
<1>3. ASSUME NEW n \in Node, u = RequeueIncomplete(t, n)
      PROVE  u[id] = t[id]
  BY <1>0, <1>3, RequeueRows DEF IsIncomplete
<1>4. ASSUME NamedStep(t, u), u # t
      PROVE  u[id] = t[id]
  <2>1. PICK named \in DOMAIN t, row \in Task :
          /\ u = [t EXCEPT ![named] = row]
          /\ t[named].status \in InProgress \/ t[named].status \in Cancelable
    BY <1>4, NamedRow
  <2>2. named # id
    BY <1>0, <2>1
  <2> QED BY <2>1, <2>2
<1> QED BY <1>1, <1>2, <1>3, <1>4 DEF TableStep, RowStep

\* No statement takes an attempt of a row back.
LEMMA StepAttempts ==
    ASSUME NEW t \in Table, NEW u, TableStep(t, u), Consistent(t), NEW id \in DOMAIN t
    PROVE  Attempts(t[id]) \in Nat /\ Attempts(u[id]) \in Nat /\ Attempts(t[id]) <= Attempts(u[id])
<1>0. t[id] \in Task /\ RowConsistent(t[id]) /\ Attempts(t[id]) \in Nat
  BY RowOfTable, AttemptsOfRow DEF Consistent
<1>1. ASSUME NEW n \in Node, u = Insert(t, n)
      PROVE  u[id] = t[id]
  BY <1>1, OneMore, NewRowFacts DEF Insert
<1>2. ASSUME NEW n \in Node, QueuedFor(t, n) # {}, u = Claim(t, n)
      PROVE  u[id] = t[id] \/ Attempts(u[id]) = Attempts(t[id]) + 1
  <2>1. CASE NextTask(t, n) = id
    <3>1. u[id] = ClaimedRow(t[id]) /\ t[id].status = "queued"
      BY <1>2, <2>1, NextTaskIsOldest DEF Claim, QueuedFor
    <3> QED BY <1>0, <3>1, AttemptsOfRow
  <2>2. CASE NextTask(t, n) # id
    BY <1>2, <2>2 DEF Claim
  <2> QED BY <2>1, <2>2
<1>3. ASSUME NEW n \in Node, u = RequeueIncomplete(t, n)
      PROVE  Attempts(u[id]) = Attempts(t[id])
  BY <1>0, <1>3, RequeueRows, AttemptsOfRow DEF IsIncomplete
<1>4. ASSUME NamedStep(t, u), u # t
      PROVE  Attempts(u[id]) = Attempts(t[id])
  <2>1. PICK named \in DOMAIN t, row \in Task :
          /\ u = [t EXCEPT ![named] = row]
          /\ RowConsistent(t[named]) => Attempts(row) = Attempts(t[named])
    BY <1>4, NamedRow
  <2> QED BY <1>0, <2>1
<1> QED BY <1>0, <1>1, <1>2, <1>3, <1>4 DEF TableStep, RowStep

\* Every statement is a step of the life cycle of tasks, or invisible to it.
LEMMA StepPhases ==
    ASSUME NEW t \in Table, NEW u, TableStep(t, u)
    PROVE  \/ OwnersOf(u) = OwnersOf(t) /\ PhasesOf(u) = PhasesOf(t)
           \/ PhaseStep(OwnersOf(t), PhasesOf(t), OwnersOf(u), PhasesOf(u))
<1> DEFINE Moves == PhaseStep(OwnersOf(t), PhasesOf(t), OwnersOf(u), PhasesOf(u))
<1>0. /\ DOMAIN PhasesOf(t) = DOMAIN t
      /\ \A id \in DOMAIN t : /\ t[id] \in Task
                              /\ OwnersOf(t)[id] = t[id].node
                              /\ PhasesOf(t)[id] = PhaseOf(t[id].status)
  BY BarTypes, RowOfTable
<1>1. ASSUME NEW n \in Node, u = Insert(t, n)
      PROVE  Moves
  BY <1>1, BarInsert DEF PhaseStep
<1>2. ASSUME NEW n \in Node, QueuedFor(t, n) # {}, u = Claim(t, n)
      PROVE  Moves
  <2> DEFINE new == NextTask(t, n)
             row == ClaimedRow(t[new])
  <2>1. /\ new \in DOMAIN t /\ t[new].status = "queued" /\ t[new].node = n
        /\ \A other \in QueuedFor(t, n) : new <= other
    BY <1>2, NextTaskIsOldest DEF QueuedFor
  <2>2. row \in Task /\ row.node = t[new].node /\ PhaseOf(row.status) = "active"
    BY <1>0, <2>1, RowTypes, NodeOfRow, StatusOfRow, PhaseValues DEF InProgress
  <2>3. u = [t EXCEPT ![new] = row]
    BY <1>2 DEF Claim
  <2>4. \A j \in DOMAIN t :
           OwnersOf(t)[j] = n /\ PhasesOf(t)[j] = "pending" => j \in QueuedFor(t, n)
    BY <1>0, PhaseValues DEF QueuedFor, Task
  <2> HIDE DEF new, row
  <2>5. /\ OwnersOf(u) = OwnersOf(t)
        /\ PhasesOf(u) = [PhasesOf(t) EXCEPT ![new] = PhaseOf(row.status)]
    <3>1. new \in DOMAIN t /\ row \in Task
      BY <2>1, <2>2
    <3>2. OwnersOf(u) = OwnersOf(t)
      BY <3>1, <2>2, <2>3, BarOwner
    <3>3. PhasesOf(u) = [PhasesOf(t) EXCEPT ![new] = PhaseOf(row.status)]
      BY ZenonT(60), <3>1, <2>3, BarPhase
    <3> QED BY <3>2, <3>3
  <2>6. PhasesOf(t)[new] = "pending" /\ OwnersOf(t)[new] = n
    BY <1>0, <2>1, PhaseValues
  <2> QED BY <1>0, <2>1, <2>2, <2>4, <2>5, <2>6 DEF PhaseStep
<1>3. ASSUME NEW n \in Node, u = RequeueIncomplete(t, n)
      PROVE  Moves
  <2> DEFINE ids == {id \in DOMAIN t : IsIncomplete(t[id], n)}
  <2>1. /\ OwnersOf(u) = OwnersOf(t)
        /\ PhasesOf(u) = [id \in DOMAIN PhasesOf(t) |->
                             IF id \in ids THEN "pending" ELSE PhasesOf(t)[id]]
    BY <1>3, BarRequeue
  <2>2. ids \in SUBSET DOMAIN PhasesOf(t)
    BY <1>0
  <2>3. \A id \in ids : PhasesOf(t)[id] = "active"
    BY <1>0, PhaseValues DEF IsIncomplete
  <2> HIDE DEF ids
  <2> QED BY <2>1, <2>2, <2>3 DEF PhaseStep
<1>4. ASSUME NamedStep(t, u), u # t
      PROVE  OwnersOf(u) = OwnersOf(t) /\ (PhasesOf(u) = PhasesOf(t) \/ Moves)
  <2>1. PICK id \in DOMAIN t, row \in Task :
          /\ u = [t EXCEPT ![id] = row] /\ row.node = t[id].node
          /\ \/ t[id].status \in InProgress /\ row.status # "dispatched"
             \/ t[id].status \in Cancelable /\ row.status = "canceled"
    BY <1>4, NamedRow
  <2>2. /\ OwnersOf(u) = OwnersOf(t)
        /\ PhasesOf(u) = [PhasesOf(t) EXCEPT ![id] = PhaseOf(row.status)]
        /\ PhasesOf(t)[id] = PhaseOf(t[id].status)
    <3>1. /\ OwnersOf(u) = OwnersOf(t)
          /\ PhasesOf(u) = [PhasesOf(t) EXCEPT ![id] = PhaseOf(row.status)]
      BY ZenonT(60), <2>1, BarOwner, BarPhase
    <3> QED BY <1>0, <3>1
  <2>3. CASE t[id].status \in Cancelable /\ row.status = "canceled"
    <3>1. PhasesOf(t)[id] \in {"pending", "active"} /\ PhaseOf(row.status) = "canceled"
      BY <2>2, <2>3, PhaseValues DEF Cancelable, InProgress, Terminal
    <3> QED BY <1>0, <2>2, <3>1 DEF PhaseStep
  <2>4. CASE t[id].status \in InProgress /\ row.status # "dispatched"
    <3>0. PhasesOf(t)[id] = "active"
      BY <2>2, <2>4, PhaseValues
    <3>1. CASE row.status = "running"
      <4>1. PhasesOf(u) = [PhasesOf(t) EXCEPT ![id] = PhasesOf(t)[id]]
        BY <2>2, <3>0, <3>1, PhaseValues DEF InProgress
      <4>2. PhasesOf(u) = PhasesOf(t)
        BY <4>1 DEF PhasesOf
      <4> QED BY <2>2, <4>2
    <3>2. CASE row.status = "queued"
      <4>1. PhasesOf(u) = [j \in DOMAIN PhasesOf(t) |->
                              IF j \in {id} THEN "pending" ELSE PhasesOf(t)[j]]
        BY <2>2, <3>2, PhaseValues DEF PhasesOf
      <4>2. {id} \in SUBSET DOMAIN PhasesOf(t) /\ \A i \in {id} : PhasesOf(t)[i] = "active"
        BY <1>0, <3>0
      <4> QED BY <2>2, <4>1, <4>2 DEF PhaseStep
    <3>3. CASE row.status = "canceled"
      BY <1>0, <2>2, <3>0, <3>3, PhaseValues DEF PhaseStep, Terminal
    <3>4. CASE row.status \in {"succeeded", "failed"}
      BY <1>0, <2>2, <3>0, <3>4, PhaseValues DEF PhaseStep, Terminal
    <3> QED BY <2>4, <3>1, <3>2, <3>3, <3>4 DEF Task, Status
  <2> QED BY <2>1, <2>2, <2>3, <2>4
<1> QED BY <1>1, <1>2, <1>3, <1>4 DEF TableStep, RowStep

-----------------------------------------------------------------------------
(* Lists. *)

\* A set of numbers that is not empty has a least one.
LEMMA Least ==
    ASSUME NEW ids \in SUBSET Nat, ids # {}
    PROVE  \E least \in ids : \A other \in ids : least <= other
<1>1. PICK least \in ids : \A other \in ids : <<other, least>> \notin OpToRel(<, Nat)
  BY WFMin, NatLessThanWellFounded, Zenon
<1>2. \A other \in ids : ~ (other < least)
  BY <1>1, Zenon DEF OpToRel
<1> QED
  BY <1>2

\* f joins the pieces up to each i.
Joins(f, n, pieces) == f = [i \in 0..n |-> IF i = 0 THEN <<>> ELSE f[i - 1] \o pieces[i]]

\* The recursion of Joined has a solution.
LEMMA JoinedFunction ==
    ASSUME NEW n \in Nat, NEW pieces
    PROVE  \E f : Joins(f, n, pieces) /\ Joined(n, pieces) = f[n]
<1> DEFINE Solved(m) == \E f : Joins(f, m, pieces)
           unsolved == {m \in Nat : ~Solved(m)}
<1>1. Solved(0)
  <2> DEFINE f == [i \in 0..0 |-> <<>>]
  <2>1. f = [i \in 0..0 |-> IF i = 0 THEN <<>> ELSE f[i - 1] \o pieces[i]]
    OBVIOUS
  <2> QED
    BY <2>1 DEF Joins
<1>2. ASSUME NEW m \in Nat, Solved(m) PROVE Solved(m + 1)
  <2>1. PICK f : Joins(f, m, pieces)
    BY <1>2
  <2> DEFINE g == [i \in 0..(m + 1) |-> IF i = m + 1 THEN f[m] \o pieces[m + 1] ELSE f[i]]
             body(h, i) == IF i = 0 THEN <<>> ELSE h[i - 1] \o pieces[i]
  <2>2. \A i \in 0..m : f[i] = body(f, i)
    BY <2>1 DEF Joins
  <2>3. ASSUME NEW i \in 0..(m + 1) PROVE g[i] = body(g, i)
    <3>1. CASE i = m + 1
      <4>1. i # 0 /\ i - 1 = m /\ m \in 0..(m + 1) /\ m # m + 1
        BY <3>1
      <4> QED
        BY <3>1, <4>1
    <3>2. CASE i \in 0..m
      <4>1. i # m + 1 /\ (i # 0 => i - 1 \in 0..m /\ i - 1 \in 0..(m + 1) /\ i - 1 # m + 1)
        BY <3>2
      <4>2. g[i] = f[i] /\ (i # 0 => g[i - 1] = f[i - 1])
        BY <4>1
      <4> HIDE DEF g
      <4> QED
        BY <2>2, <3>2, <4>2
    <3> QED
      BY <3>1, <3>2
  <2>4. g = [i \in 0..(m + 1) |-> body(g, i)]
    BY <2>3
  <2> QED
    BY <2>4 DEF Joins
<1>3. unsolved = {}
  <2> SUFFICES ASSUME unsolved # {} PROVE FALSE
    OBVIOUS
  <2>1. PICK least \in unsolved : \A other \in unsolved : least <= other
    BY Least
  <2>2. least # 0
    BY <1>1
  <2>3. least - 1 \in Nat /\ ~(least <= least - 1) /\ (least - 1) + 1 = least
    BY <2>1, <2>2
  <2>4. Solved(least - 1)
    BY <2>1, <2>3
  <2> QED
    BY <1>2, <2>1, <2>3, <2>4
<1>4. \E f : f = [i \in 0..n |-> IF i = 0 THEN <<>> ELSE f[i - 1] \o pieces[i]]
  BY <1>3 DEF Joins
<1> DEFINE upTo == CHOOSE f : f = [i \in 0..n |-> IF i = 0 THEN <<>> ELSE f[i - 1] \o pieces[i]]
<1>5. upTo = [i \in 0..n |-> IF i = 0 THEN <<>> ELSE upTo[i - 1] \o pieces[i]]
  BY <1>4, Zenon
<1>6. Joined(n, pieces) = upTo[n]
  BY DEF Joined
<1> QED
  BY <1>5, <1>6 DEF Joins

\* Each piece holds one element or none.
Pieces(n, pieces, S) == \A i \in 1..n : pieces[i] = <<>> \/ \E v \in S : pieces[i] = <<v>>

\* The elements of list are those of the first n pieces, in their order.
Assembled(list, n, pieces, S) ==
    /\ list \in Seq(S)
    /\ \E place \in [1..Len(list) -> 1..n] :
          /\ \A k \in 1..Len(list) : pieces[place[k]] = <<list[k]>>
          /\ \A j, k \in 1..Len(list) : j < k => place[j] < place[k]
          /\ \A i \in 1..n : pieces[i] # <<>> => \E k \in 1..Len(list) : place[k] = i

\* One piece more that holds nothing.
LEMMA EmptyPiece ==
    ASSUME NEW S, NEW m \in Nat, NEW pieces, NEW list, Assembled(list, m, pieces, S),
           pieces[m + 1] = <<>>
    PROVE  Assembled(list, m + 1, pieces, S)
<1>1. PICK place \in [1..Len(list) -> 1..m] :
          /\ \A k \in 1..Len(list) : pieces[place[k]] = <<list[k]>>
          /\ \A j, k \in 1..Len(list) : j < k => place[j] < place[k]
          /\ \A i \in 1..m : pieces[i] # <<>> => \E k \in 1..Len(list) : place[k] = i
  BY DEF Assembled
<1>2. \A i \in 1..(m + 1) : i \in 1..m \/ i = m + 1
  OBVIOUS
<1>3. place \in [1..Len(list) -> 1..(m + 1)]
  <2>1. \A i \in 1..m : i \in 1..(m + 1)
    OBVIOUS
  <2> QED
    BY <1>1, <2>1
<1> QED
  BY <1>1, <1>2, <1>3, ZenonT(60) DEF Assembled

\* One piece more that holds v.
LEMMA OnePiece ==
    ASSUME NEW S, NEW m \in Nat, NEW pieces, NEW list, Assembled(list, m, pieces, S),
           NEW v \in S, pieces[m + 1] = <<v>>
    PROVE  Assembled(Append(list, v), m + 1, pieces, S)
<1>0. list \in Seq(S) /\ Len(list) \in Nat
  BY DEF Assembled
<1>1. PICK place \in [1..Len(list) -> 1..m] :
          /\ \A k \in 1..Len(list) : pieces[place[k]] = <<list[k]>>
          /\ \A j, k \in 1..Len(list) : j < k => place[j] < place[k]
          /\ \A i \in 1..m : pieces[i] # <<>> => \E k \in 1..Len(list) : place[k] = i
  BY DEF Assembled
<1> DEFINE more == Append(list, v)
           n == Len(list)
           next == [k \in 1..(n + 1) |-> IF k = n + 1 THEN m + 1 ELSE place[k]]
<1>2. /\ more \in Seq(S) /\ Len(more) = n + 1 /\ more[n + 1] = v
      /\ \A k \in 1..n : more[k] = list[k]
  BY <1>0
<1>3. \A k \in 1..(n + 1) : (k \in 1..n /\ k # n + 1) \/ k = n + 1
  BY <1>0
<1>4. /\ next[n + 1] = m + 1
      /\ \A k \in 1..n : next[k] = place[k] /\ place[k] \in 1..m
  BY <1>0, <1>1
<1>5. \A i \in 1..m : i \in 1..(m + 1) /\ i < m + 1
  OBVIOUS
<1>6. next \in [1..(n + 1) -> 1..(m + 1)]
  BY <1>3, <1>4, <1>5
<1>a. n \in Nat /\ n + 1 \in 1..(n + 1) /\ m + 1 \in 1..(m + 1)
  BY <1>0
<1> HIDE DEF next, more, n
<1>7. \A k \in 1..(n + 1) : pieces[next[k]] = <<more[k]>>
  BY <1>1, <1>2, <1>3, <1>4, Zenon DEF n
<1>8. ASSUME NEW j \in 1..(n + 1), NEW k \in 1..(n + 1), j < k PROVE next[j] < next[k]
  <2>1. j \in 1..n
    BY <1>8, <1>a
  <2>2. CASE k = n + 1
    BY <1>4, <1>5, <2>1, <2>2
  <2>3. CASE k \in 1..n
    BY <1>1, <1>4, <1>8, <2>1, <2>3 DEF n
  <2> QED
    BY <1>3, <2>2, <2>3
<1>9. ASSUME NEW i \in 1..(m + 1), pieces[i] # <<>>
      PROVE  \E k \in 1..(n + 1) : next[k] = i
  <2>1. CASE i = m + 1
    BY <1>4, <1>a, <2>1
  <2>2. CASE i \in 1..m
    <3>1. PICK k \in 1..n : place[k] = i
      BY <1>1, <1>9, <2>2 DEF n
    <3>2. k \in 1..(n + 1)
      BY <1>a, <3>1
    <3> QED
      BY <1>4, <3>1, <3>2
  <2> QED
    BY <2>1, <2>2
<1>10. Len(more) = n + 1 /\ more \in Seq(S)
  BY <1>2
<1>11. Assembled(more, m + 1, pieces, S)
  <2>1. \A j, k \in 1..(n + 1) : j < k => next[j] < next[k]
    BY <1>8
  <2>2. next \in [1..Len(more) -> 1..(m + 1)]
    BY <1>6, <1>10
  <2>3. /\ \A k \in 1..Len(more) : pieces[next[k]] = <<more[k]>>
        /\ \A j, k \in 1..Len(more) : j < k => next[j] < next[k]
    BY <1>7, <2>1, <1>10
  <2>4. \A i \in 1..(m + 1) : pieces[i] # <<>> => \E k \in 1..Len(more) : next[k] = i
    BY <1>9, <1>10
  <2> QED
    BY <1>10, <2>2, <2>3, <2>4, Zenon DEF Assembled
<1> QED
  BY <1>11 DEF more

\* What Joined is, piece by piece.
LEMMA JoinedAssembled ==
    ASSUME NEW S, NEW n \in Nat, NEW pieces, Pieces(n, pieces, S)
    PROVE  Assembled(Joined(n, pieces), n, pieces, S)
<1>1. PICK f : Joins(f, n, pieces) /\ Joined(n, pieces) = f[n]
  BY JoinedFunction
<1> DEFINE bad == {m \in Nat : m <= n /\ ~Assembled(f[m], m, pieces, S)}
<1>2. \A i \in 0..n : f[i] = IF i = 0 THEN <<>> ELSE f[i - 1] \o pieces[i]
  BY <1>1 DEF Joins
<1>3. Assembled(f[0], 0, pieces, S)
  <2>1. f[0] = <<>>
    BY <1>2
  <2>2. Len(<<>>) = 0 /\ <<>> \in Seq(S) /\ 1..0 = {}
    OBVIOUS
  <2>3. <<>> \in [1..Len(<<>>) -> 1..0]
    BY <2>2
  <2> QED
    BY <2>1, <2>2, <2>3 DEF Assembled
<1>4. ASSUME NEW m \in Nat, m + 1 <= n, Assembled(f[m], m, pieces, S)
      PROVE  Assembled(f[m + 1], m + 1, pieces, S)
  <2>0. m + 1 \in 0..n /\ m + 1 # 0 /\ (m + 1) - 1 = m
    BY <1>4
  <2>1. f[m + 1] = f[m] \o pieces[m + 1]
    <3>1. f[m + 1] = f[(m + 1) - 1] \o pieces[m + 1]
      BY <1>2, <2>0
    <3> QED
      BY <2>0, <3>1
  <2>2. m + 1 \in 1..n /\ f[m] \in Seq(S)
    BY <1>4 DEF Assembled
  <2>3. CASE pieces[m + 1] = <<>>
    <3>1. f[m + 1] = f[m]
      BY <2>1, <2>2, <2>3
    <3> QED
      BY <1>4, <2>3, <3>1, EmptyPiece
  <2>4. CASE \E v \in S : pieces[m + 1] = <<v>>
    <3>1. PICK v \in S : pieces[m + 1] = <<v>>
      BY <2>4
    <3>2. f[m + 1] = Append(f[m], v)
      BY <2>1, <2>2, <3>1
    <3> QED
      BY <1>4, <3>1, <3>2, OnePiece
  <2> QED
    BY <2>2, <2>3, <2>4 DEF Pieces
<1>5. bad = {}
  <2> SUFFICES ASSUME bad # {} PROVE FALSE
    OBVIOUS
  <2>1. PICK least \in bad : \A other \in bad : least <= other
    BY Least
  <2>2. least # 0
    BY <1>3
  <2>a. least \in Nat /\ least <= n
    BY <2>1
  <2>3. least - 1 \in Nat /\ ~(least <= least - 1) /\ (least - 1) + 1 = least /\ least - 1 <= n
    BY <2>a, <2>2
  <2>4. Assembled(f[least - 1], least - 1, pieces, S)
    BY <2>1, <2>3
  <2> QED
    BY <1>4, <2>1, <2>3, <2>4
<1> QED
  BY <1>1, <1>5

\* The lesser and the greater of two numbers.
LEMMA MinMax ==
    ASSUME NEW a \in Int, NEW b \in Int
    PROVE  /\ Min({a, b}) = IF a <= b THEN a ELSE b
           /\ Max({a, b}) = IF a <= b THEN b ELSE a
<1> DEFINE least == IF a <= b THEN a ELSE b
           greatest == IF a <= b THEN b ELSE a
<1>1. /\ least \in {a, b} /\ \A y \in {a, b} : least <= y
      /\ \A x \in {a, b} : (\A y \in {a, b} : x <= y) => x = least
  OBVIOUS
<1>2. /\ greatest \in {a, b} /\ \A y \in {a, b} : greatest >= y
      /\ \A x \in {a, b} : (\A y \in {a, b} : x >= y) => x = greatest
  OBVIOUS
<1> HIDE DEF least, greatest
<1>3. Min({a, b}) = least
  BY <1>1 DEF Min
<1>4. Max({a, b}) = greatest
  BY <1>2 DEF Max
<1> QED
  BY <1>3, <1>4 DEF least, greatest

\* A cut of a list.
LEMMA CutOfList ==
    ASSUME NEW S, NEW list \in Seq(S), NEW a \in Nat \ {0}, NEW b \in Nat,
           a <= b + 1, b <= Len(list)
    PROVE  /\ SubSeq(list, a, b) \in Seq(S) /\ Len(SubSeq(list, a, b)) = b - a + 1
           /\ \A i \in 1..(b - a + 1) : SubSeq(list, a, b)[i] = list[i + a - 1]
<1>1. SubSeq(list, a, b) = [i \in 1..(1 + b - a) |-> list[i + a - 1]]
  OBVIOUS
<1>2. \A i \in 1..(1 + b - a) : i + a - 1 \in 1..Len(list)
  OBVIOUS
<1>3. 1 + b - a \in Nat /\ 1 + b - a = b - a + 1
  OBVIOUS
<1>4. \A i \in 1..(1 + b - a) : list[i + a - 1] \in S
  BY <1>2
<1>5. SubSeq(list, a, b) \in [1..(1 + b - a) -> S]
  BY <1>1, <1>4
<1>6. SubSeq(list, a, b) \in Seq(S) /\ Len(SubSeq(list, a, b)) = 1 + b - a
  <2>1. \A k \in Nat : \A f \in [1..k -> S] : f \in Seq(S) /\ Len(f) = k
    OBVIOUS
  <2> QED
    BY <1>3, <1>5, <2>1
<1>7. \A i \in 1..(1 + b - a) : SubSeq(list, a, b)[i] = list[i + a - 1]
  BY <1>1
<1> QED
  BY <1>3, <1>6, <1>7

\* LIMIT n, take(n), slice(0, n).
LEMMA FirstOfList ==
    ASSUME NEW S, NEW list \in Seq(S), NEW n \in Nat
    PROVE  /\ FirstOf(list, n) \in Seq(S)
           /\ Len(FirstOf(list, n)) = IF n <= Len(list) THEN n ELSE Len(list)
           /\ \A i \in 1..Len(FirstOf(list, n)) : FirstOf(list, n)[i] = list[i]
<1> DEFINE m == IF n <= Len(list) THEN n ELSE Len(list)
<1>1. m \in Nat /\ m <= Len(list)
  OBVIOUS
<1>2. FirstOf(list, n) = SubSeq(list, 1, m)
  BY MinMax DEF FirstOf
<1> HIDE DEF m
<1>3. /\ SubSeq(list, 1, m) \in Seq(S) /\ Len(SubSeq(list, 1, m)) = m - 1 + 1
      /\ \A i \in 1..(m - 1 + 1) : SubSeq(list, 1, m)[i] = list[i + 1 - 1]
  BY <1>1, CutOfList
<1>4. \A i \in 1..m : i + 1 - 1 = i
  OBVIOUS
<1>5. m - 1 + 1 = m
  BY <1>1
<1> QED
  BY <1>2, <1>3, <1>4, <1>5 DEF m

\* A query with ORDER BY id DESC LIMIT limit: list holds the value of every good id from
\* 1 to n, the greatest first; and when it is full, those that are left out are less.
Latest(list, n, good, value, limit) ==
    /\ Len(list) <= limit
    /\ \E place \in [1..Len(list) -> 1..n] :
          /\ \A k \in 1..Len(list) : place[k] \in good /\ list[k] = value[place[k]]
          /\ \A j, k \in 1..Len(list) : j < k => place[k] < place[j]
          /\ \A i \in 1..n : i \in good =>
                \/ \E k \in 1..Len(list) : place[k] = i
                \/ Len(list) = limit /\ \A k \in 1..Len(list) : i < place[k]

\* What Newest, cut to a limit, is.
LEMMA LatestOfNewest ==
    ASSUME NEW S, NEW n \in Nat, NEW good, NEW value, \A i \in 1..n : value[i] \in S,
           NEW limit \in Nat, NEW list,
           list = FirstOf(Joined(n, [i \in 1..n |-> IF n + 1 - i \in good THEN <<value[n + 1 - i]>>
                                                    ELSE <<>>]), limit)
    PROVE  list \in Seq(S) /\ Latest(list, n, good, value, limit)
<1> DEFINE pieces == [i \in 1..n |-> IF n + 1 - i \in good THEN <<value[n + 1 - i]>> ELSE <<>>]
           all == Joined(n, pieces)
<1>0. \A i \in 1..n : n + 1 - i \in 1..n /\ n + 1 - (n + 1 - i) = i
  OBVIOUS
<1>1. Pieces(n, pieces, S)
  BY <1>0 DEF Pieces
<1>2. list = FirstOf(all, limit)
  OBVIOUS
<1>3. \A i \in 1..n : /\ n + 1 - i \in good => pieces[i] = <<value[n + 1 - i]>> /\ pieces[i] # <<>>
                      /\ n + 1 - i \notin good => pieces[i] = <<>>
  OBVIOUS
<1> HIDE DEF pieces
<1>4. Assembled(all, n, pieces, S)
  BY <1>1, JoinedAssembled
<1> HIDE DEF all
<1>5. PICK place \in [1..Len(all) -> 1..n] :
         /\ all \in Seq(S)
         /\ \A k \in 1..Len(all) : pieces[place[k]] = <<all[k]>>
         /\ \A j, k \in 1..Len(all) : j < k => place[j] < place[k]
         /\ \A i \in 1..n : pieces[i] # <<>> => \E k \in 1..Len(all) : place[k] = i
  BY <1>4, Zenon DEF Assembled
<1> DEFINE m == Len(list)
<1>6. /\ list \in Seq(S) /\ m = IF limit <= Len(all) THEN limit ELSE Len(all)
      /\ \A i \in 1..m : list[i] = all[i]
  <2>1. all \in Seq(S)
    BY <1>5
  <2>2. /\ FirstOf(all, limit) \in Seq(S)
        /\ Len(FirstOf(all, limit)) = IF limit <= Len(all) THEN limit ELSE Len(all)
        /\ \A i \in 1..Len(FirstOf(all, limit)) : FirstOf(all, limit)[i] = all[i]
    BY <2>1, FirstOfList
  <2> QED
    BY <1>2, <2>2
<1>7. Len(all) \in Nat /\ m \in Nat /\ m <= limit /\ m <= Len(all) /\ (m < Len(all) => m = limit)
  BY <1>5, <1>6
<1> HIDE DEF m
<1> DEFINE back == [k \in 1..m |-> n + 1 - place[k]]
<1>8. ASSUME NEW k \in 1..m
      PROVE  place[k] \in 1..n /\ back[k] \in 1..n /\ back[k] \in good /\ list[k] = value[back[k]]
  <2>1. k \in 1..Len(all)
    BY <1>7
  <2>2. place[k] \in 1..n /\ pieces[place[k]] = <<all[k]>> /\ list[k] = all[k]
    BY <1>5, <1>6, <2>1
  <2>3. n + 1 - place[k] \in good
    <3>1. <<all[k]>> # <<>>
      OBVIOUS
    <3> QED
      BY <1>3, <2>2, <3>1
  <2>4. <<all[k]>> = <<value[n + 1 - place[k]]>>
    BY <1>3, <2>2, <2>3
  <2> QED
    BY <1>0, <2>2, <2>3, <2>4
<1>9. ASSUME NEW j \in 1..m, NEW k \in 1..m, j < k PROVE back[k] < back[j]
  <2>1. j \in 1..Len(all) /\ k \in 1..Len(all)
    BY <1>7
  <2>2. place[j] < place[k] /\ place[j] \in 1..n /\ place[k] \in 1..n
    BY <1>5, <1>9, <2>1
  <2> QED
    BY <2>2
<1>10. ASSUME NEW i \in 1..n, i \in good
       PROVE  \/ \E k \in 1..m : back[k] = i
              \/ m = limit /\ \A k \in 1..m : i < back[k]
  <2>1. n + 1 - i \in 1..n /\ n + 1 - (n + 1 - i) = i
    BY <1>0
  <2>2. pieces[n + 1 - i] # <<>>
    BY <1>3, <1>10, <2>1
  <2>3. PICK k \in 1..Len(all) : place[k] = n + 1 - i
    BY <1>5, <2>1, <2>2
  <2>4. CASE k <= m
    <3>1. k \in 1..m
      BY <1>7, <2>4
    <3>2. back[k] = i
      BY <2>1, <2>3, <3>1
    <3> QED
      BY <3>1, <3>2
  <2>5. CASE ~(k <= m)
    <3>1. m = limit /\ m < k
      BY <1>7, <2>5
    <3>2. ASSUME NEW h \in 1..m PROVE i < back[h]
      <4>1. h \in 1..Len(all) /\ h < k
        BY <1>7, <3>1
      <4>2. place[h] < place[k] /\ place[h] \in 1..n
        BY <1>5, <4>1
      <4> QED
        BY <2>3, <4>2
    <3> QED
      BY <3>1, <3>2
  <2> QED
    BY <2>4, <2>5
<1>11. back \in [1..m -> 1..n]
  BY <1>8
<1> HIDE DEF back
<1>12. Latest(list, n, good, value, limit)
  BY <1>7, <1>8, <1>9, <1>10, <1>11 DEF Latest, m
<1> QED
  BY <1>6, <1>12

\* slice(-n).
LEMMA LastOfList ==
    ASSUME NEW S, NEW list \in Seq(S), NEW n \in Nat
    PROVE  /\ LastOf(list, n) \in Seq(S)
           /\ Len(LastOf(list, n)) = IF n <= Len(list) THEN n ELSE Len(list)
           /\ \A i \in 1..Len(LastOf(list, n)) :
                 LastOf(list, n)[i] = list[Len(list) - Len(LastOf(list, n)) + i]
<1> DEFINE m == IF n <= Len(list) THEN n ELSE Len(list)
           a == Len(list) - m + 1
<1>0. Len(list) \in Nat
  OBVIOUS
<1>1. m \in Nat /\ m <= Len(list) /\ a \in Nat \ {0} /\ a <= Len(list) + 1
  <2>1. CASE n <= Len(list)
    BY <1>0, <2>1
  <2>2. CASE ~(n <= Len(list))
    BY <1>0, <2>2
  <2> QED
    BY <2>1, <2>2
<1>2. Max({1, Len(list) - n + 1}) = a
  <2> DEFINE b == Len(list) - n + 1
  <2>1. b \in Int /\ a = IF 1 <= b THEN b ELSE 1
    BY <1>0
  <2> HIDE DEF a, b
  <2>2. \A c \in Int : Max({1, c}) = IF 1 <= c THEN c ELSE 1
    BY MinMax, 1 \in Int, Zenon
  <2>3. Max({1, b}) = a
    BY <2>1, <2>2
  <2> QED
    BY <2>3 DEF b
<1>3. LastOf(list, n) = SubSeq(list, a, Len(list))
  <2> HIDE DEF a
  <2> QED
    BY <1>2 DEF LastOf
<1>4. Len(list) - a + 1 = m /\ \A i \in 1..m : i + a - 1 = Len(list) - m + i
  BY <1>0, <1>1
<1> HIDE DEF m, a
<1>5. /\ SubSeq(list, a, Len(list)) \in Seq(S)
      /\ Len(SubSeq(list, a, Len(list))) = Len(list) - a + 1
      /\ \A i \in 1..(Len(list) - a + 1) : SubSeq(list, a, Len(list))[i] = list[i + a - 1]
  BY <1>1, CutOfList
<1> QED
  BY <1>3, <1>4, <1>5 DEF m

\* ORDER BY ... DESC, reverse().
LEMMA ReverseOfList ==
    ASSUME NEW S, NEW list \in Seq(S)
    PROVE  /\ Reverse(list) \in Seq(S) /\ Len(Reverse(list)) = Len(list)
           /\ \A i \in 1..Len(list) : Reverse(list)[i] = list[Len(list) - i + 1]
<1>1. \A i \in 1..Len(list) : (Len(list) - i) + 1 \in 1..Len(list)
  OBVIOUS
<1>2. \A i \in 1..Len(list) : list[(Len(list) - i) + 1] \in S
  BY <1>1
<1> QED
  BY <1>2 DEF Reverse
=============================================================================
