--------------------------- MODULE TaskStoreProofs ---------------------------
(***************************************************************************)
(* Proofs about TaskStore, for every set of nodes and commands and every   *)
(* bound on tasks and retries.                                             *)
(***************************************************************************)
EXTENDS TaskStore, DataProofs

-----------------------------------------------------------------------------
(* The inductive invariant. *)

\* IssuedMatchesTable without the bound on the attempt.
IssuedExact ==
    \A id \in DOMAIN tasks, a \in Nat \ {0} :
        <<id, a>> \in issued <=> a <= Attempts(tasks[id])

IInv == TypeOK /\ RowsConsistent /\ IssuedExact

\* The attempt that a claim of a queued row will hand out.
LEMMA NextAttempt ==
    ASSUME NEW row \in Task, RowConsistent(row), row.status = "queued"
    PROVE  Attempts(row) \in Nat /\ Attempt(row) = Attempts(row) + 1
<1>1. row.retry_count \in Nat /\ ~row.dispatched
  BY DEF Task, RowConsistent, QueuedColumns
<1> QED BY <1>1 DEF Attempts, Attempt

-----------------------------------------------------------------------------
(* The invariant is inductive. *)

\* A statement that writes one row, keeps its node and its number of attempts
\* and leaves it consistent, preserves the invariant.
LEMMA OneRowStep ==
    ASSUME IInv, NEW id \in DOMAIN tasks, NEW row \in Task,
           RowConsistent(row), row.node = tasks[id].node,
           Attempts(row) = Attempts(tasks[id]),
           tasks' = [tasks EXCEPT ![id] = row], UNCHANGED <<nodes, issued>>
    PROVE  IInv'
<1>1. /\ tasks' \in Table /\ DOMAIN tasks' = DOMAIN tasks
      /\ tasks'[id] = row
      /\ \A j \in DOMAIN tasks \ {id} : tasks'[j] = tasks[j]
  BY OneRow DEF IInv, TypeOK
<1>2. TypeOK'
  BY <1>1 DEF IInv, TypeOK
<1>3. RowsConsistent'
  BY <1>1 DEF IInv, RowsConsistent, RowConsistent
<1>4. IssuedExact'
  BY <1>1 DEF IInv, IssuedExact, Attempts
<1> QED BY <1>2, <1>3, <1>4 DEF IInv

\* The invariant holds of an empty database.
LEMMA InvInit == Init => IInv
<1> SUFFICES ASSUME Init PROVE IInv
  OBVIOUS
<1>1. tasks \in Table /\ DOMAIN tasks = {}
  BY DEF Init, Table
<1>2. TypeOK
  BY <1>1 DEF Init, TypeOK
<1> QED BY <1>1, <1>2 DEF IInv, RowsConsistent, IssuedExact

\* register_node and update_node_commands write the table "nodes" only.
LEMMA InvRegister ==
    ASSUME IInv, NEW n \in Node, NEW commands \in Catalog,
           RegisterNode(n, commands) \/ UpdateNodeCommands(n, commands)
    PROVE  IInv'
<1>1. EmptyCatalog \in Catalog
  BY DEF EmptyCatalog, Catalog
<1>2. nodes' \in [Node -> Catalog \cup {NoNode}] /\ UNCHANGED <<tasks, issued>>
  BY <1>1 DEF IInv, TypeOK, RegisterNode, UpdateNodeCommands
<1>3. TypeOK'
  BY <1>2 DEF IInv, TypeOK
<1>4. RowsConsistent'
  BY <1>2 DEF IInv, RowsConsistent
<1>5. IssuedExact'
  BY <1>2 DEF IInv, IssuedExact, Attempts
<1> QED BY <1>3, <1>4, <1>5 DEF IInv

\* create_task appends a row that was never handed out.
LEMMA InvCreate ==
    ASSUME IInv, NEW n \in Node, NEW command \in Command, NEW extraArgs \in BOOLEAN,
           CreateTask(n, command, extraArgs)
    PROVE  IInv'
<1> DEFINE new == Len(tasks) + 1
<1>1. /\ tasks' \in Table /\ DOMAIN tasks' = DOMAIN tasks \cup {new}
      /\ new \notin DOMAIN tasks
      /\ tasks'[new] = NewRow(n)
      /\ \A j \in DOMAIN tasks : tasks'[j] = tasks[j]
  BY OneMore, NewRowFacts DEF IInv, TypeOK, CreateTask, Insert
<1>2. UNCHANGED <<nodes, issued>>
  BY DEF CreateTask
<1> HIDE DEF new
<1>3. TypeOK'
  BY <1>1, <1>2 DEF IInv, TypeOK
<1>4. RowsConsistent'
  BY <1>1, NewRowFacts DEF IInv, RowsConsistent
<1>5. IssuedExact'
  <2>1. \A a \in Nat \ {0} : <<new, a>> \notin issued' /\ ~(a <= Attempts(tasks'[new]))
    BY <1>1, <1>2, NewRowFacts DEF IInv, TypeOK
  <2>2. \A id \in DOMAIN tasks : tasks'[id] = tasks[id]
    BY <1>1
  <2> QED BY <1>1, <1>2, <2>1, <2>2 DEF IInv, IssuedExact
<1> QED BY <1>3, <1>4, <1>5 DEF IInv

\* claim_task hands out one more attempt of the row it selects.
LEMMA InvClaim ==
    ASSUME IInv, NEW n \in Node, ClaimTask(n)
    PROVE  IInv'
<1> DEFINE id == NextTask(tasks, n)
           row == ClaimedRow(tasks[id])
<1>1. id \in DOMAIN tasks /\ tasks[id].status = "queued"
  BY NextTaskIsOldest DEF ClaimTask, QueuedFor, IInv, TypeOK
<1>2. /\ tasks[id] \in Task /\ RowConsistent(tasks[id])
      /\ id \in Nat \ {0}
  BY <1>1, RowOfTable DEF IInv, TypeOK, RowsConsistent
<1>3. row \in Task /\ RowConsistent(row) /\ row.node = tasks[id].node
  BY <1>1, <1>2, RowTypes, RowsStayConsistent, NodeOfRow
<1>4. /\ Attempts(tasks[id]) \in Nat /\ Attempt(tasks[id]) = Attempts(tasks[id]) + 1
      /\ Attempts(row) = Attempts(tasks[id]) + 1
  BY <1>1, <1>2, AttemptsOfRow, NextAttempt
<1>5. /\ tasks' = [tasks EXCEPT ![id] = row]
      /\ issued' = issued \cup {<<id, Attempts(tasks[id]) + 1>>}
      /\ UNCHANGED nodes
  BY <1>4 DEF ClaimTask, Claim
<1> HIDE DEF id, row
<1>6. /\ tasks' \in Table /\ DOMAIN tasks' = DOMAIN tasks
      /\ tasks'[id] = row
      /\ \A j \in DOMAIN tasks \ {id} : tasks'[j] = tasks[j]
  BY <1>1, <1>3, <1>5, OneRow DEF IInv, TypeOK
<1>7. TypeOK'
  BY <1>1, <1>4, <1>5, <1>6 DEF IInv, TypeOK
<1>8. RowsConsistent'
  BY <1>3, <1>6 DEF IInv, RowsConsistent
<1>9. IssuedExact'
  <2> SUFFICES ASSUME NEW j \in DOMAIN tasks, NEW a \in Nat \ {0}
               PROVE  <<j, a>> \in issued' <=> a <= Attempts(tasks'[j])
    BY <1>6 DEF IssuedExact
  <2>1. <<j, a>> \in issued <=> a <= Attempts(tasks[j])
    BY DEF IInv, IssuedExact
  <2>2. CASE j = id
    BY <2>1, <2>2, <1>4, <1>5, <1>6
  <2>3. CASE j # id
    BY <2>1, <2>3, <1>5, <1>6
  <2> QED BY <2>2, <2>3
<1> QED BY <1>7, <1>8, <1>9 DEF IInv

\* A stuttering step preserves the invariant.
LEMMA InvUnchanged == IInv /\ UNCHANGED vars => IInv'
BY DEF IInv, vars, TypeOK, RowsConsistent, IssuedExact, Attempts

\* What the invariant says of one row of the table.
LEMMA InvRow ==
    ASSUME IInv, NEW id \in DOMAIN tasks
    PROVE  tasks[id] \in Task /\ RowConsistent(tasks[id])
BY RowOfTable DEF IInv, TypeOK, RowsConsistent

\* acknowledge_task preserves the invariant.
LEMMA InvAcknowledge ==
    ASSUME IInv, NEW id \in DOMAIN tasks, NEW n \in Node, AcknowledgeTask(id, n)
    PROVE  IInv'
<1>1. CASE InProgressOf(tasks, id, n) /\ tasks[id].status = "dispatched"
  <2>1. tasks' = [tasks EXCEPT ![id] = AckedRow(tasks[id])] /\ UNCHANGED <<nodes, issued>>
    BY <1>1 DEF AcknowledgeTask, Acknowledge
  <2> QED BY <1>1, <2>1, InvRow, RowTypes, RowsStayConsistent, NodeOfRow, AttemptsOfRow,
             OneRowStep
<1>2. CASE ~(InProgressOf(tasks, id, n) /\ tasks[id].status = "dispatched")
  BY <1>2, InvUnchanged DEF AcknowledgeTask, Acknowledge, vars
<1> QED BY <1>1, <1>2

\* retry_task trades a dispatch stamp for one more retry.
LEMMA InvRetry ==
    ASSUME IInv, NEW id \in DOMAIN tasks, NEW n \in Node, RetryTask(id, n)
    PROVE  IInv'
<1>1. CASE InProgressOf(tasks, id, n)
  <2>1. tasks' = [tasks EXCEPT ![id] = RetriedRow(tasks[id])] /\ UNCHANGED <<nodes, issued>>
    BY <1>1 DEF RetryTask, Retry
  <2>2. tasks[id].status \in InProgress
    BY <1>1 DEF InProgressOf
  <2> QED BY <2>1, <2>2, InvRow, RowTypes, RowsStayConsistent, NodeOfRow, AttemptsOfRow,
             OneRowStep
<1>2. CASE ~InProgressOf(tasks, id, n)
  BY <1>2, InvUnchanged DEF RetryTask, Retry, vars
<1> QED BY <1>1, <1>2

\* submit_task_result preserves the invariant, applied or not.
LEMMA InvSubmitResult ==
    ASSUME IInv, NEW id \in DOMAIN tasks, NEW n \in Node,
           NEW outcome \in {"success", "failure"}, SubmitTaskResult(id, n, outcome)
    PROVE  IInv'
<1>1. CASE InProgressOf(tasks, id, n)
  <2>1. /\ tasks' = [tasks EXCEPT ![id] = FinishedRow(tasks[id], outcome)]
        /\ UNCHANGED <<nodes, issued>>
    BY <1>1 DEF SubmitTaskResult, SubmitResult
  <2>2. tasks[id].status \in InProgress
    BY <1>1 DEF InProgressOf
  <2>3. /\ FinishedRow(tasks[id], outcome) \in Task
        /\ RowConsistent(FinishedRow(tasks[id], outcome))
        /\ FinishedRow(tasks[id], outcome).node = tasks[id].node
        /\ Attempts(FinishedRow(tasks[id], outcome)) = Attempts(tasks[id])
    BY <2>2, InvRow, RowTypes, RowsStayConsistent, NodeOfRow, AttemptsOfRow
  <2> QED BY <2>1, <2>3, OneRowStep
<1>2. CASE ~InProgressOf(tasks, id, n)
  BY <1>2, InvUnchanged DEF SubmitTaskResult, SubmitResult, vars
<1> QED BY <1>1, <1>2

\* cancel_task preserves the invariant, applied or not.
LEMMA InvCancel ==
    ASSUME IInv, NEW id \in DOMAIN tasks, CancelTask(id)
    PROVE  IInv'
<1>1. CASE tasks[id].status \in Cancelable
  <2>1. tasks' = [tasks EXCEPT ![id] = CanceledRow(tasks[id])] /\ UNCHANGED <<nodes, issued>>
    BY <1>1 DEF CancelTask, Cancel
  <2> QED BY <1>1, <2>1, InvRow, RowTypes, RowsStayConsistent, NodeOfRow, AttemptsOfRow,
             OneRowStep
<1>2. CASE tasks[id].status \notin Cancelable
  BY <1>2, InvUnchanged DEF CancelTask, Cancel, vars
<1> QED BY <1>1, <1>2

\* requeue_incomplete_tasks rewrites several rows, each as a retry would.
LEMMA InvRequeue ==
    ASSUME IInv, NEW n \in Node, RequeueIncompleteTasks(n)
    PROVE  IInv'
<1>1. /\ tasks' \in Table /\ DOMAIN tasks' = DOMAIN tasks
      /\ \A id \in DOMAIN tasks :
            tasks'[id] = IF IsIncomplete(tasks[id], n) THEN RequeuedRow(tasks[id]) ELSE tasks[id]
      /\ UNCHANGED <<nodes, issued>>
  BY RequeueRows DEF IInv, TypeOK, RequeueIncompleteTasks
<1>2. \A id \in DOMAIN tasks : /\ RowConsistent(tasks'[id])
                               /\ tasks'[id].node = tasks[id].node
                               /\ Attempts(tasks'[id]) = Attempts(tasks[id])
  <2> TAKE id \in DOMAIN tasks
  <2>1. CASE IsIncomplete(tasks[id], n)
    BY <2>1, <1>1, InvRow, RowsStayConsistent, NodeOfRow, AttemptsOfRow DEF IsIncomplete
  <2>2. CASE ~IsIncomplete(tasks[id], n)
    BY <2>2, <1>1, InvRow
  <2> QED BY <2>1, <2>2
<1>3. TypeOK'
  BY <1>1 DEF IInv, TypeOK
<1>4. RowsConsistent'
  BY <1>1, <1>2 DEF RowsConsistent
<1>5. IssuedExact'
  BY <1>1, <1>2 DEF IInv, IssuedExact
<1> QED BY <1>3, <1>4, <1>5 DEF IInv

\* Every call of the Database preserves the invariant.
LEMMA InvNext == IInv /\ [Next]_vars => IInv'
<1> SUFFICES ASSUME IInv, [Next]_vars PROVE IInv'
  OBVIOUS
<1>1. ASSUME NEW n \in Node, NEW commands \in Catalog,
             RegisterNode(n, commands) \/ UpdateNodeCommands(n, commands)
      PROVE  IInv'
  BY <1>1, InvRegister
<1>2. ASSUME NEW n \in Node, NEW command \in Command, NEW extraArgs \in BOOLEAN,
             CreateTask(n, command, extraArgs)
      PROVE  IInv'
  BY <1>2, InvCreate
<1>3. ASSUME NEW n \in Node, ClaimTask(n) PROVE IInv'
  BY <1>3, InvClaim
<1>4. ASSUME NEW n \in Node, RequeueIncompleteTasks(n) PROVE IInv'
  BY <1>4, InvRequeue
<1>5. ASSUME NEW n \in Node, NEW id \in DOMAIN tasks, AcknowledgeTask(id, n) PROVE IInv'
  BY <1>5, InvAcknowledge
<1>6. ASSUME NEW n \in Node, NEW id \in DOMAIN tasks, RetryTask(id, n) PROVE IInv'
  BY <1>6, InvRetry
<1>7. ASSUME NEW n \in Node, NEW id \in DOMAIN tasks,
             NEW outcome \in {"success", "failure"}, SubmitTaskResult(id, n, outcome)
      PROVE  IInv'
  BY <1>7, InvSubmitResult
<1>8. ASSUME NEW id \in DOMAIN tasks, CancelTask(id) PROVE IInv'
  BY <1>8, InvCancel
<1>9. CASE UNCHANGED vars
  BY <1>9, InvUnchanged
<1> QED BY <1>1, <1>2, <1>3, <1>4, <1>5, <1>6, <1>7, <1>8, <1>9 DEF Next

-----------------------------------------------------------------------------
(* The theorems. *)

\* The inductive invariant holds throughout every behaviour of the store.
THEOREM Invariance == Spec => []IInv
<1> QED BY InvInit, InvNext, PTL DEF Spec

\* The tables keep their types, whatever calls interleave.
THEOREM TypeCorrect == Spec => []TypeOK
<1>1. IInv => TypeOK
  BY DEF IInv
<1> QED BY <1>1, Invariance, PTL

\* The columns of every row agree with its status, after any sequence of the
\* statements of db.rs.
THEOREM RowsAlwaysConsistent == Spec => []RowsConsistent
<1>1. IInv => RowsConsistent
  BY DEF IInv
<1> QED BY <1>1, Invariance, PTL

\* The deliveries that happened can be read off retry_count and the dispatch
\* stamp, for any number of retries.
THEOREM DeliveriesMatchTable == Spec => []IssuedMatchesTable
<1>1. \A a \in 1..(MaxRetries + 1) : a \in Nat \ {0}
  BY StoreAssumption
<1>2. IInv => IssuedMatchesTable
  BY <1>1 DEF IInv, IssuedMatchesTable, IssuedExact
<1> QED BY <1>2, Invariance, PTL

\* No two deliveries of a task carry the same attempt number.
THEOREM AttemptsNeverRepeat == Spec => FreshAttempts
<1>1. ASSUME IInv, NEW id \in DOMAIN tasks, tasks[id].status = "queued"
      PROVE  <<id, Attempt(tasks[id])>> \notin issued
  <2>1. /\ Attempts(tasks[id]) \in Nat
        /\ Attempt(tasks[id]) = Attempts(tasks[id]) + 1
    BY <1>1, InvRow, NextAttempt
  <2> QED BY <1>1, <2>1 DEF IInv, IssuedExact
<1>2. IInv => \A id \in DOMAIN tasks :
          tasks[id].status = "queued" /\ tasks'[id].status = "dispatched" =>
              <<id, Attempt(tasks[id])>> \notin issued
  BY <1>1
<1> QED BY <1>2, Invariance, PTL DEF FreshAttempts

\* A requeue leaves no task of the node in dispatched or running.
THEOREM RequeueLeavesNone == Spec => RequeueTakesAll
<1>1. ASSUME IInv, NEW n \in Node, RequeueIncompleteTasks(n),
             NEW id \in DOMAIN tasks', tasks'[id].node = n
      PROVE  tasks'[id].status \notin InProgress
  <2>1. /\ id \in DOMAIN tasks
        /\ tasks'[id] = IF IsIncomplete(tasks[id], n) THEN RequeuedRow(tasks[id]) ELSE tasks[id]
    BY <1>1, RequeueRows DEF IInv, TypeOK, RequeueIncompleteTasks
  <2>2. tasks[id] \in Task /\ RowConsistent(tasks[id])
    BY <1>1, <2>1, InvRow
  <2>3. CASE IsIncomplete(tasks[id], n)
    BY <2>1, <2>2, <2>3, StatusOfRow DEF InProgress
  <2>4. CASE ~IsIncomplete(tasks[id], n)
    BY <1>1, <2>1, <2>2, <2>4 DEF IsIncomplete, RowConsistent, InProgressColumns, Untouched
  <2> QED BY <2>3, <2>4
<1>2. IInv => [\A n \in Node : RequeueIncompleteTasks(n) =>
          \A id \in DOMAIN tasks' :
              tasks'[id].node = n => tasks'[id].status \notin InProgress]_vars
  BY <1>1
<1> QED BY <1>2, Invariance, PTL DEF RequeueTakesAll

-----------------------------------------------------------------------------
(* The store implements TaskLifecycle. *)

\* A move of owners and phases is a step of TaskLifecycle.
LEMMA MoveIsStep ==
    ASSUME PhaseStep(OwnersOf(tasks), PhasesOf(tasks), OwnersOf(tasks'), PhasesOf(tasks'))
    PROVE  Lifecycle!Next
<1> DEFINE o == OwnersOf(tasks)
           p == PhasesOf(tasks)
           q == OwnersOf(tasks')
           r == PhasesOf(tasks')
<1>0. OwnersOf(tasks)' = q /\ PhasesOf(tasks)' = r
  BY DEF OwnersOf, PhasesOf
<1>1. ASSUME NEW n \in Node, q = Append(o, n), r = Append(p, "pending")
      PROVE  Lifecycle!Submit(n)
  BY <1>0, <1>1 DEF Lifecycle!Submit
<1>2. ASSUME NEW i \in DOMAIN p, q = o, p[i] = "pending", r = [p EXCEPT ![i] = "active"],
             \A j \in DOMAIN p : o[j] = o[i] /\ p[j] = "pending" => i <= j
      PROVE  Lifecycle!HandOut(i)
  BY <1>0, <1>2 DEF Lifecycle!HandOut, Lifecycle!Pending
<1>3. ASSUME NEW i \in DOMAIN p, q = o, p[i] \in {"pending", "active"},
             r = [p EXCEPT ![i] = "canceled"]
      PROVE  Lifecycle!Cancel(i)
  BY <1>0, <1>3 DEF Lifecycle!Cancel
<1>4. ASSUME NEW i \in DOMAIN p, NEW outcome \in {"succeeded", "failed"}, q = o,
             p[i] = "active", r = [p EXCEPT ![i] = outcome]
      PROVE  Lifecycle!Finish(i, outcome)
  BY <1>0, <1>4 DEF Lifecycle!Finish
<1>5. ASSUME NEW ids \in SUBSET DOMAIN p, q = o, \A i \in ids : p[i] = "active",
             r = [i \in DOMAIN p |-> IF i \in ids THEN "pending" ELSE p[i]]
      PROVE  Lifecycle!TakeBack(ids)
  BY <1>0, <1>5 DEF Lifecycle!TakeBack
<1> HIDE DEF o, p, q, r
<1>6. PhaseStep(o, p, q, r)
  BY DEF o, p, q, r
<1>7. Lifecycle!Next
  BY <1>1, <1>2, <1>3, <1>4, <1>5, <1>6 DEF PhaseStep, Lifecycle!Next, o, p, q, r
<1> QED BY <1>7

\* Every call of the Database is one statement, or leaves the table alone.
LEMMA CallIsStatement ==
    ASSUME IInv, [Next]_vars
    PROVE  UNCHANGED tasks \/ TableStep(tasks, tasks')
<1>1. ASSUME NEW n \in Node, NEW commands \in Catalog,
             RegisterNode(n, commands) \/ UpdateNodeCommands(n, commands)
      PROVE  UNCHANGED tasks
  BY <1>1 DEF RegisterNode, UpdateNodeCommands
<1>2. ASSUME NEW n \in Node, NEW command \in Command, NEW extraArgs \in BOOLEAN,
             CreateTask(n, command, extraArgs)
      PROVE  TableStep(tasks, tasks')
  BY <1>2 DEF CreateTask, TableStep
<1>3. ASSUME NEW n \in Node, ClaimTask(n) \/ RequeueIncompleteTasks(n)
      PROVE  TableStep(tasks, tasks')
  BY <1>3 DEF ClaimTask, RequeueIncompleteTasks, TableStep, RowStep
<1>4. ASSUME NEW n \in Node, NEW id \in DOMAIN tasks,
             \/ AcknowledgeTask(id, n)
             \/ RetryTask(id, n)
             \/ \E outcome \in {"success", "failure"} : SubmitTaskResult(id, n, outcome)
      PROVE  NamedStep(tasks, tasks')
  BY <1>4 DEF AcknowledgeTask, RetryTask, SubmitTaskResult, NamedStep
<1>5. ASSUME NEW id \in DOMAIN tasks, CancelTask(id)
      PROVE  NamedStep(tasks, tasks')
  <2>1. tasks[id].node \in Node
    BY InvRow DEF Task
  <2> QED BY <1>5, <2>1 DEF CancelTask, NamedStep
<1>6. CASE UNCHANGED vars
  BY <1>6 DEF vars
<1> QED BY <1>1, <1>2, <1>3, <1>4, <1>5, <1>6 DEF Next, TableStep, RowStep

\* Every statement of db.rs is a step of the life cycle of tasks or invisible
\* to it, for every set of nodes and any number of tasks and retries.
THEOREM Refinement == Spec => ImplementsLifecycle
<1>1. Init => Lifecycle!Init
  BY DEF Init, Lifecycle!Init, OwnersOf, PhasesOf
<1>2. IInv /\ [Next]_vars => [Lifecycle!Next]_(Lifecycle!vars)
  <2> SUFFICES ASSUME IInv, [Next]_vars PROVE [Lifecycle!Next]_(Lifecycle!vars)
    OBVIOUS
  <2>1. CASE UNCHANGED tasks
    BY <2>1 DEF Lifecycle!vars, OwnersOf, PhasesOf
  <2>2. CASE TableStep(tasks, tasks')
    <3>1. tasks \in Table
      BY DEF IInv, TypeOK
    <3>2. \/ OwnersOf(tasks') = OwnersOf(tasks) /\ PhasesOf(tasks') = PhasesOf(tasks)
          \/ PhaseStep(OwnersOf(tasks), PhasesOf(tasks), OwnersOf(tasks'), PhasesOf(tasks'))
      BY <2>2, <3>1, StepPhases
    <3>3. OwnersOf(tasks)' = OwnersOf(tasks') /\ PhasesOf(tasks)' = PhasesOf(tasks')
      BY DEF OwnersOf, PhasesOf
    <3> QED BY <3>2, <3>3, MoveIsStep DEF Lifecycle!vars
  <2> QED BY <2>1, <2>2, CallIsStatement
<1> QED BY <1>1, <1>2, Invariance, PTL DEF Spec, ImplementsLifecycle, Lifecycle!Spec
==============================================================================
