------------------------------ MODULE TaskTable ------------------------------
(***************************************************************************)
(* The SQLite table "tasks" of the command server and the statements that  *)
(* db.rs runs against it, as operators from a table to a table.            *)
(*                                                                         *)
(* A table is a sequence of rows: task_id is AUTOINCREMENT and no          *)
(* statement deletes a row, so a row's task_id is its index.  A row keeps  *)
(* the columns that the conditions of db.rs and session.rs tell apart.  A  *)
(* *_at_unix_secs column is TRUE when it is set and FALSE when it is NULL; *)
(* canceled stands for canceled_at and the three columns written with it.  *)
(***************************************************************************)
EXTENDS Naturals, Sequences, FiniteSets

CONSTANT Node   \* node_ids

Status     == {"queued", "dispatched", "running", "succeeded", "failed", "canceled"}
InProgress == {"dispatched", "running"}
Cancelable == {"queued", "dispatched", "running"}
Terminal   == {"succeeded", "failed", "canceled"}
Outcome    == {"none", "success", "failure"}   \* result_json: NULL, or its success flag

Task == [node: Node, status: Status, dispatched: BOOLEAN, acked: BOOLEAN,
         started: BOOLEAN, finished: BOOLEAN, canceled: BOOLEAN,
         result: Outcome, retry_count: Nat]

Table == Seq(Task)

-----------------------------------------------------------------------------
(* What each statement writes into the row it selects. *)

NewRow(n) ==
    [node |-> n, status |-> "queued", dispatched |-> FALSE, acked |-> FALSE,
     started |-> FALSE, finished |-> FALSE, canceled |-> FALSE,
     result |-> "none", retry_count |-> 0]

ClaimedRow(row) ==
    [row EXCEPT !.status = "dispatched", !.dispatched = TRUE, !.acked = FALSE,
                !.started = FALSE, !.finished = FALSE, !.canceled = FALSE,
                !.result = "none"]

AckedRow(row) ==
    [row EXCEPT !.status = "running", !.acked = TRUE, !.started = TRUE]

\* Mutants of RequeuedRow: a column is forgotten in the UPDATE.
RequeuedRowKeepsStart(row) ==
    [row EXCEPT !.status = "queued", !.dispatched = FALSE, !.canceled = FALSE,
                !.retry_count = @ + 1]

RequeuedRowSameCount(row) ==
    [row EXCEPT !.status = "queued", !.dispatched = FALSE, !.acked = FALSE,
                !.started = FALSE, !.canceled = FALSE]

\* requeue_incomplete_tasks leaves finished_at and result_json as they are.
RequeuedRow(row) ==
    [row EXCEPT !.status = "queued", !.dispatched = FALSE, !.acked = FALSE,
                !.started = FALSE, !.canceled = FALSE, !.retry_count = @ + 1]

\* Mutant of RetriedRow: retry_count is not increased.
RetriedRowSameCount(row) ==
    [row EXCEPT !.status = "queued", !.dispatched = FALSE, !.acked = FALSE,
                !.started = FALSE, !.finished = FALSE, !.canceled = FALSE,
                !.result = "none"]

RetriedRow(row) ==
    [row EXCEPT !.status = "queued", !.dispatched = FALSE, !.acked = FALSE,
                !.started = FALSE, !.finished = FALSE, !.canceled = FALSE,
                !.result = "none", !.retry_count = @ + 1]

FinishedRow(row, outcome) ==
    [row EXCEPT !.status = IF outcome = "success" THEN "succeeded" ELSE "failed",
                !.acked = TRUE, !.started = TRUE, !.finished = TRUE,
                !.result = outcome]

\* dispatched_at, acked_at and started_at keep what an earlier dispatch wrote.
CanceledRow(row) ==
    [row EXCEPT !.status = "canceled", !.finished = TRUE, !.canceled = TRUE]

-----------------------------------------------------------------------------
(* The WHERE clauses. *)

QueuedFor(t, n) == {id \in DOMAIN t : t[id].node = n /\ t[id].status = "queued"}

\* ORDER BY task_id LIMIT 1
Oldest(ids) == CHOOSE id \in ids : \A other \in ids : id <= other

NextTask(t, n) == Oldest(QueuedFor(t, n))

\* Mutant of IsIncomplete: tasks that were not acknowledged yet are forgotten.
IsIncompleteRunning(row, n) ==
    row.node = n /\ row.status = "running" /\ ~row.finished

IsIncomplete(row, n) ==
    row.node = n /\ row.status \in InProgress /\ ~row.finished

InProgressOf(t, id, n) ==
    id \in DOMAIN t /\ t[id].node = n /\ t[id].status \in InProgress

-----------------------------------------------------------------------------
(* The statements, each run whole under the connection's mutex. *)

Insert(t, n) == Append(t, NewRow(n))

Claim(t, n) == [t EXCEPT ![NextTask(t, n)] = ClaimedRow(@)]

Acknowledge(t, id, n) ==
    IF InProgressOf(t, id, n) /\ t[id].status = "dispatched"
    THEN [t EXCEPT ![id] = AckedRow(@)] ELSE t

Retry(t, id, n) ==
    IF InProgressOf(t, id, n) THEN [t EXCEPT ![id] = RetriedRow(@)] ELSE t

\* Mutant of SubmitResult: a late result is recorded whatever the status.
SubmitResultAnyStatus(t, id, n, outcome) ==
    IF id \in DOMAIN t /\ t[id].node = n
    THEN [t EXCEPT ![id] = FinishedRow(@, outcome)] ELSE t

\* TaskNotFound, NodeMismatch and a task in another state all leave the table.
SubmitResult(t, id, n, outcome) ==
    IF InProgressOf(t, id, n) THEN [t EXCEPT ![id] = FinishedRow(@, outcome)] ELSE t

Cancel(t, id) ==
    IF id \in DOMAIN t /\ t[id].status \in Cancelable
    THEN [t EXCEPT ![id] = CanceledRow(@)] ELSE t

RequeueIncomplete(t, n) ==
    [id \in DOMAIN t |-> IF IsIncomplete(t[id], n) THEN RequeuedRow(t[id]) ELSE t[id]]

-----------------------------------------------------------------------------
(* The columns of one row that belong together. *)

Untouched(row) ==
    /\ ~row.finished
    /\ ~row.canceled
    /\ row.result = "none"

QueuedColumns(row) ==
    row.status = "queued" =>
        Untouched(row) /\ ~row.dispatched /\ ~row.acked /\ ~row.started

InProgressColumns(row) ==
    row.status \in InProgress =>
        /\ Untouched(row)
        /\ row.dispatched
        /\ row.acked = (row.status = "running")
        /\ row.started = row.acked

FinishedColumns(row) ==
    row.status \in {"succeeded", "failed"} =>
        /\ row.dispatched /\ row.acked /\ row.started /\ row.finished
        /\ ~row.canceled
        /\ row.result = IF row.status = "succeeded" THEN "success" ELSE "failure"

CanceledColumns(row) ==
    row.status = "canceled" =>
        /\ row.finished /\ row.canceled /\ row.result = "none"
        /\ row.acked => row.dispatched
        /\ row.started = row.acked

RowConsistent(row) ==
    /\ QueuedColumns(row)
    /\ InProgressColumns(row)
    /\ FinishedColumns(row)
    /\ CanceledColumns(row)

\* Attempts of a row that claim_task has handed out so far: one for every time
\* it was taken back, and one more while its last dispatch stamp is there.
Attempts(row) == row.retry_count + (IF row.dispatched THEN 1 ELSE 0)

-----------------------------------------------------------------------------
(* The table as TaskLifecycle sees it. *)

PhaseOf(status) ==
    CASE status = "queued"     -> "pending"
      [] status \in InProgress -> "active"
      [] OTHER                 -> status

OwnersOf(t) == [id \in DOMAIN t |-> t[id].node]
PhasesOf(t) == [id \in DOMAIN t |-> PhaseOf(t[id].status)]
==============================================================================
