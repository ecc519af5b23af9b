------------------------------ MODULE TaskStore ------------------------------
(***************************************************************************)
(* The Database of db.rs as the concurrent callers of the command server   *)
(* see it: HTTP handlers, console handlers and node sessions call it in    *)
(* any order, one call at a time (every method takes the connection's      *)
(* mutex and runs to its end under it).  Arguments are not constrained to  *)
(* what a well-behaved caller sends: task ids of other nodes, late results *)
(* and repeated acknowledgements all occur.                                *)
(***************************************************************************)
EXTENDS TaskTable

CONSTANTS Command,      \* command names
          NoNode,       \* the absence of a row in "nodes"
          MaxTasks,     \* bound: rows of "tasks"
          MaxRetries    \* bound: retry_count of a row

ASSUME StoreAssumption ==
    /\ MaxTasks \in Nat
    /\ MaxRetries \in Nat

\* commands_json: the advertised names, each with its allow_extra_args
Catalog == UNION {[names -> BOOLEAN] : names \in SUBSET Command}
EmptyCatalog == [c \in {} |-> FALSE]

ASSUME NoNodeAssumption == NoNode \notin Catalog

VARIABLES nodes,    \* the table "nodes": the catalog of each registered node
          tasks,    \* the table "tasks"
          issued    \* history: the <<task_id, attempt>> pairs claim_task handed out

vars == <<nodes, tasks, issued>>

\* Mutant of Attempt: deliveries are numbered from zero.
AttemptFromZero(row) == row.retry_count

\* conversions.rs numbers the delivery of a claimed task retry_count + 1.
Attempt(row) == row.retry_count + 1

TypeOK ==
    /\ nodes \in [Node -> Catalog \cup {NoNode}]
    /\ tasks \in Table
    /\ issued \subseteq (DOMAIN tasks) \X (Nat \ {0})

Init ==
    /\ nodes = [n \in Node |-> NoNode]
    /\ tasks = <<>>
    /\ issued = {}

Registered(n) == nodes[n] # NoNode

-----------------------------------------------------------------------------
\* An empty list of commands keeps the catalog the node already has.
RegisterNode(n, commands) ==
    /\ nodes' = [nodes EXCEPT ![n] =
                    IF commands # EmptyCatalog THEN commands
                    ELSE IF Registered(n) THEN @ ELSE EmptyCatalog]
    /\ UNCHANGED <<tasks, issued>>

UpdateNodeCommands(n, commands) ==
    /\ Registered(n)
    /\ nodes' = [nodes EXCEPT ![n] = commands]
    /\ UNCHANGED <<tasks, issued>>

CreateTask(n, command, extraArgs) ==
    /\ Len(tasks) < MaxTasks
    /\ Registered(n)
    /\ command \in DOMAIN nodes[n]
    /\ extraArgs => nodes[n][command]
    /\ tasks' = Insert(tasks, n)
    /\ UNCHANGED <<nodes, issued>>

ClaimTask(n) ==
    /\ Registered(n)
    /\ QueuedFor(tasks, n) # {}
    /\ tasks' = Claim(tasks, n)
    /\ issued' = issued \cup {<<NextTask(tasks, n), Attempt(tasks[NextTask(tasks, n)])>>}
    /\ UNCHANGED nodes

AcknowledgeTask(id, n) ==
    /\ tasks' = Acknowledge(tasks, id, n)
    /\ UNCHANGED <<nodes, issued>>

RetryTask(id, n) ==
    /\ tasks[id].retry_count < MaxRetries
    /\ tasks' = Retry(tasks, id, n)
    /\ UNCHANGED <<nodes, issued>>

SubmitTaskResult(id, n, outcome) ==
    /\ tasks' = SubmitResult(tasks, id, n, outcome)
    /\ UNCHANGED <<nodes, issued>>

CancelTask(id) ==
    /\ tasks' = Cancel(tasks, id)
    /\ UNCHANGED <<nodes, issued>>

RequeueIncompleteTasks(n) ==
    /\ \A id \in DOMAIN tasks :
          IsIncomplete(tasks[id], n) => tasks[id].retry_count < MaxRetries
    /\ tasks' = RequeueIncomplete(tasks, n)
    /\ UNCHANGED <<nodes, issued>>

Next ==
    \/ \E n \in Node :
        \/ \E commands \in Catalog : RegisterNode(n, commands) \/ UpdateNodeCommands(n, commands)
        \/ \E command \in Command, extraArgs \in BOOLEAN : CreateTask(n, command, extraArgs)
        \/ ClaimTask(n)
        \/ RequeueIncompleteTasks(n)
        \/ \E id \in DOMAIN tasks : AcknowledgeTask(id, n) \/ RetryTask(id, n)
        \/ \E id \in DOMAIN tasks, outcome \in {"success", "failure"} :
              SubmitTaskResult(id, n, outcome)
    \/ \E id \in DOMAIN tasks : CancelTask(id)

Spec == Init /\ [][Next]_vars

-----------------------------------------------------------------------------
(* Safety. *)

\* Whatever calls interleave, the NULL and set columns of a row agree with its
\* status: no result survives a requeue or a cancel, no dispatch stamp survives
\* a requeue, and a canceled row keeps a consistent record of how far it got
\* (db.rs: each UPDATE lists the columns it resets by hand).
RowsConsistent == \A id \in DOMAIN tasks : RowConsistent(tasks[id])

\* The history of deliveries can be read off the table: task id went out
\* exactly as attempts 1, 2, ..., Attempts, so retry_count never skips and
\* never repeats a number.
IssuedMatchesTable ==
    \A id \in DOMAIN tasks, a \in 1..(MaxRetries + 1) :
        <<id, a>> \in issued <=> a <= Attempts(tasks[id])

\* A claim never reuses the attempt number of an earlier delivery of the task:
\* the attempt in a TaskAssignment tells two deliveries apart.
FreshAttempts ==
    [][\A id \in DOMAIN tasks :
          tasks[id].status = "queued" /\ tasks'[id].status = "dispatched" =>
              <<id, Attempt(tasks[id])>> \notin issued]_vars

\* requeue_incomplete_tasks, called when a node's session opens or closes,
\* leaves none of the node's tasks behind in dispatched or running: its filter
\* "finished_at_unix_secs IS NULL" excludes no task that nobody runs any more.
RequeueTakesAll ==
    [][\A n \in Node : RequeueIncompleteTasks(n) =>
          \A id \in DOMAIN tasks' :
              tasks'[id].node = n => tasks'[id].status \notin InProgress]_vars

-----------------------------------------------------------------------------
(* The table implements the life cycle that TaskLifecycle promises. *)

Lifecycle == INSTANCE TaskLifecycle WITH owner <- OwnersOf(tasks), phase <- PhasesOf(tasks)

\* Every call of the Database is a step of TaskLifecycle or leaves it alone:
\* ended tasks stay as they ended, only handed-out tasks get a result, and a
\* node's tasks go out oldest first.
ImplementsLifecycle == Lifecycle!Spec
==============================================================================
