------------------------------ MODULE Migration ------------------------------
(***************************************************************************)
(* Database::open of db.rs on a file that an older program may have left:  *)
(* the migration of "agents" to "nodes" and of tasks.agent_id to           *)
(* tasks.node_id, the schema, the columns added later, and then a running  *)
(* server that registers nodes and creates tasks.                          *)
(*                                                                         *)
(* open starts no transaction, so SQLite commits each statement by itself: *)
(* every statement is a step, and the process can die between any two.     *)
(* What is on disk survives; pc and the two local variables do not.        *)
(* A statement whose tables are not as it needs them does not run: open    *)
(* returns its error and main ends, so that nothing but Crash is left.     *)
(***************************************************************************)
EXTENDS Naturals

CONSTANTS
    Node,        \* node ids, and agent ids of the older program
    Column,      \* columns of tasks that ensure_task_column adds when missing
    CopiedColumn,   \* those of them that the copy takes from the older program's tasks
    OldTasks,    \* task_ids in the file at the first start
    MaxTasks,    \* bound: largest task_id
    MaxCrashes   \* bound: how often the process dies

ASSUME OldTasksAssumption ==
    /\ OldTasks \subseteq 1..MaxTasks /\ MaxTasks \in Nat
    /\ CopiedColumn \subseteq Column

VARIABLES
    agents,        \* table agents: [exists, rows], rows a set of ids
    nodes,         \* table nodes: [exists, row], row[n] what n's row holds
    tasks,         \* table tasks: [key, columns, rows], key naming its node column
    tasks_legacy,  \* what ALTER TABLE ... RENAME made of tasks
    events,        \* whether table session_events exists
    pc,            \* the next statement; "down" without a process, "ready" when open
    has_agents_table, tasks_has_legacy_agent_id,   \* locals of migrate_legacy_schema
    crashes,       \* deaths so far
    broken,        \* history: the statements before which the process died
    before         \* history: [tasks, nodes] in the file at the first start

disk == <<agents, nodes, tasks, tasks_legacy, events>>
locals == <<has_agents_table, tasks_has_legacy_agent_id>>
history == <<crashes, broken, before>>
vars == <<disk, pc, locals, history>>

Statement == {"nodes", "copy_agents", "rename", "m_nodes", "m_tasks", "m_index",
              "m_events", "copy_tasks", "drop_legacy", "drop_agents",
              "s_nodes", "s_tasks", "s_index", "s_events", "columns"}

\* A row of tasks: who created it, so that a task_id given out twice shows.
Row == [task_id: 1..MaxTasks, by: {"old", "server"}]

NoTable == [key |-> "none", columns |-> {}, rows |-> {}]
OldRows == [task_id: OldTasks, by: {"old"}]
EmptyNodes == [n \in Node |-> "none"]

-----------------------------------------------------------------------------
(* The files open may find: none; an older program's, with or without a      *)
(* tasks table, which has the columns that the copy names; or a former       *)
(* version's of this one, lacking later columns.                             *)

Fresh ==
    /\ agents = [exists |-> FALSE, rows |-> {}]
    /\ nodes = [exists |-> FALSE, row |-> EmptyNodes]
    /\ tasks = NoTable
    /\ events = FALSE

Legacy ==
    /\ agents \in [exists: {TRUE}, rows: SUBSET Node]
    /\ nodes = [exists |-> FALSE, row |-> EmptyNodes]
    /\ tasks \in {NoTable, [key |-> "agent_id", columns |-> CopiedColumn, rows |-> OldRows]}
    /\ events = FALSE

Former ==
    /\ agents = [exists |-> FALSE, rows |-> {}]
    /\ nodes \in [exists: {TRUE}, row: [Node -> {"none", "old"}]]
    /\ tasks \in [key: {"node_id"}, columns: SUBSET Column, rows: {OldRows}]
    /\ events \in BOOLEAN

Init ==
    /\ Fresh \/ Legacy \/ Former
    /\ tasks_legacy = NoTable
    /\ pc = "down"
    /\ has_agents_table = FALSE /\ tasks_has_legacy_agent_id = FALSE
    /\ crashes = 0 /\ broken = {}
    /\ before = [tasks |-> tasks.rows,
                 nodes |-> agents.rows \cup {n \in Node : nodes.row[n] # "none"}]

-----------------------------------------------------------------------------
(* The statements of open, in order. *)

\* What a statement needs of the tables; the CREATE TABLE IF NOT EXISTS need nothing.
\* No two rows of a table have one task_id, and a new name must be free.
Runs(statement) ==
    /\ statement = "copy_agents" => agents.exists /\ nodes.exists
    /\ statement = "rename" => tasks.key # "none" /\ tasks_legacy.key = "none"
    /\ statement \in {"m_index", "s_index"} => tasks.key = "node_id"
    /\ statement = "copy_tasks" =>
          /\ tasks_legacy.key = "agent_id" /\ CopiedColumn \subseteq tasks_legacy.columns
          /\ tasks.key = "node_id" /\ tasks.columns = Column
          /\ \A r1 \in tasks.rows, r2 \in tasks_legacy.rows : r1.task_id # r2.task_id
    /\ statement = "drop_legacy" => tasks_legacy.key # "none"
    /\ statement = "drop_agents" => agents.exists
    /\ statement = "columns" => tasks.key # "none"

At(here, next) == pc = here /\ Runs(here) /\ pc' = next

NeedsMigration(has_agents, legacy_tasks) == has_agents \/ legacy_tasks

\* Mutant of Start: a migration that has left tasks_legacy is begun again.
StartOver ==
    /\ has_agents_table' = agents.exists
    /\ tasks_has_legacy_agent_id' = (tasks.key = "agent_id" \/ tasks_legacy.key # "none")
    /\ At("down", IF NeedsMigration(has_agents_table', tasks_has_legacy_agent_id')
                  THEN "nodes" ELSE "s_nodes")
    /\ UNCHANGED <<disk, history>>

Start ==
    /\ has_agents_table' = agents.exists
    /\ tasks_has_legacy_agent_id' = (tasks.key = "agent_id")
    /\ At("down", IF NeedsMigration(has_agents_table', tasks_has_legacy_agent_id')
                  THEN "nodes" ELSE "s_nodes")
    /\ UNCHANGED <<disk, history>>

CreateNodesTable(here, next) ==
    /\ At(here, next)
    /\ nodes' = [nodes EXCEPT !.exists = TRUE]
    /\ UNCHANGED <<agents, tasks, tasks_legacy, events, locals, history>>

CreateTasksTable(here, next) ==
    /\ At(here, next)
    /\ tasks' = IF tasks.key = "none"
                THEN [key |-> "node_id", columns |-> Column, rows |-> {}] ELSE tasks
    /\ UNCHANGED <<agents, nodes, tasks_legacy, events, locals, history>>

\* CREATE INDEX ... ON tasks (node_id, status, task_id).  The index is no part of the
\* state: nothing but this statement depends on it.
CreateTasksIndex(here, next) ==
    /\ At(here, next)
    /\ UNCHANGED <<disk, locals, history>>

CreateEventsTable(here, next) ==
    /\ At(here, next)
    /\ events' = TRUE
    /\ UNCHANGED <<agents, nodes, tasks, tasks_legacy, locals, history>>

AfterAgents == IF tasks_has_legacy_agent_id THEN "rename" ELSE "drop_agents"

\* Mutant of CopyAgents: a table nodes that exists is taken for a finished copy.
CopyAgentsNever ==
    /\ At("copy_agents", AfterAgents)
    /\ UNCHANGED <<disk, locals, history>>

CopyAgents ==
    /\ At("copy_agents", AfterAgents)
    /\ nodes' = [nodes EXCEPT !.row = [n \in Node |->
                    IF n \in agents.rows THEN "old" ELSE nodes.row[n]]]
    /\ UNCHANGED <<agents, tasks, tasks_legacy, events, locals, history>>

RenameTasks ==
    /\ At("rename", "m_nodes")
    /\ tasks_legacy' = tasks
    /\ tasks' = NoTable
    /\ UNCHANGED <<agents, nodes, events, locals, history>>

\* Mutant of CopyTasks: the old table is dropped before its rows are copied.
CopyTasksLate ==
    /\ At("copy_tasks", "drop_legacy")
    /\ tasks_legacy' = NoTable
    /\ UNCHANGED <<agents, nodes, tasks, events, locals, history>>

\* Mutant of CopyTasks: the copy takes no rows.
CopyTasksNothing ==
    /\ At("copy_tasks", "s_nodes")
    /\ UNCHANGED <<disk, locals, history>>

CopyTasks ==
    /\ At("copy_tasks", "drop_legacy")
    /\ tasks' = [tasks EXCEPT !.rows = @ \cup tasks_legacy.rows]
    /\ UNCHANGED <<agents, nodes, tasks_legacy, events, locals, history>>

DropLegacyTasks ==
    /\ At("drop_legacy", IF has_agents_table THEN "drop_agents" ELSE "s_nodes")
    /\ tasks_legacy' = NoTable
    /\ UNCHANGED <<agents, nodes, tasks, events, locals, history>>

\* Mutant of DropAgents: the old table is kept.
KeepAgents ==
    /\ At("drop_agents", "s_nodes")
    /\ UNCHANGED <<disk, locals, history>>

DropAgents ==
    /\ At("drop_agents", "s_nodes")
    /\ agents' = [exists |-> FALSE, rows |-> {}]
    /\ UNCHANGED <<nodes, tasks, tasks_legacy, events, locals, history>>

\* The calls of ensure_task_column: each adds its column when it is missing.
EnsureTaskColumn ==
    /\ pc = "columns" /\ Runs("columns")
    /\ IF tasks.columns = Column
       THEN pc' = "ready" /\ tasks' = tasks
       ELSE \E c \in Column \ tasks.columns :
                pc' = pc /\ tasks' = [tasks EXCEPT !.columns = @ \cup {c}]
    /\ UNCHANGED <<agents, nodes, tasks_legacy, events, locals, history>>

\* migrate_legacy_schema up to "drop_agents", create_schema, then the columns.
Statements ==
    \/ CreateNodesTable("nodes", IF has_agents_table THEN "copy_agents" ELSE "rename")
    \/ CopyAgents
    \/ RenameTasks
    \/ CreateNodesTable("m_nodes", "m_tasks")
    \/ CreateTasksTable("m_tasks", "m_index")
    \/ CreateTasksIndex("m_index", "m_events")
    \/ CreateEventsTable("m_events", "copy_tasks")
    \/ CopyTasks
    \/ DropLegacyTasks
    \/ DropAgents
    \/ CreateNodesTable("s_nodes", "s_tasks")
    \/ CreateTasksTable("s_tasks", "s_index")
    \/ CreateTasksIndex("s_index", "s_events")
    \/ CreateEventsTable("s_events", "columns")
    \/ EnsureTaskColumn

-----------------------------------------------------------------------------
(* The open database in use, and the death of the process. *)

\* Mutant of NextTaskId: ids of the rows copied from the old table are not taken.
NextOwnTaskId(id) ==
    LET own == {row \in tasks.rows : row.by = "server"} IN
    /\ \A row \in own : row.task_id < id
    /\ id = 1 \/ \E row \in own : row.task_id = id - 1

\* AUTOINCREMENT: one above the largest task_id of the table; no row is deleted.
NextTaskId(id) ==
    /\ \A row \in tasks.rows : row.task_id < id
    /\ id = 1 \/ \E row \in tasks.rows : row.task_id = id - 1

RegisterNode(n) ==
    /\ pc = "ready"
    /\ nodes' = [nodes EXCEPT !.row[n] = "server"]
    /\ UNCHANGED <<agents, tasks, tasks_legacy, events, pc, locals, history>>

CreateTask(n) ==
    /\ pc = "ready"
    /\ nodes.row[n] # "none"
    /\ \E id \in 1..MaxTasks :
          /\ NextTaskId(id)
          /\ tasks' = [tasks EXCEPT !.rows = @ \cup {[task_id |-> id, by |-> "server"]}]
    /\ UNCHANGED <<agents, nodes, tasks_legacy, events, pc, locals, history>>

Crash ==
    /\ pc # "down"
    /\ crashes < MaxCrashes
    /\ crashes' = crashes + 1
    /\ broken' = broken \cup {pc}
    /\ pc' = "down"
    /\ has_agents_table' = FALSE /\ tasks_has_legacy_agent_id' = FALSE
    /\ UNCHANGED <<disk, before>>

Next ==
    \/ Start
    \/ Statements
    \/ \E n \in Node : RegisterNode(n) \/ CreateTask(n)
    \/ Crash

Spec == Init /\ [][Next]_vars

-----------------------------------------------------------------------------
TaskTables == [key: {"none", "agent_id", "node_id"}, columns: SUBSET Column,
               rows: SUBSET Row]

PrimaryKey(t) == \A r1, r2 \in t.rows : r1.task_id = r2.task_id => r1 = r2

TypeOK ==
    /\ agents \in [exists: BOOLEAN, rows: SUBSET Node]
    /\ nodes \in [exists: BOOLEAN, row: [Node -> {"none", "old", "server"}]]
    /\ tasks \in TaskTables /\ PrimaryKey(tasks)
    /\ tasks_legacy \in TaskTables /\ PrimaryKey(tasks_legacy)
    /\ events \in BOOLEAN
    /\ pc \in Statement \cup {"down", "ready"}
    /\ has_agents_table \in BOOLEAN /\ tasks_has_legacy_agent_id \in BOOLEAN
    /\ crashes \in Nat
    /\ broken \subseteq Statement \cup {"ready"}
    /\ before \in [tasks: SUBSET Row, nodes: SUBSET Node]

\* Whatever statement the process dies before, and however often, no task row of
\* the file is destroyed: it is in tasks or still in tasks_legacy.
NothingDestroyed == before.tasks \subseteq tasks.rows \cup tasks_legacy.rows

\* The statements between the rename and the copy.
Window == {"m_nodes", "m_tasks", "m_index", "m_events", "copy_tasks"}

\* An open database serves every task of the file it was opened on, unless a
\* process died between the rename and the copy: those statements are the
\* only ones at which a death hides tasks.
TasksServed ==
    (pc = "ready" /\ broken \cap Window = {}) => before.tasks \subseteq tasks.rows

\* An open database knows every node, or agent, of the file it was opened on,
\* wherever processes died.
NodesKept == pc = "ready" => \A n \in before.nodes : nodes.row[n] # "none"

\* An open database has the schema the statements of db.rs rely on, whatever file
\* and whatever half of a migration it started from.
SchemaReady ==
    pc = "ready" =>
        /\ nodes.exists /\ events /\ ~agents.exists
        /\ tasks.key = "node_id" /\ tasks.columns = Column

\* What a node registered with this program is never overwritten by the row an
\* older program left in agents.
RegistrationKept ==
    [][\A n \in Node : nodes.row[n] = "server" => nodes'.row[n] = "server"]_vars

\* No start is refused: whatever files and whatever halves of migrations it began
\* from, and wherever former processes died, open never comes to a statement that
\* does not run on the tables it finds.
OpenNeverFails == pc \in Statement => Runs(pc)

\* test migrates_legacy_agents_table_to_nodes: the tasks of the older program are
\* in tasks once open has returned.
MigratedTasksListed == pc = "ready" => before.tasks \subseteq tasks.rows
==============================================================================
