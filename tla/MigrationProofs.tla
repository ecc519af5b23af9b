--------------------------- MODULE MigrationProofs ---------------------------
(***************************************************************************)
(* Theorems about Migration for any nodes, columns and old tasks and any   *)
(* number of deaths.  IInv says what each place in open may rely on: which *)
(* tables are there and which copies are complete.                         *)
(***************************************************************************)
EXTENDS Migration, TLAPS

Before == {"nodes", "copy_agents", "rename"}
Copied == {"rename", "drop_legacy", "drop_agents"} \cup Window
Migrated == {"s_nodes", "s_tasks", "s_index", "s_events", "columns", "ready"}

\* Where the old tasks are.
TasksPart ==
    /\ NothingDestroyed
    /\ tasks.key = "none" => tasks.rows = {}
    /\ tasks.key = "agent_id" => tasks_legacy = NoTable /\ CopiedColumn \subseteq tasks.columns
    /\ pc \in Before => tasks_has_legacy_agent_id = (tasks.key = "agent_id")
    /\ pc = "rename" => tasks.key = "agent_id"
    /\ pc \in {"m_index", "m_events", "copy_tasks", "drop_legacy"} =>
           tasks.key = "node_id" /\ tasks.columns = Column
    /\ pc = "m_tasks" \/ pc = "m_nodes" => tasks.key = "none"
    /\ pc \in Window \cup {"drop_legacy"} =>
           tasks_legacy.key = "agent_id" /\ CopiedColumn \subseteq tasks_legacy.columns
    /\ pc \in Window \cup Migrated \cup {"drop_legacy", "drop_agents"} =>
           tasks.key # "agent_id"
    /\ pc \in Window => tasks.rows = {}
    /\ pc = "drop_legacy" => tasks_legacy.rows \subseteq tasks.rows
    /\ (pc \notin Window /\ broken \cap Window = {}) => before.tasks \subseteq tasks.rows

\* Where the old agents are.
NodesPart ==
    /\ ~agents.exists => agents.rows = {}
    /\ agents.exists => \A n \in Node : nodes.row[n] # "server"
    /\ pc \notin Migrated \cup {"down"} => has_agents_table = agents.exists
    /\ pc = "nodes" /\ ~has_agents_table => tasks_has_legacy_agent_id
    /\ pc \in Migrated => ~agents.exists
    /\ pc \in {"copy_agents", "drop_agents"} => agents.exists
    /\ pc = "copy_agents" => nodes.exists
    /\ \A n \in before.nodes : nodes.row[n] # "none" \/ n \in agents.rows
    /\ pc \in Copied => \A n \in agents.rows : nodes.row[n] # "none"

\* What create_schema and ensure_task_column have made so far.
SchemaPart ==
    /\ pc \in {"s_tasks", "s_index", "s_events", "columns", "ready"} => nodes.exists
    /\ pc \in {"s_index", "s_events", "columns", "ready"} => tasks.key = "node_id"
    /\ pc \in {"columns", "ready"} => events
    /\ pc = "ready" => tasks.columns = Column

IInv == TypeOK /\ TasksPart /\ NodesPart /\ SchemaPart

USE DEF NoTable, EmptyNodes, Statement, Window, Before, Copied, Migrated

LEMMA InitIInv == Init => IInv
<1> SUFFICES ASSUME Init PROVE IInv
  OBVIOUS
<1> USE DEF Init
<1>a. OldRows \subseteq Row /\ NoTable \in TaskTables
  BY OldTasksAssumption DEF OldRows, TaskTables, Row
<1>b. \A columns \in SUBSET Column :
        /\ [key |-> "agent_id", columns |-> columns, rows |-> OldRows] \in TaskTables
        /\ [key |-> "node_id", columns |-> columns, rows |-> OldRows] \in TaskTables
  BY <1>a DEF TaskTables
<1>1. /\ agents \in [exists: BOOLEAN, rows: SUBSET Node]
      /\ nodes \in [exists: BOOLEAN, row: [Node -> {"none", "old", "server"}]]
      /\ agents.exists => \A n \in Node : nodes.row[n] # "server"
      /\ ~agents.exists => agents.rows = {}
  <2>1. CASE Fresh
    BY <2>1 DEF Fresh
  <2>2. CASE Legacy
    BY <2>2 DEF Legacy
  <2>3. CASE Former
    BY <2>3 DEF Former
  <2> QED
    BY <2>1, <2>2, <2>3
<1>2. /\ tasks \in TaskTables /\ tasks.rows \in SUBSET Row /\ events \in BOOLEAN
      /\ tasks.key = "none" => tasks.rows = {}
  <2>1. CASE Fresh
    BY <2>1, <1>a DEF Fresh
  <2>2. CASE Legacy
    <3>1. [key |-> "agent_id", columns |-> CopiedColumn, rows |-> OldRows] \in TaskTables
      BY <1>a, OldTasksAssumption DEF TaskTables
    <3>2. tasks = NoTable \/ tasks = [key |-> "agent_id", columns |-> CopiedColumn, rows |-> OldRows]
      BY <2>2 DEF Legacy
    <3>3. tasks.rows \in SUBSET Row /\ (tasks.key = "none" => tasks.rows = {})
      BY <3>2, <1>a
    <3> QED
      BY <2>2, <3>1, <3>2, <3>3, <1>a DEF Legacy
  <2>3. CASE Former
    <3>1. PICK columns \in SUBSET Column :
             tasks = [key |-> "node_id", columns |-> columns, rows |-> OldRows]
      BY <2>3 DEF Former
    <3> QED
      BY <2>3, <3>1, <1>a, <1>b DEF Former
  <2> QED
    BY <2>1, <2>2, <2>3
<1>3. /\ before.tasks = tasks.rows
      /\ before.nodes = agents.rows \cup {n \in Node : nodes.row[n] # "none"}
      /\ before \in [tasks: SUBSET Row, nodes: SUBSET Node]
  BY <1>1, <1>2
<1>4. TypeOK
  <2>a. tasks = NoTable \/ tasks.rows = OldRows
    <3>1. CASE Former
      <4>1. tasks \in [key: {"node_id"}, columns: SUBSET Column, rows: {OldRows}]
        BY <3>1 DEF Former
      <4> QED
        BY <4>1
    <3>2. CASE Fresh
      BY <3>2 DEF Fresh
    <3>3. CASE Legacy
      <4>1. tasks = NoTable \/ tasks = [key |-> "agent_id", columns |-> CopiedColumn, rows |-> OldRows]
        BY <3>3 DEF Legacy
      <4> QED
        BY <4>1
    <3> QED
      BY <3>1, <3>2, <3>3
  <2>b. \A r1, r2 \in OldRows : r1.task_id = r2.task_id => r1 = r2
    BY DEF OldRows
  <2>1. \A r1, r2 \in tasks.rows : r1.task_id = r2.task_id => r1 = r2
    BY <2>a, <2>b
  <2>2. PrimaryKey(tasks) /\ PrimaryKey(tasks_legacy)
    BY <2>1 DEF PrimaryKey
  <2> QED
    BY <1>a, <1>1, <1>2, <1>3, <2>2 DEF TypeOK
<1>5. TasksPart
  <2>1. tasks.key = "agent_id" => CopiedColumn \subseteq tasks.columns
    <3>1. CASE Legacy
      <4>1. tasks = NoTable \/ tasks = [key |-> "agent_id", columns |-> CopiedColumn, rows |-> OldRows]
        BY <3>1 DEF Legacy
      <4> QED
        BY <4>1
    <3>2. CASE Fresh
      BY <3>2 DEF Fresh
    <3>3. CASE Former
      <4>1. tasks \in [key: {"node_id"}, columns: SUBSET Column, rows: {OldRows}]
        BY <3>3 DEF Former
      <4> QED
        BY <4>1
    <3> QED
      BY <3>1, <3>2, <3>3
  <2> QED
    BY <1>2, <1>3, <2>1 DEF TasksPart, NothingDestroyed
<1>6. NodesPart /\ SchemaPart
  BY <1>1, <1>3 DEF NodesPart, SchemaPart
<1> QED
  BY <1>4, <1>5, <1>6 DEF IInv

\* Each statement of open keeps IInv.
LEMMA StatementKeepsIInv == IInv /\ Statements => IInv'
<1> SUFFICES ASSUME IInv, Statements PROVE IInv'
  OBVIOUS
<1> USE DEF IInv, TypeOK, TasksPart, NodesPart, SchemaPart, NothingDestroyed,
            At, disk, locals, history
<1>1. ASSUME NEW here, NEW next, CreateNodesTable(here, next),
             <<here, next>> \in {<<"nodes", IF has_agents_table THEN "copy_agents" ELSE "rename">>,
                                 <<"m_nodes", "m_tasks">>, <<"s_nodes", "s_tasks">>}
      PROVE  IInv'
  BY ZenonT(60), <1>1 DEF CreateNodesTable
<1>2. CASE CopyAgents
  <2>1. nodes' \in [exists: BOOLEAN, row: [Node -> {"none", "old", "server"}]]
    BY <1>2 DEF CopyAgents
  <2> QED
    BY <1>2, <2>1 DEF CopyAgents, AfterAgents
<1>3. CASE RenameTasks
  <2>1. PrimaryKey(tasks)' /\ PrimaryKey(tasks_legacy)'
    BY <1>3 DEF RenameTasks, PrimaryKey
  <2> QED
    BY <1>3, <2>1 DEF RenameTasks, TaskTables
<1>4. ASSUME NEW here, NEW next, CreateTasksTable(here, next),
             <<here, next>> \in {<<"m_tasks", "m_index">>, <<"s_tasks", "s_index">>}
      PROVE  IInv'
  <2>1. tasks' \in TaskTables
    BY <1>4 DEF CreateTasksTable, TaskTables
  <2>2. /\ tasks'.rows = tasks.rows
        /\ tasks'.key = (IF tasks.key = "none" THEN "node_id" ELSE tasks.key)
        /\ tasks'.columns = (IF tasks.key = "none" THEN Column ELSE tasks.columns)
    BY <1>4 DEF CreateTasksTable, TaskTables
  <2>3. UNCHANGED <<agents, nodes, tasks_legacy, events, before, broken, crashes,
                    has_agents_table, tasks_has_legacy_agent_id>>
    BY <1>4 DEF CreateTasksTable
  <2>4. pc = here /\ pc' = next
    BY <1>4 DEF CreateTasksTable
  <2>5. <<pc, pc'>> \in {<<"m_tasks", "m_index">>, <<"s_tasks", "s_index">>}
    BY <1>4, <2>4
  <2>6. TypeOK'
    <3>1. PrimaryKey(tasks)'
      BY <2>2 DEF PrimaryKey
    <3> QED
      BY <2>1, <2>3, <2>5, <3>1
  <2>7. TasksPart'
    <3>1. tasks'.key = "node_id"
      BY <2>2, <2>5 DEF TaskTables
    <3> QED
      BY <2>2, <2>3, <2>5, <3>1
  <2>8. NodesPart' /\ SchemaPart'
    BY <2>1, <2>2, <2>3, <2>5 DEF TaskTables
  <2> QED
    BY <2>6, <2>7, <2>8
<1>5. ASSUME NEW here, NEW next, CreateEventsTable(here, next),
             <<here, next>> \in {<<"m_events", "copy_tasks">>, <<"s_events", "columns">>}
      PROVE  IInv'
  BY <1>5 DEF CreateEventsTable
<1>10. ASSUME NEW here, NEW next, CreateTasksIndex(here, next),
              <<here, next>> \in {<<"m_index", "m_events">>, <<"s_index", "s_events">>}
       PROVE  IInv'
  BY <1>10 DEF CreateTasksIndex
<1>6. CASE CopyTasks
  <2>1. tasks' \in TaskTables /\ tasks'.rows = tasks.rows \cup tasks_legacy.rows
        /\ tasks'.key = tasks.key /\ tasks'.columns = tasks.columns
    BY <1>6 DEF CopyTasks, TaskTables
  <2>2. pc = "copy_tasks" /\ pc' = "drop_legacy"
        /\ UNCHANGED <<agents, nodes, tasks_legacy, events, locals, history>>
    BY <1>6 DEF CopyTasks
  <2>3. PrimaryKey(tasks)'
    BY <2>1, <2>2 DEF PrimaryKey
  <2>4. TypeOK' /\ TasksPart'
    BY <2>1, <2>2, <2>3
  <2> QED
    BY <2>1, <2>2, <2>4
<1>7. CASE DropLegacyTasks
  BY <1>7 DEF DropLegacyTasks, TaskTables, PrimaryKey
<1>8. CASE DropAgents
  BY <1>8 DEF DropAgents
<1>9. CASE EnsureTaskColumn
  <2>1. tasks' \in TaskTables /\ tasks'.rows = tasks.rows /\ tasks'.key = tasks.key
    BY <1>9 DEF EnsureTaskColumn, TaskTables
  <2>2. PrimaryKey(tasks)'
    BY <2>1 DEF PrimaryKey
  <2> QED
    BY <1>9, <2>1, <2>2 DEF EnsureTaskColumn
<1> QED
  BY <1>1, <1>2, <1>3, <1>4, <1>5, <1>6, <1>7, <1>8, <1>9, <1>10 DEF Statements

\* So do the start of a process, the running server and a death.
LEMMA StepKeepsIInv == IInv /\ [Next]_vars => IInv'
<1> SUFFICES ASSUME IInv, [Next]_vars PROVE IInv'
  OBVIOUS
<1>1. CASE Statements
  BY <1>1, StatementKeepsIInv
<1> USE DEF IInv, TypeOK, TasksPart, NodesPart, SchemaPart, NothingDestroyed,
            At, disk, locals, history
<1>2. CASE Start
  BY ZenonT(60), <1>2 DEF Start, NeedsMigration
<1>3. ASSUME NEW n \in Node, RegisterNode(n) PROVE IInv'
  BY <1>3 DEF RegisterNode
<1>4. ASSUME NEW n \in Node, CreateTask(n) PROVE IInv'
  <2> PICK id \in 1..MaxTasks :
         /\ NextTaskId(id)
         /\ tasks' = [tasks EXCEPT !.rows = @ \cup {[task_id |-> id, by |-> "server"]}]
    BY <1>4 DEF CreateTask
  <2>1. tasks' \in TaskTables /\ tasks.rows \subseteq tasks'.rows
        /\ tasks'.key = tasks.key /\ tasks'.columns = tasks.columns
    BY DEF TaskTables, Row
  <2>2. PrimaryKey(tasks)'
    <3>1. tasks'.rows = tasks.rows \cup {[task_id |-> id, by |-> "server"]}
      BY DEF TaskTables
    <3>2. \A row \in tasks.rows : row.task_id # id
      BY DEF NextTaskId, TaskTables, Row
    <3> QED
      BY <3>1, <3>2 DEF PrimaryKey
  <2> QED
    BY <1>4, <2>1, <2>2 DEF CreateTask
<1>5. CASE Crash
  <2>1. pc' = "down" /\ broken' = broken \cup {pc} /\ crashes' = crashes + 1
        /\ pc # "down" /\ has_agents_table' = FALSE /\ tasks_has_legacy_agent_id' = FALSE
        /\ UNCHANGED <<agents, nodes, tasks, tasks_legacy, events, before>>
    BY <1>5 DEF Crash
  <2>5. TypeOK'
    <3>1. pc \in Statement \cup {"ready"}
      BY <2>1
    <3>2. broken' \subseteq Statement \cup {"ready"} /\ crashes' \in Nat
      BY <2>1, <3>1
    <3> QED
      BY <2>1, <3>2
  <2>2. UNCHANGED <<agents, nodes, tasks, tasks_legacy, before>>
        /\ broken \subseteq broken' /\ (pc \in Window => broken' \cap Window # {})
    BY <1>5 DEF Crash
  <2>3. TasksPart'
    BY <2>1, <2>2
  <2>4. NodesPart' /\ SchemaPart'
    BY <2>1, <2>2
  <2> QED
    BY <2>3, <2>4, <2>5
<1>6. CASE UNCHANGED vars
  BY <1>6 DEF vars
<1> QED
  BY <1>1, <1>2, <1>3, <1>4, <1>5, <1>6 DEF Next

\* IInv holds throughout.
LEMMA Inductive == Spec => []IInv
  BY InitIInv, StepKeepsIInv, PTL DEF Spec

-----------------------------------------------------------------------------
\* No row of the older program's tasks is ever destroyed, wherever processes die.
THEOREM OldTasksSurviveOnDisk == Spec => []NothingDestroyed
<1>1. IInv => NothingDestroyed
  BY DEF IInv, TasksPart
<1> QED
  BY <1>1, Inductive, PTL

\* An open database serves the old tasks unless a process died between the rename
\* and the copy.
THEOREM OldTasksServed == Spec => []TasksServed
<1>1. IInv => TasksServed
  BY DEF IInv, TasksPart, TasksServed
<1> QED
  BY <1>1, Inductive, PTL

\* Whatever deaths it has behind it, open never comes to a statement that does not run
\* on the tables it finds.
THEOREM StartsAreNotRefused == Spec => []OpenNeverFails
<1>1. IInv => OpenNeverFails
  BY DEF IInv, TypeOK, TasksPart, NodesPart, SchemaPart, OpenNeverFails, Runs
<1> QED
  BY <1>1, Inductive, PTL

\* The tables and the progress of the migration keep their types, and task_id
\* stays a primary key of both task tables, whatever the process dies before.
THEOREM TypeCorrect == Spec => []TypeOK
<1>1. IInv => TypeOK
  BY DEF IInv
<1> QED
  BY <1>1, Inductive, PTL

\* An open database knows every old node, and has the whole schema.
THEOREM OldNodesServed == Spec => [](NodesKept /\ SchemaReady)
<1>1. IInv => NodesKept /\ SchemaReady
  BY DEF IInv, TypeOK, NodesPart, SchemaPart, NodesKept, SchemaReady
<1> QED
  BY <1>1, Inductive, PTL

\* A row of agents never overwrites what a node registered with this program.
THEOREM RegistrationsKept == Spec => RegistrationKept
<1>1. IInv /\ [Next]_vars =>
        [\A n \in Node : nodes.row[n] = "server" => nodes'.row[n] = "server"]_vars
  <2> SUFFICES ASSUME IInv, Next, NEW n \in Node, nodes.row[n] = "server"
               PROVE  nodes'.row[n] = "server"
    OBVIOUS
  <2>1. CASE CopyAgents
    BY <2>1 DEF CopyAgents, IInv, TypeOK, NodesPart
  <2>2. ASSUME NEW m \in Node, RegisterNode(m) PROVE nodes'.row[n] = "server"
    BY <2>2 DEF RegisterNode, IInv, TypeOK
  <2>3. ASSUME NEW here, NEW next, CreateNodesTable(here, next)
        PROVE  nodes'.row[n] = "server"
    BY <2>3 DEF CreateNodesTable, IInv, TypeOK
  <2> QED
    BY <2>1, <2>2, <2>3 DEF Next, Start, Statements, CreateTasksTable, CreateTasksIndex,
       CreateEventsTable, RenameTasks, CopyTasks, DropLegacyTasks, DropAgents, EnsureTaskColumn, CreateTask,
       Crash, disk
<1> QED
  BY <1>1, Inductive, PTL DEF Spec, RegistrationKept
==============================================================================
