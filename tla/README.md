# A verification model of the command plane

This directory holds TLA+ modules about the program in `src/`: a *command
server* (Rust, axum, SQLite) that hands tasks to *command clients* over
WebSockets, and the client that executes them. The modules are checked with TLC;
the theorems are checked with TLAPS.

## 1. The system

| component | state it keeps | operations | what makes it correct |
|---|---|---|---|
| database, `apps/command-server/src/db.rs` | tables `nodes`, `tasks`, `session_events`; one connection behind a mutex | register_node, update_node_commands, create_task, claim_task, acknowledge_task, retry_task, submit_task_result, cancel_task, requeue_incomplete_tasks, queries, legacy migration | columns of a row agree with its status; ended tasks stay ended; oldest first; attempts are numbered without repetition |
| node session, `session.rs` | subscriptions, registered, `in_flight_task`, receiver of `SessionSignal` | handshake, hello, catalog, pull, ack, result, signals, timeout on heartbeat, cleanup | one task per connection; late results do no harm; nothing stays stuck |
| registry, `app_state.rs` | node id -> sender of its session; admin sessions | insert_session, remove_session, notify_node, notify_task_cancel; login, logout, expiry | no lost wakeup; cancels arrive |
| HTTP API, `http.rs` | none | create and cancel a task (database call, then notification), read-only queries | the notification follows the insert |
| console, `console.rs` | in the browser: what a page shows, pending submissions, refreshes under way | login, pages and forms; scripts that refresh every 3 s and submit tasks | what is shown belongs together, stands, and catches up with the server |
| client session, `apps/command-client/src/ws.rs`, `main.rs` | the socket, `running_task` | connect and subscribe, assignment, cancel, close, error, reconnect | one process at a time; the result of what ran is reported |
| client executor, `executor.rs` | child process, output readers, cancel_reason | start, request_cancel, try_wait, finish, read_output | a killed command reports failure; output is cut at a limit |
| protocol crate, `crates/command-protocol` | none | encoding, topics, conversions | stateless |
| authentication, `auth.rs` | tokens, fixed at the start | compare a token with that of the path's node | only a node's owner writes its row |
| bootstrap, configuration | none | fetch the WebSocket URL, parse options | stateless |

Components interact through SQLite (survives a crash of the server), through the
registry's unbounded channels, and through the frames of one WebSocket per
session. What is hard here: the sessions of one node overlap, because a client
reconnects without waiting for the server to notice that the old connection is
gone; handlers make several database calls and others run in between; HTTP
handlers change a row first and notify afterwards; timeouts, cancels and results
of the same task race; either side can lose its peer or crash. `PROJECT.json`
lists these hazards line by line with the properties that would catch each.

## 2. The modules

| module | what it models |
|---|---|
| `TaskTable` | rows of `tasks` and every statement that writes them, as operators from a table to a table |
| `TaskLifecycle` | the abstract promise: tasks are submitted, handed out oldest first, taken back, finished or canceled, and then never change |
| `TaskStore` | `Database` under arbitrary concurrent callers: one action per method, any arguments |
| `CommandPlane` | one node end to end: handlers, registry, overlapping sessions, frames in flight, the client and its processes, and faults |
| `NodeSessions` | connections of several nodes: upgrade, Connect and token, ConnAck, registry, hello, the tables `nodes` and `session_events`, the end |
| `ConsoleReads` | the SELECT statements, the GET handlers around them, and what pages derive from the lists |
| `Workspace` | the node page: its rendering, `refreshWorkspace`, `submitComposer`, the forms and the handlers they call |
| `MonitorPages` | the nodes, runtime, session-events and tasks pages with their refresh functions; extends `NodeSessions` |
| `AdminSession` | login, logout and the check of `ru_admin_session` under a wall clock that drifts and is set |
| `Migration` | `Database::open` on an older file, statement by statement, with crashes and repeated starts |
| `Lists` | how lists are selected and cut by queries and pages |
| `MCTaskStore`, `MCCommandPlane`, `MCAdminSession` | symmetry sets for TLC |
| `MCMonitorPages` | `MonitorPages`, and TLC's comparison of the selections of `Lists` with `SelectSeq` |
| `DataProofs` | lemmas about rows, tables and lists that the other proofs cite |
| `TaskStoreProofs`, `CommandPlaneProofs`, `NodeSessionsProofs`, `MonitorPagesProofs`, `WorkspaceProofs`, `AdminSessionProofs`, `MigrationProofs` | the theorems about the module of that name |

`TaskTable` is under `TaskStore`, `CommandPlane` and, through `ConsoleReads`, under
the pages, so all of them run the same statements. `NodeSessions` is composed with
the pages in `MonitorPages`. What a session does with tasks between hello and end
is `CommandPlane`'s subject, how it begins and ends `NodeSessions`'s.

How state and actions correspond to the code:

* A row's `task_id` is its index: ids are AUTOINCREMENT and nothing deletes rows.
  `*_at_unix_secs` columns are booleans (NULL or set). `canceled` stands for
  the four columns that are always written together, `result` for the success
  flag in `result_json`. `create_task` of `CommandPlane` does not repeat the
  check of the command's name that `TaskStore` has.
* Every `Database` method holds the mutex from its first statement to its last,
  so it is one action. `issued` (TaskStore) and `starts` (CommandPlane) are
  history variables: nothing reads them but properties.
* In `CommandPlane` a connection is a slot with a session (`ses`), its signal
  channel (`sig`), frames in both directions (`up`, `down`) and `conn`.
  `ses[s].pc` is `open` in `select!`, `dispatch` between the database call of a
  handler and the `try_dispatch_next_task` it ends with, `closing` between
  `remove_session` and `requeue_incomplete_tasks`. A claim, the frame it sends and
  the assignment to `in_flight_task` are one step: only the session itself reads
  that variable, and frames are only appended. `cancel_requested` is not a
  variable of its own: it is true exactly when `ignore_result` is.
* `requeue_incomplete_tasks` and `register_node` in the hello handler are one
  step: the second writes only `nodes`, which no session reads back.
* `notices` are calls of `notify_node` and `notify_task_cancel` that a handler
  still owes between its database call and its notification.
* A send on a dead connection goes nowhere. When a send does report the error the
  code leaves its loop; `Leave` and `ClientError` are enabled in that state, so
  both outcomes are covered. A cut keeps frames that were already received and
  may lose any suffix of them, since the reader may stop at any point.
* The client's process either exits by itself or is killed; when `run_ws_session`
  returns because of an error the child is dropped alive (`orphans`).
* Fully outside `src/` (marked external in `PROJECT.json`): cuts of the network,
  crashes of the server process, exit of orphans.

Of the newer modules:

* `Migration`: SQLite commits every statement by itself since `open` starts no
  transaction, so each is a step, and `Crash` may come before any of them.
  `Runs` says what each statement needs of the tables (RENAME a free name, the
  copies both tables and their columns, DROP a table that is there). Where it does
  not hold `open` returns the error and `main` ends: nothing but `Crash` is left,
  and `OpenNeverFails` says that this never comes to pass. A full disk is a crash.
  An older program's `tasks` is assumed to have every column that the copy names;
  the copy of one without would fail at every start.
  Rows are their `task_id` and the program that wrote them.
* `AdminSession`: `unix_now` is true time plus `drift`; a login reads the clock,
  draws a number and inserts in three steps, a check reads the clock before it
  takes the lock. `Restart` empties the map and resets the counter.
* `Workspace` and `MonitorPages`: a refresh is a record of what it asked and what
  has been answered. A request is answered by the reads of its handler at any
  moment after it was sent; `list_nodes` takes one read for the rows and one look
  into the registry for each node. Answers are applied in any order, and calls of
  the refresh function overlap, since `setInterval` waits for nobody.
  The composer of a node page has the commands that were in the row when it was
  rendered; without any, `SubmitNothing` is what the button does, and its message is
  never seen, because the code sets the text of an element that it leaves hidden.
  Rendering abstracts rows to id, node, status and kind; wording, layout and
  escaping are left out. Every handler's admin check is `ServeNotOk`.
* `NodeSessions`: whoever connects chooses the node in the path, the id and the
  token in Connect and the id in the hello. `rows` remembers which token its
  writer had shown, be it a hello (`RegisterNode`) or a catalog (`ReceiveCatalog`).
  A server without a shared token (`HasShared`) refuses a node that has none of its
  own. A failing `register_node` breaks the loop between two steps
  of a hello; other failing statements are ignored by the code (`let _ =`) or
  end the session where a dead socket does.

Definitions called *Mutant of X* in the modules are plausible bugs of X. No
action uses them; each is substituted for X to see that a property notices.

## 3. What is checked

Safety (S), action property (A), liveness (L).

| run | instance | properties |
|---|---|---|
| `task_store` | 2 nodes, 3 tasks, 1 retry, 1 command | S `RowsConsistent`, `IssuedMatchesTable`; A `FreshAttempts`, `RequeueTakesAll`; refinement `ImplementsLifecycle` |
| `plane_serial` | 1 slot, 2 tasks, any 2 of a fault, a timeout, a cancel | S `InFlightInProgress`; refinement `ImplementsLifecycle` |
| `plane_overlap` | 2 slots, 2 tasks, 1 fault and 1 timeout | S `OneTaskPerConnection`, `NothingStuck`, `NoLostWakeup`, `StartsCounted` |
| `plane_live` | 2 slots, 1 task, any 2 of a fault, a timeout, a cancel | S `CancelOnItsWay`; L `EveryTaskEnds`, `CancelStopsProcess` |
| `sessions` | 2 nodes, 1 without a token, 3 connections, hellos until 6 events are logged | S `NoGhostSession`, `RowsWrittenByOwner`; L `OrphanEnds` |
| `monitor` | 2 nodes, 1 connection, 2 tasks, 2 refreshes at a time (1 on the runtime page), 1 trouble | S `LabelFitsList`, `RuntimeAgrees`; L `PageCatchesUp` |
| `workspace` | a ticking and an awaited refresh, 2 submissions, 1 change on the server, 1 failing request, 1 task at the start | S `FeedFollowsLog`; A `FailureStaysVisible`, `AcceptanceStands`; L `SubmitSettles`, `PageCatchesUp`, `AcceptedBubbleGoes` |
| `admin` | 2 browsers, 1 check, ttl 2 in 5 ticks, drift at most 1, 1 restart or setting of the clock, 2 logins | A `EndedStaysEnded`, `AcceptedIsYoung`, `HonouredWithinTtl` |
| `migration` | 1 node, 2 old tasks, 1 new one, 2 added columns, 3 crashes | S `NothingDestroyed`, `TasksServed`, `NodesKept`, `OpenNeverFails`; A `RegistrationKept` |

One run of each module also checks its type invariant; that of `MonitorPages`
contains that of `NodeSessions`.

Why the bounds are enough: one fault makes a stale session and its successor (two
slots), the shape of every takeover; a second task is what a wrongly free session
would pick up; one timeout or cancel is what a late result races with. Two
nodes and three tasks in `task_store` give head-of-line order and a requeue that
must leave another node alone. In `plane_live` a stale
session's timeout falls beside a takeover and puts a row back into the queue that
no notice speaks of. Three connections in `sessions` are a session, the
one that replaces it and the one that the end of the first orphans. Two
refreshes let a later answer overtake an earlier one; each has its own
answers and shows them in one step, so a third adds no new order. The limits of
the lists are so small that lists are cut. In `migration` a second and third
crash hit what an interrupted migration has left, so that later starts meet every
half of a migration. In `admin` true time passes
`Ttl + 2 * MaxDrift`, so a session can outlive its ttl. A *trouble* of `monitor` is a thing that need not happen: a misbehaving peer, a request that fails, an edit of
the form, a task created, claimed or finished.

`CHECK_DEADLOCK FALSE` is set where the system may stop: an idle `CommandPlane`
whose budgets are used waits; connections and logins are finitely many; the
page of tasks has no script.

Fairness. `ServerFairness`: a session whose loop is in `select!` gets a turn when
it has a frame or a signal (weak fairness of the session as a whole, since
`select!` picks among ready branches), leaves when its socket is dead (both ends
send pings, so a write fails eventually) or its sender was dropped, and finishes
its cleanup; an HTTP handler that has changed a row goes on to notify.
`ClientFairness`: the reconnect loop, the read loop, and detection of a dead
socket. `KilledExits`: a killed child exits. `CommandsEnd`: a command ends by
itself, unless its task is canceled, so that `CancelStopsProcess` owes the end of
a canceled process to the cancellation alone. Faults, timeouts and
cancels carry no fairness and are finite: a timeout that is always shorter than
the command retries it for ever, and no property claims otherwise.
`SessionsSpec`: a session's task goes on while it need not wait for its peer.
`Workspace` and `MonitorPages`: the browser loads the page and fires the interval,
the server answers, the script applies; neither the operator nor a peer need do
anything, and no request need fail.

`InFlightInProgress` is checked with one slot because it is false with two: that
is the finding `lost_result` below. For the same reason a *node*, unlike a
connection, may have two tasks in progress while a stale session lives.

### Disagreements with the documents

Three runs are expected to fail, each on one sentence of a document or a test.

* `orphan` (`OneProcessPerClient`): after a socket error the client drops its
  child alive, reconnects, and starts the task again next to it.
* `lost_result` (`ResultClosesTask`): a stale session's requeue resets the row of
  the task that the registered session is running; its result is dropped and
  the task runs again.
* `migration_listed` (`MigratedTasksListed`): a process that dies between
  `ALTER TABLE tasks RENAME` and the copy leaves the old tasks in `tasks_legacy`,
  where no later start looks. `TasksServed` is the other side: a death anywhere
  else hides no task.

## 4. What is proved

Each type invariant, safety invariant and action property of the passing runs is
a theorem for all values of the constants, from the assumptions that the modules
name (bounds are natural numbers, the value that stands for "none" is not one of
the things it could be confused with). `InFlightInProgress` has one hypothesis
more, one slot, for the reason given in section 3. Both refinements are proved.

Each proof has one inductive invariant (`IInv`), whose parts are named; a part is
kept by every step given the parts it rests on, and the properties follow.

**`DataProofs`** treats rows (`RowsStayConsistent`, `AttemptsOfRow`), then tables
(`NextTaskIsOldest`, and what a statement does to the phases of
`TaskLifecycle`), then lists. Lists are built by `Joined` rather than
`SelectSeq`, of which the provers know nothing; what a selection returns
(`LatestOfNewest`) is shown through the place at which each piece begins. Where
an argument goes by induction it takes a least counterexample, since `<` is
well-founded on the naturals: the theorems of induction have an operator as a
parameter, which the provers cannot instantiate.

**`TaskStoreProofs`**, from `StoreAssumption` and `NoNodeAssumption` (the absent row
is not a catalog). `IInv == TypeOK /\ RowsConsistent /\ IssuedExact`, where
`IssuedExact` is `IssuedMatchesTable` for all attempts, not only those below the
bound. `RowsConsistent` is not optional: that a taken-back task had a dispatch
stamp is what makes `retry_count` plus the stamp an exact count of deliveries.
From it `TypeCorrect`, `RowsAlwaysConsistent`, `DeliveriesMatchTable`,
`AttemptsNeverRepeat`, `RequeueLeavesNone` (a row in progress never has
`finished_at`, so the filter of the requeue excludes none) and `Refinement`.

**`CommandPlaneProofs`**, for any number of slots, tasks, faults, timeouts and cancels,
from `PlaneAssumption`. Lemmas named `...Goes` say what an action does to the
session that takes it and that it leaves the other slots alone; the rest cites
these. The parts of `IInv`:

* `Wired`: only the client's slot has a live socket, a session that left its loop
  reads nothing more, the registry names a session in its loop.
  `Greeted`: a session reads one hello at most, and has nothing in flight before it.
* `Rows`, `Listed`: rows are consistent and the task in flight is one of them.
* `ToldRightly` and `Held`. `NothingStuck` alone is not inductive: `Held` adds that
  once the registered session has said hello, a row in progress is held by a session
  *in its loop*, for a closing one requeues before it goes. It gives `NothingIsStuck`.
* `Woken`: `NoLostWakeup` also while other sessions close, because each of them
  still owes a requeue that may put a task back into the queue. It gives `WakeupsNotLost`.
* `CarriesOne`: a working connection has its one task at one place, an assignment
  going down, the process, or a result going up, and then it is the task in
  flight. It gives `ConnectionCarriesOne`.
* `Owed` and `Sent`, the two halves of a cancel: the registered session is about to
  be told, and a session that ignores its task has told the client, behind any
  assignment still under way. They give `CancelReachesProcess`.
* `StartsExact`: starts, plus the assignments of that task on any one connection, do not
  exceed the deliveries of the row. It gives `StartsAreCounted`; a bound on the starts
  alone says nothing about the frame that is read next.

`Refinement` maps every step to a step or a stutter of `TaskLifecycle` with several
overlapping sessions; the runs check it with one slot. `ViewsAgree` adds `Alone` (a
session in its loop is the registered one) and `Agreed`.

**`NodeSessionsProofs`**, for any number of nodes and connections, from
`SessionsAssumption` (the node of a path is a node; the shared token is not a
node's own): `NoGhosts` and `OwnersWriteRows`. `RowsWrittenByOwner` needs `Shown`:
from Connect on a connection's token is that of its path, and its hello names
the same node. A catalog needs no such care, for it is written to the row of the
path. `NoGhostSession` is inductive with the types: each entry names a
session of that very node, so `remove_session(node)` removes the only entry its
caller can have.

**`MonitorPagesProofs`** builds on that invariant, from `PagesAssumption` and
`ReadsAssumption` as well. What must be added is what a call has *so far*
(`Calls`): a list of events that has been answered was in the log at some time,
for the filters that were asked, which may no longer be those of the form; a list
of nodes never has more flags than rows. `Reads` says it of the handler that
renders the page. From it `PagesTypeCorrect`, `LabelFits` and
`RuntimeNumbersAgree`. `NewestSelected` says what then stands under the label:
the newest events that pass both filters, newest first, none left out.

**`WorkspaceProofs`**, from `WorkspaceAssumption` and `ReadsAssumption`. `Drawn` (log
and dialogue are drawn from `latestTasks` once there are any) gives
`LogAndDialogueAgree`. `Bubbles` (the message on its way is pending; what
the dialogue shows as failed is still in the script's list) and `Closed` (no script,
no state) give `FailuresStay`; with `Options` (a page without a command sends nothing)
they give `AcceptedStays`. `NewestTasks` and
`NewestEvents` say what the two lists of the page hold.

**`AdminSessionProofs`**, from `AdminAssumption`. `Fresh` (no number is drawn twice by a
process) gives `EndedIsFinal`; `Dated` (stored and compared times are near true
time) gives `AcceptedAge` and `RefusedAge`, with the bounds `Ttl + 2 * MaxDrift` and
`Ttl - 2 * MaxDrift`. `Drawn` keeps the counter within `MaxLogins`, and needs the
logins that have yet to draw, as a finite set.

**`MigrationProofs`**, for every set of nodes, columns and old tasks and any number of
crashes, from `OldTasksAssumption`: `TypeCorrect`, `OldTasksSurviveOnDisk`,
`OldTasksServed`, `StartsAreNotRefused`, `OldNodesServed` (which also proves `SchemaReady`: an opened
database has every table and column) and `RegistrationsKept`. `IInv` says for each
statement what the tables hold when the process is about to run it, which is why
`Runs` holds there: a legacy `tasks` and a `tasks_legacy` are never in the file at
the same time, so the name of the RENAME is free.
`TasksServed` speaks of opened databases only; what is inductive is that outside the
five statements between rename and copy the old rows are in `tasks` if no
process died inside them, and that `tasks_legacy` is dropped only when `tasks`
holds its rows.

Only model-checked: the liveness properties (`EveryTaskEnds`, `CancelStopsProcess`,
`OrphanEnds`, `PageCatchesUp` of both pages, `SubmitSettles`,
`AcceptedBubbleGoes`), since fairness is out of the prover's
reach; and that `Where` and `Newest` are `SelectSeq`, for lists up to four elements.

## 5. What is not modelled, and the plan

Not modelled: output capture of the executor, which clock reading ends up in which
row, the client's end of the handshake, the protocol page and the login pages
(their effect is in `AdminSession`), layout and wording, encoding of frames,
bootstrap and configuration (start-up code without state), and errors of the
database other than those named above.

Next, in this order:

1. `OutputCapture`: `read_output` against "the prefix of length MAX and whether
   anything was cut", over chunked inputs, with a proof of the loop invariant.
2. The client's end of the handshake, with a server that never answers.
3. Attempts in frames: what a recorded result says about the delivery it came from.
4. Further facts about the proved modules: that each submission adds one task at most
   and is drawn once; how many tasks of a node are in progress at a time.
