---------------------------- MODULE ConsoleReads ----------------------------
(***************************************************************************)
(* The SELECT statements of db.rs, the GET handlers of http.rs around      *)
(* them, and what the pages of console.rs derive from the lists they get.  *)
(*                                                                         *)
(* A page tells apart the id, the node and the status of a task and the    *)
(* node and the kind of a session event; the other columns are carried     *)
(* along unread.  An event's event_id is its index (AUTOINCREMENT, no      *)
(* statement deletes a row).  Both lists are newest first, except          *)
(* ListTasks.                                                              *)
(***************************************************************************)
EXTENDS TaskTable, Lists

CONSTANTS All,            \* a filter that was left out (NULL in the statement)
          DefaultLimit,   \* unwrap_or(20)
          MaxLimit        \* clamp(1, 100)

ASSUME ReadsAssumption ==
    /\ DefaultLimit \in 1..MaxLimit /\ MaxLimit \in Nat
    /\ All \notin Node /\ All \notin Nat

EventKind == {"connect_rejected", "auth_failed", "session_opened", "node_registered",
              "session_closed"}
Event == [node : Node, kind : EventKind]

Snapshot == [id : Nat \ {0}, node : Node, status : Status]

-----------------------------------------------------------------------------
(* Tasks. *)

SnapshotOf(t, id) == [id |-> id, node |-> t[id].node, status |-> t[id].status]

\* ORDER BY task_id
ListTasks(t) == [id \in DOMAIN t |-> SnapshotOf(t, id)]

ListRecentTasks(t, limit) == FirstOf(Reverse(ListTasks(t)), limit)

\* Mutant of ListTasksForNode: DESC is missing.
OldestTasksForNode(t, n, limit) ==
    FirstOf(Where(ListTasks(t), LAMBDA task : task.node = n), limit)

ListTasksForNode(t, n, limit) ==
    FirstOf(Newest(Len(t), LAMBDA id : t[id].node = n, LAMBDA id : SnapshotOf(t, id)), limit)

-----------------------------------------------------------------------------
(* Session events. *)

ListSessionEvents(log, n, kind, limit) ==
    LET Selected(id) == n \in {All, log[id].node} /\ kind \in {All, log[id].kind}
    IN  FirstOf(Newest(Len(log), Selected, LAMBDA id : log[id]), limit)

ListSessionEventsForNode(log, n, limit) ==
    FirstOf(Newest(Len(log), LAMBDA id : log[id].node = n, LAMBDA id : log[id]), limit)

-----------------------------------------------------------------------------
(* The GET handlers: limits are clamped, the list of all tasks has none     *)
(* unless the query asks for one.                                           *)

PageLimit(limit) == IF limit = All THEN DefaultLimit ELSE Max({1, Min({limit, MaxLimit})})

NodeTasksAnswer(t, n, limit) == ListTasksForNode(t, n, PageLimit(limit))

NodeEventsAnswer(log, n, limit) == ListSessionEventsForNode(log, n, PageLimit(limit))

EventsAnswer(log, n, kind, limit) == ListSessionEvents(log, n, kind, PageLimit(limit))

TasksAnswer(t, limit) ==
    IF limit = All THEN ListTasks(t)
    ELSE ListRecentTasks(t, Max({1, Min({limit, MaxLimit})}))

-----------------------------------------------------------------------------
(* What the pages derive from the lists. *)

\* render_runtime_active_tasks, renderActiveTasks
ActiveTasks(list) == Where(list, LAMBDA task : task.status \in Cancelable)

\* render_runtime_recent_results, renderRecentResults: slice(0, 8)
RecentResults(list, n) ==
    FirstOf(Where(list, LAMBDA task : task.status \in Terminal), n)

\* render_dialog_feed of the server: reversed, and then the FIRST n, the oldest.
RenderedFeed(list, n) == FirstOf(Reverse(list), n)

\* renderDialogFeed of the script: reversed, and then the LAST n, the newest.
ScriptFeed(list, n) == LastOf(Reverse(list), n)
=============================================================================
