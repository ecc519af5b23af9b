------------------------------ MODULE Workspace ------------------------------
(***************************************************************************)
(* The node workspace of the console: the page GET /console/nodes/:node_id *)
(* (node_detail_page), the script it carries (refreshWorkspace every three *)
(* seconds, submitComposer) and the handlers the script calls, next to a   *)
(* server whose tasks, sessions and command catalog go on changing.        *)
(*                                                                         *)
(* A refresh asks for three lists at once, and nothing keeps one refresh   *)
(* from starting before another has ended, so answers are applied in any   *)
(* order.  A slot is one call of refreshWorkspace.  A request is answered  *)
(* by one statement of db.rs at some moment between its send and its       *)
(* answer.  The notice that create_task and cancel_task send to the        *)
(* session is the subject of CommandPlane.                                 *)
(***************************************************************************)
EXTENDS ConsoleReads

CONSTANTS ThisNode,
          Slot,           \* bound: refreshes that run at the same time
          Own,            \* the slot of the call that submitComposer awaits
          NoAnswer,       \* a request that has no answer yet
          NotOk,          \* an answer with !response.ok: 401, 404, 500
          InitialTasks,   \* tasks the table holds when the page is first opened, the
                          \* first of them handed out
          TasksShown,     \* ?limit=20
          FeedShown,      \* slice(-8), take(8)
          EventsShown,    \* ?limit=8
          MaxSubmits, MaxSteps, MaxFailures
                          \* bounds: submissions, other changes on the server,
                          \* requests that fail

ASSUME WorkspaceAssumption ==
    /\ ThisNode \in Node
    /\ Own \in Slot
    /\ {InitialTasks, TasksShown, FeedShown, EventsShown, MaxSubmits, MaxSteps, MaxFailures}
          \subseteq Nat
    /\ FeedShown \in 1..TasksShown /\ {TasksShown, EventsShown} \subseteq 1..MaxLimit

VARIABLES
    tasks,      \* the server's table "tasks"
    conns,      \* how often this node's session opened or closed: gives the registry
                \* and the events of the node (NodeSessions has them change in two steps)
    offered,    \* the node's row still lists the command that the page offers
    page,       \* where node_detail_page or the browser is with the page
    log,        \* the DOM element task-log
    feed,       \* the DOM element dialog-feed
    summary,    \* the DOM elements with the node (is it online?), with its events, and
                \* the select of the composer (was a command rendered into it?)
    latestTasks, pendingMessages, dialogStatus,   \* the script's state
    sending,    \* submitComposer: its step, and the number of the last submission
    refresh,    \* the calls of refreshWorkspace
    inbox,      \* POST /api/v1/tasks on their way: submissions the server has yet to see
    reply,      \* the answer to the submission that the script awaits
    steps, failures   \* what is left of MaxSteps and MaxFailures

serverVars == <<tasks, conns, offered>>
domVars    == <<log, feed, summary>>
scriptVars == <<latestTasks, pendingMessages, dialogStatus>>
netVars    == <<inbox, reply>>
budget     == <<steps, failures>>
vars == <<serverVars, page, domVars, scriptVars, sending, refresh, netVars, budget>>

Part == {"node", "tasks", "events"}

Pending == [id : 1..MaxSubmits, kind : {"pending", "error"}]

EmptyFeed == [confirmed |-> <<>>, pending |-> <<>>]
NoSummary == [node |-> FALSE, command |-> FALSE, events |-> <<>>]
Idle      == [pc |-> "idle", got |-> [part \in Part |-> NoAnswer]]

TypeOK ==
    /\ tasks \in Seq(Task)
    /\ conns \in 0..MaxSteps /\ offered \in BOOLEAN
    /\ page \in {"closed", "node", "tasks", "events", "open"}
    /\ log \in Seq(Snapshot) /\ latestTasks \in Seq(Snapshot)
    /\ feed.confirmed \in Seq(Snapshot) /\ feed.pending \in Seq(Pending)
    /\ summary.node \in BOOLEAN /\ summary.command \in BOOLEAN /\ summary.events \in Seq(Event)
    /\ pendingMessages \in Seq(Pending)
    /\ dialogStatus \in {"none", "unseen", "muted", "success", "error"}
    /\ sending \in [pc : {"idle", "posting", "refreshing"}, id : 0..MaxSubmits]
    /\ sending.pc = "refreshing" <=> refresh[Own].pc # "idle"
    /\ \A r \in Slot : refresh[r].pc \in {"idle", "fetching", "events", "tasks"}
    /\ inbox \subseteq 1..MaxSubmits
    /\ reply \in {"none", "created", "rejected"}
    /\ steps \in 0..MaxSteps /\ failures \in 0..MaxFailures

Init ==
    /\ tasks = [id \in 1..InitialTasks |-> IF id = 1 THEN ClaimedRow(NewRow(ThisNode))
                                                       ELSE NewRow(ThisNode)]
    /\ conns = 0 /\ offered = TRUE
    /\ page = "closed"
    /\ log = <<>> /\ feed = EmptyFeed /\ summary = NoSummary
    /\ latestTasks = <<>> /\ pendingMessages = <<>> /\ dialogStatus = "none"
    /\ sending = [pc |-> "idle", id |-> 0]
    /\ refresh = [r \in Slot |-> Idle]
    /\ inbox = {} /\ reply = "none"
    /\ steps = MaxSteps /\ failures = MaxFailures

-----------------------------------------------------------------------------
(* The server goes on: the node works its tasks off, its session comes and  *)
(* goes, and a new catalog may drop the command (update_node_commands).     *)

TaskMoves ==
    /\ steps > 0 /\ steps' = steps - 1
    /\ \/ /\ QueuedFor(tasks, ThisNode) # {}
          /\ tasks' = Claim(tasks, ThisNode)
       \/ \E id \in DOMAIN tasks :
             /\ InProgressOf(tasks, id, ThisNode)
             /\ tasks' = SubmitResult(tasks, id, ThisNode, "success")
    /\ UNCHANGED <<conns, offered, page, domVars, scriptVars, sending, refresh, netVars,
                   failures>>

SessionChanges ==
    /\ steps > 0 /\ steps' = steps - 1
    /\ conns' = conns + 1
    /\ UNCHANGED <<tasks, offered, page, domVars, scriptVars, sending, refresh, netVars,
                   failures>>

CatalogShrinks ==
    /\ steps > 0 /\ steps' = steps - 1
    /\ offered /\ offered' = FALSE
    /\ UNCHANGED <<tasks, conns, page, domVars, scriptVars, sending, refresh, netVars,
                   failures>>

ServerStep == TaskMoves \/ SessionChanges \/ CatalogShrinks

\* The finally of submitComposer, or a page that was left: the button is enabled.
Settled == [sending EXCEPT !.pc = "idle"]

Online == conns % 2 = 1

Events == [i \in 1..conns |-> [node |-> ThisNode,
                               kind |-> IF i % 2 = 1 THEN "session_opened" ELSE "session_closed"]]

\* What the GET handlers read for the parts of the page.
Answer(part) ==
    CASE part = "node"   -> Online
      [] part = "tasks"  -> NodeTasksAnswer(tasks, ThisNode, TasksShown)
      [] part = "events" -> NodeEventsAnswer(Events, ThisNode, EventsShown)

-----------------------------------------------------------------------------
(* The page is rendered from three reads, one after the other.  A browser   *)
(* that loads it drops the script of the page it had, and with it the       *)
(* refreshes and the submission that script was waiting for; a POST that is *)
(* already on its way is not taken back.                                    *)

OpenPage ==
    /\ page = "closed"
    /\ page' = "node"
    /\ UNCHANGED <<serverVars, domVars, scriptVars, sending, refresh, netVars, budget>>

\* node_detail_page: get_node with enrich_node_snapshot; the options of the composer are
\* the commands of this answer, and no refresh changes them.
PageReadsNode ==
    /\ page = "node"
    /\ summary' = [summary EXCEPT !.node = Online, !.command = offered]
    /\ page' = "tasks"
    /\ UNCHANGED <<serverVars, log, feed, scriptVars, sending, refresh, netVars, budget>>

\* node_detail_page: list_tasks_for_node, from which the log and the feed are rendered
PageReadsTasks ==
    /\ page = "tasks"
    /\ LET list == ListTasksForNode(tasks, ThisNode, TasksShown)
       IN  /\ log' = list
           /\ feed' = [confirmed |-> RenderedFeed(list, FeedShown), pending |-> <<>>]
    /\ page' = "events"
    /\ UNCHANGED <<serverVars, summary, scriptVars, sending, refresh, netVars, budget>>

\* node_detail_page: list_session_events_for_node.  The script starts: the
\* first refreshWorkspace runs and the interval is set.
PageOpens ==
    /\ page = "events"
    /\ summary' = [summary EXCEPT !.events = ListSessionEventsForNode(Events, ThisNode, EventsShown)]
    /\ page' = "open"
    /\ \E r \in Slot \ {Own} : refresh' = [refresh EXCEPT ![r].pc = "fetching"]
    /\ UNCHANGED <<serverVars, log, feed, scriptVars, sending, netVars, budget>>

\* The script comes last in the page: until it runs, the form of the composer posts
\* to create_task_submit, which redirects to the page, or answers with an error page
\* that links back.
FormSubmit ==
    /\ page = "events"
    /\ steps > 0 /\ steps' = steps - 1
    /\ page' = "closed"
    /\ tasks' = IF offered THEN Insert(tasks, ThisNode) ELSE tasks
    /\ log' = <<>> /\ feed' = EmptyFeed /\ summary' = NoSummary
    /\ UNCHANGED <<conns, offered, scriptVars, sending, refresh, netVars, failures>>

\* render_task_timeline_card, renderTaskCard: cards of unfinished tasks have a Cancel button.
CancelOffered(task) == task.status \in Cancelable

\* The Cancel button of a task card: the form of the page posts to
\* cancel_task_submit, which redirects to the page, or answers with an error
\* page that links back when the task has ended in the meantime.
CancelSubmit ==
    /\ page = "open"
    /\ steps > 0 /\ steps' = steps - 1
    /\ \E i \in DOMAIN log :
          CancelOffered(log[i]) /\ tasks' = Cancel(tasks, log[i].id)
    /\ page' = "closed"
    /\ sending' = Settled /\ reply' = "none"
    /\ refresh' = [r \in Slot |-> Idle]
    /\ log' = <<>> /\ feed' = EmptyFeed /\ summary' = NoSummary
    /\ latestTasks' = <<>> /\ pendingMessages' = <<>> /\ dialogStatus' = "none"
    /\ UNCHANGED <<conns, offered, inbox, failures>>

-----------------------------------------------------------------------------
(* refreshWorkspace. *)

\* setInterval(refreshWorkspace, 3000): the next call does not wait for the last.
Tick(r) ==
    /\ page = "open" /\ r # Own /\ refresh[r].pc = "idle"
    /\ refresh' = [refresh EXCEPT ![r].pc = "fetching"]
    /\ UNCHANGED <<serverVars, page, domVars, scriptVars, sending, netVars, budget>>

\* get_node, list_node_tasks or list_node_session_events answers.
Serve(r, part) ==
    /\ refresh[r].pc = "fetching" /\ refresh[r].got[part] = NoAnswer
    /\ refresh' = [refresh EXCEPT ![r].got[part] = Answer(part)]
    /\ UNCHANGED <<serverVars, page, domVars, scriptVars, sending, netVars, budget>>

ServeNotOk(r, part) ==
    /\ refresh[r].pc = "fetching" /\ refresh[r].got[part] = NoAnswer
    /\ failures > 0 /\ failures' = failures - 1
    /\ refresh' = [refresh EXCEPT ![r].got[part] = NotOk]
    /\ UNCHANGED <<serverVars, page, domVars, scriptVars, sending, netVars, steps>>

\* Mutant of Returned: the button stays disabled after the awaited refresh.
NeverReturned(r) == sending

\* The call in slot r is over: submitComposer, if it awaits it, runs its finally.
Returned(r) == IF r = Own THEN Settled ELSE sending

\* Mutant of Abandoned: no catch in refreshWorkspace, submitComposer's catches.
RejectedToCaller(r) ==
    /\ dialogStatus' = IF r = Own THEN "error" ELSE dialogStatus
    /\ UNCHANGED <<latestTasks, pendingMessages>>

\* catch (_error) {}
Abandoned(r) == UNCHANGED scriptVars

\* A fetch, or reading the body of an answer, fails: what was applied stays.
Abandon(r) ==
    /\ refresh[r].pc # "idle"
    /\ failures > 0 /\ failures' = failures - 1
    /\ refresh' = [refresh EXCEPT ![r] = Idle]
    /\ sending' = Returned(r)
    /\ Abandoned(r)
    /\ UNCHANGED <<serverVars, page, domVars, netVars, steps>>

\* Promise.all: the node is applied when all three have been answered.
ApplyNode(r) ==
    /\ refresh[r].pc = "fetching"
    /\ \A part \in Part : refresh[r].got[part] # NoAnswer
    /\ summary' = IF refresh[r].got["node"] = NotOk THEN summary
                  ELSE [summary EXCEPT !.node = refresh[r].got["node"]]
    /\ refresh' = [refresh EXCEPT ![r].pc = "events", ![r].got["node"] = NoAnswer]
    /\ UNCHANGED <<serverVars, page, log, feed, scriptVars, sending, netVars, budget>>

ApplyEvents(r) ==
    /\ refresh[r].pc = "events"
    /\ summary' = IF refresh[r].got["events"] = NotOk THEN summary
                  ELSE [summary EXCEPT !.events = refresh[r].got["events"]]
    /\ refresh' = [refresh EXCEPT ![r].pc = "tasks", ![r].got["events"] = NoAnswer]
    /\ UNCHANGED <<serverVars, page, log, feed, scriptVars, sending, netVars, budget>>

\* updateDialogFeed(tasks)
Redrawn(list, messages) ==
    [confirmed |-> ScriptFeed(list, FeedShown), pending |-> messages]

\* Mutant of Remembered: latestTasks is only set by the first refresh.
RememberedOnce(list) == IF latestTasks = <<>> THEN list ELSE latestTasks

\* latestTasks = tasks
Remembered(list) == list

ApplyTasks(r) ==
    /\ refresh[r].pc = "tasks"
    /\ LET list == refresh[r].got["tasks"]
       IN  IF list = NotOk THEN UNCHANGED <<latestTasks, log, feed>>
           ELSE /\ latestTasks' = Remembered(list)
                /\ log' = list
                /\ feed' = Redrawn(list, pendingMessages)
    /\ refresh' = [refresh EXCEPT ![r] = Idle]
    /\ sending' = Returned(r)
    /\ UNCHANGED <<serverVars, page, summary, pendingMessages, dialogStatus, netVars, budget>>

-----------------------------------------------------------------------------
(* submitComposer, one at a time: the button is disabled until finally.     *)

WithKind(kind, id) ==
    [i \in DOMAIN pendingMessages |-> IF pendingMessages[i].id = id
                                      THEN [pendingMessages[i] EXCEPT !.kind = kind]
                                      ELSE pendingMessages[i]]

\* Mutant of Without: pendingMessages = [], whatever else is in it.
WithoutAny(id) == <<>>

\* Mutant of Without: the accepted message is left in the list.
WithoutNone(id) == pendingMessages

Without(id) == Where(pendingMessages, LAMBDA message : message.id # id)

SubmitComposer ==
    /\ page = "open" /\ summary.command
    /\ sending.pc = "idle" /\ sending.id < MaxSubmits
    /\ LET id == sending.id + 1
       IN  /\ pendingMessages' = Append(pendingMessages, [id |-> id, kind |-> "pending"])
           /\ sending' = [pc |-> "posting", id |-> id]
           /\ inbox' = inbox \cup {id}
    /\ feed' = Redrawn(latestTasks, pendingMessages')
    /\ dialogStatus' = "muted" /\ reply' = "none"
    /\ UNCHANGED <<serverVars, page, log, summary, latestTasks, refresh, budget>>

\* submitComposer without a command to choose: it returns before anything is sent.  It
\* sets the text and the class of the status, but not hidden: an element that was never
\* shown stays "unseen".
SubmitNothing ==
    /\ page = "open" /\ ~summary.command
    /\ sending.pc = "idle"
    /\ dialogStatus' = IF dialogStatus \in {"none", "unseen"} THEN "unseen" ELSE "error"
    /\ UNCHANGED <<serverVars, page, domVars, latestTasks, pendingMessages, sending, refresh,
                   netVars, budget>>

\* create_task of http.rs: the statement checks the catalog of the node's row,
\* which the options of the page may no longer agree with.
CreateTask(id) ==
    /\ id \in inbox /\ inbox' = inbox \ {id}
    /\ tasks' = IF offered THEN Insert(tasks, ThisNode) ELSE tasks
    /\ reply' = IF sending.pc = "posting" /\ sending.id = id
                THEN IF offered THEN "created" ELSE "rejected"
                ELSE reply
    /\ UNCHANGED <<conns, offered, page, domVars, scriptVars, sending, refresh, budget>>

Accepted ==
    /\ sending.pc = "posting" /\ reply = "created"
    /\ pendingMessages' = Without(sending.id)
    /\ dialogStatus' = "success"
    /\ refresh' = [refresh EXCEPT ![Own].pc = "fetching"]
    /\ sending' = [sending EXCEPT !.pc = "refreshing"]
    /\ reply' = "none"
    /\ UNCHANGED <<serverVars, page, domVars, latestTasks, inbox, budget>>

\* Mutant of AfterRejection: the early return comes without the finally.
StillSending == sending

AfterRejection == Settled

\* if (!response.ok)
Rejected ==
    /\ sending.pc = "posting" /\ reply = "rejected"
    /\ pendingMessages' = WithKind("error", sending.id)
    /\ feed' = Redrawn(latestTasks, pendingMessages')
    /\ dialogStatus' = "error"
    /\ sending' = AfterRejection /\ reply' = "none"
    /\ UNCHANGED <<serverVars, page, log, summary, latestTasks, refresh, inbox, budget>>

\* catch: the request is lost on its way, or overtaken by the error, or its answer is lost.
SubmitFails ==
    /\ sending.pc = "posting"
    /\ failures > 0 /\ failures' = failures - 1
    /\ pendingMessages' = WithKind("error", sending.id)
    /\ feed' = Redrawn(latestTasks, pendingMessages')
    /\ dialogStatus' = "error"
    /\ sending' = Settled /\ reply' = "none"
    /\ inbox' \in {inbox, inbox \ {sending.id}}
    /\ UNCHANGED <<serverVars, page, log, summary, latestTasks, refresh, steps>>

-----------------------------------------------------------------------------
Load == OpenPage \/ PageReadsNode \/ PageReadsTasks \/ PageOpens

Run(r) == ApplyNode(r) \/ ApplyEvents(r) \/ ApplyTasks(r) \/ \E part \in Part : Serve(r, part)

Fails(r) == Abandon(r) \/ \E part \in Part : ServeNotOk(r, part)

Handle == \E id \in inbox : CreateTask(id)

Settle == Accepted \/ Rejected

Next ==
    \/ ServerStep \/ Load \/ FormSubmit \/ CancelSubmit
    \/ SubmitComposer \/ SubmitNothing \/ Handle \/ Settle \/ SubmitFails
    \/ \E r \in Slot : Tick(r) \/ Run(r) \/ Fails(r)

Spec == Init /\ [][Next]_vars

\* What goes on without the operator: the browser loads the page that was asked for,
\* the interval of each refresh fires and its answers are applied, the server
\* handles the POST and the script its answer.  Nothing need fail.
FairSpec ==
    /\ Spec
    /\ WF_vars(Load) /\ WF_vars(Handle)
    /\ WF_vars(Settle \/ Run(Own))
    /\ \A r \in Slot \ {Own} : WF_vars(Tick(r) \/ Run(r))

-----------------------------------------------------------------------------
(* Properties. *)

\* As soon as one list of tasks has been applied, the log and the confirmed part of
\* the dialogue show that same list, the dialogue its newest tasks in the order they
\* were created, although the composer redraws the dialogue without the log.
FeedFollowsLog ==
    page = "open" /\ latestTasks # <<>> =>
        /\ log = latestTasks
        /\ feed.confirmed = [i \in 1..Len(feed.confirmed) |->
                                latestTasks[Len(feed.confirmed) + 1 - i]]
        /\ Len(feed.confirmed) = Min({FeedShown, Len(latestTasks)})

Errors(messages) == {message \in ToSet(messages) : message.kind = "error"}

\* What the operator was told about a submission that failed stays in the dialogue
\* until the page is left, whatever refreshes and later submissions draw over it.
FailureStaysVisible ==
    [][page = "open" /\ page' = "open" => Errors(feed.pending) \subseteq Errors(feed.pending')]_vars

\* An operator who was told that the task was accepted is not told afterwards that
\* this submission failed: the refresh that submitComposer awaits fails silently.
AcceptanceStands ==
    [][dialogStatus = "success" => dialogStatus' \in {"success", "muted", "none"}]_vars

\* The Send button comes back: no answer, error or refresh leaves it disabled.
SubmitSettles == sending.pc # "idle" ~> sending.pc = "idle"

\* Each of the newest TasksShown tasks of the node is in the log as it is on the server.
LogCurrent ==
    \A id \in DOMAIN tasks :
        id > Len(tasks) - TasksShown => \E i \in DOMAIN log : log[i] = SnapshotOf(tasks, id)

\* Each of the newest EventsShown events of the node is shown, the newest first.
EventsCurrent ==
    \A i \in DOMAIN Events :
        i > Len(Events) - EventsShown =>
            /\ Len(Events) + 1 - i \in DOMAIN summary.events
            /\ summary.events[Len(Events) + 1 - i] = Events[i]

\* When the server has come to rest and requests no longer fail, a page that stays
\* open shows the newest tasks, the node and its events as they are, even though
\* answers that were overtaken are still applied on the way.
PageCatchesUp ==
    <>[](page = "open" => LogCurrent /\ summary.node = Online /\ EventsCurrent)

\* The bubble of an accepted submission ("submitting task...") does not stay behind.
AcceptedBubbleGoes ==
    <>[](page = "open" /\ sending.pc = "idle" =>
            \A message \in ToSet(feed.pending) : message.kind = "error")
=============================================================================
