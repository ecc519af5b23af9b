---------------------------- MODULE MonitorPages ----------------------------
(***************************************************************************)
(* The pages of console.rs that watch the server: the nodes page, the      *)
(* runtime page and the page of session events, which their scripts        *)
(* refresh every three seconds, and the page of tasks, which is rendered   *)
(* once; next to sessions that come and go (NodeSessions).                 *)
(*                                                                         *)
(* A behaviour watches one page.  Rendering it and answering a request for *)
(* its lists are sequences of reads: list_nodes reads the rows, and then   *)
(* enrich_node_snapshots looks each node up in the registry.  A slot is    *)
(* one call of the page's refresh function; calls overlap, and end in any  *)
(* order.                                                                  *)
(***************************************************************************)
EXTENDS NodeSessions

CONSTANTS Slot,           \* bound: refreshes that run at the same time
          RuntimeSlot,    \* bound: the same on the runtime page, with its three requests
          NoAnswer,       \* a request that has no answer yet
          NotOk,          \* an answer with !response.ok
          TasksRead,      \* list_recent_tasks(20), ?limit=20
          EventsRead,     \* list_session_events(None, None, 12), ?limit=12
          ResultsShown,   \* take(8), slice(0, 8)
          FilteredRead,   \* 40 on the page of session events
          Kinds,          \* bound: kinds of events that the operator selects
          MaxTasks,       \* bound: tasks
          MaxTroubles     \* bound: peers that misbehave, changes of tasks, edits of the
                          \* filters and requests that fail, all together

ASSUME PagesAssumption ==
    /\ RuntimeSlot \subseteq Slot /\ RuntimeSlot # {}
    /\ Kinds \subseteq EventKind
    /\ {TasksRead, EventsRead, FilteredRead} \subseteq 1..MaxLimit
    /\ ResultsShown \in 1..TasksRead
    /\ {MaxTasks, MaxTroubles} \subseteq Nat

VARIABLES
    page,       \* which page is watched; and the step of the handler that renders it
    read,       \* the lists that handler has read
    filters,    \* the form of the page of session events
    dom,        \* what the page shows
    refresh,    \* the calls of the refresh function
    troubles    \* what is left of MaxTroubles

pageVars == <<page, read, filters, dom, refresh>>
vars     == <<sessionVars, pageVars, troubles>>

\* The lists that a page shows, in the order in which its handler reads them.
PartsOf == [nodes |-> <<"nodes">>, runtime |-> <<"nodes", "tasks", "events">>,
            session_events |-> <<"events">>, tasks |-> <<"tasks">>]

Parts == ToSet(PartsOf[page.kind])

Slots == IF page.kind = "runtime" THEN RuntimeSlot ELSE Slot

Filter == [node : Node \cup {All}, kind : Kinds \cup {All}]
NoFilter == [node |-> All, kind |-> All]

\* What the operator puts into the form.
FormValues == [node : Path \cup {All}, kind : Kinds \cup {All}]

\* The answer to list_nodes: the rows, and as far as they have been looked up whether
\* each of them is online.
NodeList == [rows : Seq(Node), flags : Seq(BOOLEAN)]

Nothing == [nodes |-> NoAnswer, tasks |-> NoAnswer, events |-> NoAnswer]
Idle    == [pc |-> "idle", asked |-> NoFilter, got |-> Nothing]

-----------------------------------------------------------------------------
(* Reads of the server. *)

\* list_nodes: ORDER BY node_id
RowsRead == [rows |-> SetToSeq({n \in Node : rows[n].known}), flags |-> <<>>]

\* enrich_node_snapshots, one node at a time: node_is_online
LookedUp(list) ==
    [list EXCEPT !.flags = Append(@, registry[list.rows[Len(@) + 1]] # NoConn)]

Complete(list) == Len(list.flags) = Len(list.rows)

\* The answer so far, one read later.
ReadOn(answer, part, asked) ==
    CASE part = "nodes"  -> IF answer = NoAnswer THEN RowsRead ELSE LookedUp(answer)
      [] part = "tasks"  -> IF page.kind = "tasks" THEN Reverse(TasksAnswer(tasks, All))
                            ELSE TasksAnswer(tasks, TasksRead)
      [] part = "events" -> EventsAnswer(events, asked.node, asked.kind,
                                IF page.kind = "runtime" THEN EventsRead ELSE FilteredRead)

Answered(answer, part) ==
    /\ answer # NoAnswer
    /\ part = "nodes" /\ answer # NotOk => Complete(answer)

-----------------------------------------------------------------------------
(* What the pages show of the lists, in the renderers of the server and in  *)
(* those of the scripts alike.                                              *)

OnlineNodes(list) ==
    LET Listed == [i \in DOMAIN list.rows |-> [node |-> list.rows[i], online |-> list.flags[i]]]
    IN  Where(Listed, LAMBDA entry : entry.online)

FailedTasks(list) == Where(list, LAMBDA task : task.status \in {"failed", "canceled"})

\* render_nodes_summary, render_nodes_rows; renderNodesSummary, renderNodeRow
NodesDom(got) ==
    [list |-> got.nodes, online |-> Len(OnlineNodes(got.nodes)), total |-> Len(got.nodes.rows)]

\* render_runtime_summary_text, renderRuntimeSummary
RuntimeSummary(got) ==
    [online |-> Len(OnlineNodes(got.nodes)), total |-> Len(got.nodes.rows),
     active |-> Len(ActiveTasks(got.tasks)), failed |-> Len(FailedTasks(got.tasks)), events |-> Len(got.events)]

\* render_runtime_overview_cards, renderOverviewCards
OverviewCards(got) ==
    [online |-> Len(OnlineNodes(got.nodes)), total |-> Len(got.nodes.rows),
     active |-> Len(ActiveTasks(got.tasks)), failed |-> Len(FailedTasks(got.tasks)), last |-> FirstOf(got.events, 1)]

RuntimeDom(got) ==
    [summary |-> RuntimeSummary(got), cards |-> OverviewCards(got),
     nodes |-> OnlineNodes(got.nodes), active |-> ActiveTasks(got.tasks),
     events |-> got.events, results |-> RecentResults(got.tasks, ResultsShown)]

\* render_session_events_summary, render_session_events; renderSummary, renderSessionEvent
EventsDom(got, asked) == [label |-> asked, count |-> Len(got.events), list |-> got.events]

Rendered(got, asked) ==
    CASE page.kind = "nodes"          -> NodesDom(got)
      [] page.kind = "runtime"        -> RuntimeDom(got)
      [] page.kind = "session_events" -> EventsDom(got, asked)
      [] page.kind = "tasks"          -> got.tasks

-----------------------------------------------------------------------------
Init ==
    /\ SessionsInit
    /\ \E kind \in DOMAIN PartsOf : page = [kind |-> kind, pc |-> "loading"]
    /\ read = Nothing
    /\ filters \in IF page.kind = "session_events" THEN FormValues ELSE {NoFilter}
    /\ dom = NoAnswer
    /\ refresh = [r \in Slot |-> Idle]
    /\ troubles = MaxTroubles

TypeOK ==
    /\ SessionsTypeOK
    /\ page \in [kind : DOMAIN PartsOf, pc : {"loading", "open"}]
    /\ filters \in Filter
    /\ read.nodes \in NodeList \cup {NoAnswer}
    /\ \A r \in Slot :
          /\ refresh[r].pc \in {"idle", "fetching"} /\ refresh[r].asked \in Filter
          /\ refresh[r].pc = "idle" => refresh[r] = Idle
          /\ refresh[r].got.nodes \notin {NoAnswer, NotOk} =>
                /\ refresh[r].got.nodes \in NodeList
                /\ Len(refresh[r].got.nodes.flags) <= Len(refresh[r].got.nodes.rows)
    /\ page.pc = "loading" => \A r \in Slot : refresh[r] = Idle
    /\ troubles \in 0..MaxTroubles

-----------------------------------------------------------------------------
(* The server next to the page. *)

Trouble == troubles > 0 /\ troubles' = troubles - 1

ServerStep ==
    /\ \E c \in Conn : \/ /\ Continue(c) \/ PeerStep(c)
                         /\ UNCHANGED troubles
                      \/ /\ Misbehave(c)
                         /\ Trouble
    /\ UNCHANGED pageVars

\* Other handlers: a task is created, handed out, finished or canceled.
TaskMoves ==
    /\ Trouble
    /\ \/ \E n \in Path : Len(tasks) < MaxTasks /\ tasks' = Insert(tasks, n)
       \/ \E n \in Path : QueuedFor(tasks, n) # {} /\ tasks' = Claim(tasks, n)
       \/ \E id \in DOMAIN tasks, outcome \in {"success", "failure"} :
             /\ InProgressOf(tasks, id, tasks[id].node)
             /\ tasks' = SubmitResult(tasks, id, tasks[id].node, outcome)
    /\ UNCHANGED <<conn, registry, rows, events, pageVars>>

-----------------------------------------------------------------------------
(* nodes_page, runtime_page, session_events_page, tasks_page. *)

NextPart == SelectInSeq(PartsOf[page.kind], LAMBDA part : ~Answered(read[part], part))

PageReads ==
    /\ page.pc = "loading" /\ NextPart # 0
    /\ LET part == PartsOf[page.kind][NextPart]
       IN  read' = [read EXCEPT ![part] = ReadOn(@, part, filters)]
    /\ UNCHANGED <<sessionVars, page, filters, dom, refresh, troubles>>

\* The page is shown; its script, if it has one, refreshes at once.
PageOpens ==
    /\ page.pc = "loading" /\ NextPart = 0
    /\ dom' = Rendered(read, filters)
    /\ read' = Nothing
    /\ page' = [page EXCEPT !.pc = "open"]
    /\ IF page.kind = "tasks" THEN UNCHANGED refresh
       ELSE \E r \in Slots : refresh' = [refresh EXCEPT ![r].pc = "fetching", ![r].asked = filters]
    /\ UNCHANGED <<sessionVars, filters, troubles>>

-----------------------------------------------------------------------------
(* refreshNodesPage, refreshRuntimePage, refreshSessionEventsPage. *)

\* The operator types into the form; the script reads it at every refresh.
EditFilters ==
    /\ page = [kind |-> "session_events", pc |-> "open"]
    /\ Trouble
    /\ filters' \in FormValues \ {filters}
    /\ UNCHANGED <<sessionVars, page, read, dom, refresh>>

\* Mutant of CurrentFilters: the script asks for all events.
NoFilters == NoFilter

CurrentFilters == filters

\* setInterval(..., 3000): the next call does not wait for the last.
Tick(r) ==
    /\ page.pc = "open" /\ page.kind # "tasks"
    /\ r \in Slots /\ refresh[r].pc = "idle"
    /\ refresh' = [refresh EXCEPT ![r].pc = "fetching", ![r].asked = CurrentFilters]
    /\ UNCHANGED <<sessionVars, page, read, filters, dom, troubles>>

\* A GET handler of http.rs makes one more of its reads for refresh r.
Serve(r, part) ==
    /\ refresh[r].pc = "fetching" /\ ~Answered(refresh[r].got[part], part)
    /\ refresh' = [refresh EXCEPT ![r].got[part] = ReadOn(@, part, refresh[r].asked)]
    /\ UNCHANGED <<sessionVars, page, read, filters, dom, troubles>>

ServeNotOk(r, part) ==
    /\ refresh[r].pc = "fetching" /\ refresh[r].got[part] = NoAnswer
    /\ Trouble
    /\ refresh' = [refresh EXCEPT ![r].got[part] = NotOk]
    /\ UNCHANGED <<sessionVars, page, read, filters, dom>>

\* Mutant of Returned: the answers are kept for the next call.
ReturnedWithAnswers(r) == [refresh EXCEPT ![r].pc = "idle"]

\* A call of the refresh function returns; its answers were locals.
Returned(r) == [refresh EXCEPT ![r] = Idle]

\* catch (_error) {}: a fetch, or reading the body of an answer, fails.
Abandon(r) ==
    /\ refresh[r].pc = "fetching"
    /\ Trouble
    /\ refresh' = Returned(r)
    /\ UNCHANGED <<sessionVars, page, read, filters, dom>>

\* Mutant of Applied: the nodes are shown whatever happened to the other requests.
AppliedByPart(r) ==
    LET got == refresh[r].got
    IN  IF page.kind = "runtime" /\ got.nodes # NotOk
        THEN [dom EXCEPT !.nodes = OnlineNodes(got.nodes)]
        ELSE IF \E part \in Parts : got[part] = NotOk THEN dom
        ELSE Rendered(got, refresh[r].asked)

\* Mutant of Applied: the label is taken from the form when the answer is there.
AppliedLate(r) ==
    IF \E part \in Parts : refresh[r].got[part] = NotOk THEN dom
    ELSE Rendered(refresh[r].got, filters)

\* if (!nodesResponse.ok || !tasksResponse.ok || !eventsResponse.ok) return;
Applied(r) ==
    IF \E part \in Parts : refresh[r].got[part] = NotOk THEN dom
    ELSE Rendered(refresh[r].got, refresh[r].asked)

Apply(r) ==
    /\ refresh[r].pc = "fetching"
    /\ \A part \in Parts : Answered(refresh[r].got[part], part)
    /\ dom' = Applied(r)
    /\ refresh' = Returned(r)
    /\ UNCHANGED <<sessionVars, page, read, filters, troubles>>

-----------------------------------------------------------------------------
Load == PageReads \/ PageOpens

Run(r) == Tick(r) \/ Apply(r) \/ \E part \in Parts : Serve(r, part)

Fails(r) == Abandon(r) \/ \E part \in Parts : ServeNotOk(r, part)

Next ==
    \/ ServerStep \/ TaskMoves \/ Load \/ EditFilters
    \/ \E r \in Slot : Run(r) \/ Fails(r)

Spec == Init /\ [][Next]_vars

\* Sessions go on by themselves (Continue), the page is rendered, the interval fires
\* and what is asked is answered.  Peers and the operator need not do anything.
FairSpec ==
    /\ Spec
    /\ \A c \in Conn : WF_vars(Continue(c) /\ UNCHANGED <<pageVars, troubles>>)
    /\ WF_vars(Load)
    /\ \A r \in Slot : WF_vars(Run(r))

-----------------------------------------------------------------------------
(* Properties. *)

\* The page of session events shows what it says it shows: the label above the list
\* names the filters that selected it, and the list is what the log held for them at
\* some time, although the form is edited while requests are on their way.
LabelFitsList ==
    page.kind = "session_events" /\ page.pc = "open" =>
        /\ dom.count = Len(dom.list)
        /\ \E i \in 0..Len(events) :
              dom.list = ListSessionEvents(SubSeq(events, 1, i), dom.label.node,
                                           dom.label.kind, FilteredRead)

\* The numbers on the runtime page are those of the lists under them: all of it comes
\* from one refresh, although three requests are made and calls overlap.
RuntimeAgrees ==
    page.kind = "runtime" /\ page.pc = "open" =>
        /\ dom.summary.online = Len(dom.nodes) /\ dom.cards.online = Len(dom.nodes)
        /\ dom.summary.active = Len(dom.active) /\ dom.cards.active = Len(dom.active)
        /\ dom.summary.events = Len(dom.events)
        /\ dom.cards.last = FirstOf(dom.events, 1)
        /\ dom.cards.failed = dom.summary.failed
        /\ Len(FailedTasks(dom.results)) <= dom.summary.failed

\* What a reload would show now.
Current ==
    Rendered([nodes |-> [rows |-> RowsRead.rows,
                         flags |-> [i \in DOMAIN RowsRead.rows |->
                                       registry[RowsRead.rows[i]] # NoConn]],
              tasks |-> ReadOn(NoAnswer, "tasks", filters),
              events |-> ReadOn(NoAnswer, "events", filters)],
             filters)

\* Once the server and the operator have come to rest, a page with a script shows what
\* a reload would show: nodes whose sessions have ended are offline, and edited
\* filters take effect without Apply, though overtaken answers are applied late.
PageCatchesUp == <>[](page.kind # "tasks" /\ page.pc = "open" => dom = Current)
=============================================================================
