---- MODULE QueryTab ----
(***************************************************************************)
(* Running statements in the query editor (features/query): one run at a   *)
(* time for all tabs, a task that streams what the server sends through a   *)
(* queue, a listener on the application's thread that applies it to the     *)
(* tab, and the ways a run is cancelled, replaced or paused at a statement  *)
(* that failed.  Handlers are steps of the application's thread; the task  *)
(* runs between them.                                                      *)
(*                                                                         *)
(* A statement is named by its run and its place in the script.  A cluster *)
(* is connected throughout: without one nothing starts and nothing is      *)
(* recorded.                                                               *)
(***************************************************************************)
EXTENDS Naturals, Sequences, FiniteSets, SequencesExt

CONSTANTS
    Scripts,      \* what may be run: sequences over {"select", "command"}
    MaxTabs,      \* bound: tabs opened
    MaxRunId,     \* bound: run_id
    MaxBatches,   \* bound: batches of rows of one statement
    MaxRewrites,  \* bound: clicks that rewrite the displayed statement
    None

ASSUME QueryAssumption ==
    /\ Scripts \subseteq Seq({"select", "command"}) \ {<<>>} /\ <<"select">> \in Scripts
    /\ {MaxTabs, MaxRunId, MaxBatches, MaxRewrites} \subseteq Nat /\ MaxTabs # 0
    /\ None \notin Nat

Tabs == 1..MaxTabs
Runs == 1..MaxRunId
OrNone(S) == S \cup {None}

VARIABLES
    query,      \* the state of the editor, next to its tabs
    tab,        \* per tab: outcome, result_rows, displayed_statement, the grid
    task,       \* per run: the task and its listener
    timers,     \* debounced reruns, by rerun_generation
    history     \* statements recorded

vars == <<query, tab, task, timers, history>>

Idle == [outcome |-> "idle", run |-> None, rows |-> 0, displayed |-> FALSE,
         pending |-> FALSE, grid |-> {}]
NoTask == [at |-> "none", tab |-> None, script |-> <<>>, index |-> 1, sent |-> FALSE,
           batches |-> 0, events |-> <<>>, listening |-> FALSE, ok |-> {}]

Init ==
    /\ query = [tabs |-> <<1>>, active |-> 1, opened |-> 1, run_id |-> 0, abort |-> None,
                decision |-> None, rerun_generation |-> 0, rerun_pending |-> FALSE]
    /\ tab = [t \in Tabs |-> Idle]
    /\ task = [r \in Runs |-> NoTask]
    /\ timers = {} /\ history = {}

Open(t) == \E i \in DOMAIN query.tabs : query.tabs[i] = t
ActiveTab == query.tabs[query.active]
HasActive == query.active \in DOMAIN query.tabs
GoingOn == {"running", "statement_error"}
Spinning(t) == tab[t].outcome \in GoingOn

----------------------------------------------------------------------------
\* Cancelling and starting, as what they make of the state

\* The first tab in the strip with one of these outcomes
IsFirst(outcomes, t) ==
    \E i \in DOMAIN query.tabs :
        /\ query.tabs[i] = t /\ tab[t].outcome \in outcomes
        /\ \A j \in 1..(i - 1) : tab[query.tabs[j]].outcome \notin outcomes

\* Mutant of QueryAfterCancel: the decision of the cancelled run stays.
QueryAfterCancelUndecided ==
    IF query.abort = None THEN query ELSE [query EXCEPT !.abort = None, !.run_id = @ + 1]

\* cancel_query
QueryAfterCancel ==
    IF query.abort = None THEN query
    ELSE [query EXCEPT !.abort = None, !.decision = None, !.run_id = @ + 1]

TabAfterCancel(t) ==
    IF query.abort # None /\ IsFirst(GoingOn, t)
    THEN [tab[t] EXCEPT !.outcome = "cancelled"] ELSE tab[t]

Ended == {"ok", "failed", "aborted", "done"}
TaskAfterCancel(r) ==
    IF r = query.abort /\ task[r].at \notin Ended
    THEN [task[r] EXCEPT !.at = "aborted"] ELSE task[r]

Cancel ==
    /\ query' = QueryAfterCancel
    /\ tab' = [t \in Tabs |-> TabAfterCancel(t)]
    /\ task' = [r \in Runs |-> TaskAfterCancel(r)]

\* start_statements, once nothing is in flight: q is the state it starts from.
Start(q, script) ==
    LET r == q.run_id + 1 IN
    /\ query' = [q EXCEPT !.run_id = r, !.abort = r]
    /\ tab' = [t \in Tabs |->
                 IF t = ActiveTab
                 THEN [TabAfterCancel(t) EXCEPT !.outcome = "running", !.run = r, !.rows = 0]
                 ELSE TabAfterCancel(t)]
    /\ task' = [s \in Runs |->
                  IF s = r THEN [NoTask EXCEPT !.at = "begin", !.tab = ActiveTab,
                                               !.script = script, !.listening = TRUE]
                  ELSE TaskAfterCancel(s)]

\* Nothing but blanks in the statements to run
StartEmpty ==
    /\ query' = QueryAfterCancel
    /\ tab' = [t \in Tabs |->
                 IF t = ActiveTab THEN [TabAfterCancel(t) EXCEPT !.outcome = "error"]
                 ELSE TabAfterCancel(t)]
    /\ task' = [r \in Runs |-> TaskAfterCancel(r)]

----------------------------------------------------------------------------
\* The user

MayRun == query.run_id + 1 < MaxRunId

\* run_query and run_selection cancel what is in flight before they look at
\* what there is to run: it may be unusable, nothing, or one statement or more.
Run ==
    /\ MayRun
    /\ UNCHANGED <<timers, history>>
    /\ \/ Cancel
       \/ HasActive /\ StartEmpty
       \/ HasActive /\ \E script \in Scripts : Start(QueryAfterCancel, script)

CancelPressed ==
    /\ query.abort # None /\ query.run_id < MaxRunId
    /\ Cancel
    /\ UNCHANGED <<timers, history>>

\* A header click rewrites the statement and defers its run.
Rewrite ==
    /\ HasActive /\ tab[ActiveTab].displayed
    /\ query.rerun_generation < MaxRewrites
    /\ query' = [query EXCEPT !.rerun_generation = @ + 1, !.rerun_pending = TRUE]
    /\ timers' = timers \cup {query.rerun_generation + 1}
    /\ UNCHANGED <<tab, task, history>>

RerunFires(g) ==
    /\ MayRun
    /\ timers' = timers \ {g}
    /\ UNCHANGED history
    /\ LET due == query.rerun_generation = g /\ query.rerun_pending IN
       \/ ~due /\ UNCHANGED <<query, tab, task>>
       \/ /\ due /\ HasActive
          /\ Start([QueryAfterCancel EXCEPT !.rerun_pending = FALSE], <<"select">>)
       \/ /\ due /\ ~HasActive
          /\ query' = [QueryAfterCancel EXCEPT !.rerun_pending = FALSE]
          /\ tab' = [t \in Tabs |-> TabAfterCancel(t)]
          /\ task' = [r \in Runs |-> TaskAfterCancel(r)]

ToNext(r) == [task[r] EXCEPT !.index = @ + 1, !.at = "begin", !.sent = FALSE]

\* Mutant of Resume: the user's choice does not reach the task.
ResumeUnsent(r, skip) == UNCHANGED task

Resume(r, skip) ==
    task' = [task EXCEPT ![r] = IF @.at # "waiting" THEN @
                                ELSE IF skip THEN ToNext(r) ELSE [@ EXCEPT !.at = "failed"]]

\* resolve_statement_failure
Resolve(skip) ==
    /\ query.decision # None
    /\ query' = [query EXCEPT !.decision = None]
    /\ Resume(query.decision.run, skip)
    /\ tab' = [t \in Tabs |->
                 IF skip /\ IsFirst({"statement_error"}, t)
                 THEN [tab[t] EXCEPT !.outcome = "running"] ELSE tab[t]]
    /\ UNCHANGED <<timers, history>>

\* add_query_tab
NewTab ==
    /\ query.opened < MaxTabs
    /\ query' = [query EXCEPT !.opened = @ + 1, !.tabs = Append(@, query.opened + 1),
                              !.active = Len(query.tabs) + 1]
    /\ UNCHANGED <<tab, task, timers, history>>

SelectTab(i) ==
    /\ query' = [query EXCEPT !.active = i]
    /\ UNCHANGED <<tab, task, timers, history>>

\* Mutant of Closable: a tab closes over its run.
ClosableAlways(t) == TRUE

Closable(t) == ~Spinning(t)

\* close_query_tab: the active tab is an index, and stays one.
CloseTab(i) ==
    /\ Closable(query.tabs[i])
    /\ LET left == RemoveAt(query.tabs, i)
       IN query' = [query EXCEPT !.tabs = left,
                      !.active = IF Len(left) < @ THEN Len(left) ELSE @]
    /\ UNCHANGED <<tab, task, timers, history>>

PushIf(kept, t, set) == IF t \in set THEN Append(kept, t) ELSE kept

\* The tabs of the strip that are in the set, in their order
Kept(tabs, set) ==
    LET kept[i \in 0..Len(tabs)] == IF i = 0 THEN <<>> ELSE PushIf(kept[i - 1], tabs[i], set)
    IN kept[Len(tabs)]

\* close_query_tab_ids, for "close others" and the like: one tab stays in view.
CloseTabs(closed, focus) ==
    /\ closed # {}
    /\ LET left == Kept(query.tabs, {t \in Tabs : t = focus \/ t \notin closed \/ ~Closable(t)})
       IN query' = [query EXCEPT !.tabs = left,
                      !.active = CHOOSE i \in DOMAIN left : left[i] = focus]
    /\ UNCHANGED <<tab, task, timers, history>>

\* reorder_query_tab: the active tab stays active.
ReorderTab(from, to) ==
    /\ from # to /\ HasActive
    /\ LET moved == InsertAt(RemoveAt(query.tabs, from), to, query.tabs[from])
       IN query' = [query EXCEPT !.tabs = moved,
                      !.active = CHOOSE i \in DOMAIN moved : moved[i] = ActiveTab]
    /\ UNCHANGED <<tab, task, timers, history>>

----------------------------------------------------------------------------
\* The task of a run

Event(kind, r) == [kind |-> kind, index |-> task[r].index]
Send(r, kind) == [task[r] EXCEPT !.events = Append(@, Event(kind, r))]
Others == <<query, tab, timers, history>>
IsLast(r) == task[r].index = Len(task[r].script)
IsSelect(r) == task[r].script[task[r].index] = "select"

\* Columns, then rows, of a statement that has a result
Stream(r) ==
    /\ task[r].at = "begin" /\ IsSelect(r)
    /\ task[r].sent => task[r].batches < MaxBatches
    /\ task' = [task EXCEPT ![r] =
                  IF task[r].sent THEN [Send(r, "rows") EXCEPT !.batches = @ + 1]
                  ELSE [Send(r, "columns") EXCEPT !.sent = TRUE, !.batches = 0]]
    /\ UNCHANGED Others

Succeeds(r) ==
    /\ task[r].at = "begin" /\ (IsSelect(r) => task[r].sent)
    /\ LET done == [task[r] EXCEPT !.ok = @ \cup {task[r].index}]
       IN task' = [task EXCEPT ![r] =
                     IF IsLast(r) THEN [done EXCEPT !.at = "ok"]
                     ELSE [done EXCEPT !.index = @ + 1, !.sent = FALSE]]
    /\ UNCHANGED Others

\* The run fails with its last statement, and asks at any other.
Fails(r) ==
    /\ task[r].at = "begin"
    /\ task' = [task EXCEPT ![r] = IF IsLast(r) THEN [@ EXCEPT !.at = "failed"]
                                   ELSE [Send(r, "failed") EXCEPT !.at = "waiting"]]
    /\ UNCHANGED Others

----------------------------------------------------------------------------
\* The listener

Current(r) == query.run_id = r

Heard(r) == [task EXCEPT ![r].events = Tail(@)]

\* Mutant of Appended: rows are added to what the grid shows.
AppendedToAll(t, source) == [tab[t] EXCEPT !.rows = @ + 1, !.pending = FALSE, !.grid = @ \cup {source}]

\* append_rows, with adopt_pending
Appended(t, source) ==
    [tab[t] EXCEPT !.rows = @ + 1, !.pending = FALSE,
                   !.grid = IF tab[t].pending THEN {source} ELSE @ \cup {source}]

Apply(r, t, event) ==
    \/ /\ event.kind = "columns"
       /\ tab' = [tab EXCEPT ![t].rows = 0, ![t].pending = TRUE]
       /\ UNCHANGED query
    \/ /\ event.kind = "rows"
       /\ tab' = [tab EXCEPT ![t] = Appended(t, <<r, event.index>>)]
       /\ UNCHANGED query
    \/ /\ event.kind = "failed"
       /\ tab' = [tab EXCEPT ![t].outcome = "statement_error"]
       /\ query' = [query EXCEPT !.decision = [run |-> r, index |-> event.index]]

Receive(r) ==
    /\ task[r].listening /\ task[r].events # <<>>
    /\ UNCHANGED <<timers, history>>
    /\ IF Current(r) /\ Open(task[r].tab)
       THEN task' = Heard(r) /\ Apply(r, task[r].tab, Head(task[r].events))
       ELSE /\ task' = [task EXCEPT ![r].listening = FALSE, ![r].events = <<>>]
            /\ UNCHANGED <<query, tab>>

\* Mutant of Drained: the end of the task is taken before what it sent.
DrainedOrNot(r) == TRUE

Drained(r) == task[r].events = <<>>

\* history_record of what succeeded; a failed statement, recorded as such,
\* is left out.
Recorded(r) ==
    IF task[r].at = "ok" THEN {<<r, i>> : i \in task[r].ok} ELSE {}

Completed(r, t) ==
    IF task[r].at = "ok"
    THEN [tab[t] EXCEPT !.outcome = "complete", !.pending = FALSE,
                        !.grid = IF tab[t].pending THEN {} ELSE @,
                        !.displayed = @ \/ task[r].ok # {}]
    ELSE [tab[t] EXCEPT !.outcome = "error"]

\* The queue is drained, the task has ended.
Complete(r) ==
    /\ task[r].at \in Ended \ {"done"} /\ Drained(r)
    /\ task' = [task EXCEPT ![r].at = "done", ![r].listening = FALSE, ![r].events = <<>>]
    /\ UNCHANGED timers
    /\ IF Current(r)
       THEN /\ query' = [query EXCEPT !.abort = None, !.decision = None]
            /\ IF Open(task[r].tab)
               THEN /\ tab' = [tab EXCEPT ![task[r].tab] = Completed(r, task[r].tab)]
                    /\ history' = history \cup Recorded(r)
               ELSE UNCHANGED <<tab, history>>
       ELSE UNCHANGED <<query, tab, history>>

----------------------------------------------------------------------------

TaskStep(r) == Stream(r) \/ Succeeds(r) \/ Fails(r)
Listener(r) == Receive(r) \/ Complete(r)

Next ==
    \/ Run \/ CancelPressed \/ Rewrite \/ \E g \in timers : RerunFires(g)
    \/ \E skip \in BOOLEAN : Resolve(skip)
    \/ NewTab \/ \E i \in DOMAIN query.tabs : SelectTab(i) \/ CloseTab(i)
    \/ \E closed \in SUBSET Range(query.tabs), focus \in Range(query.tabs) : CloseTabs(closed, focus)
    \/ \E from, to \in DOMAIN query.tabs : ReorderTab(from, to)
    \/ \E r \in Runs : TaskStep(r) \/ Listener(r)

Spec == Init /\ [][Next]_vars

\* A statement ends, and the application's thread gets to what it is sent.
FairSpec ==
    Spec /\ \A r \in Runs : WF_vars(Succeeds(r) \/ Fails(r)) /\ WF_vars(Listener(r))

----------------------------------------------------------------------------

Outcomes == {"idle", "running", "statement_error", "complete", "error", "cancelled"}
Places == Nat \ {0}
Statements == Runs \X Places

\* Every variable has its type (state.rs), and the active tab is one of the
\* strip while there is one.
TypeOK ==
    /\ query \in [tabs : Seq(Tabs), active : Nat, opened : Tabs, run_id : 0..MaxRunId,
                  abort : OrNone(Runs), decision : OrNone([run : Runs, index : Places]),
                  rerun_generation : 0..MaxRewrites, rerun_pending : BOOLEAN]
    /\ HasActive \/ query.tabs = <<>>
    /\ tab \in [Tabs -> [outcome : Outcomes, run : OrNone(Runs), rows : Nat, displayed : BOOLEAN,
                         pending : BOOLEAN, grid : SUBSET Statements]]
    /\ task \in [Runs -> [at : {"none", "begin", "waiting"} \cup Ended, tab : OrNone(Tabs),
                          script : Scripts \cup {<<>>}, index : Places, sent : BOOLEAN, batches : Nat,
                          events : Seq([kind : {"columns", "rows", "failed"}, index : Places]),
                          listening : BOOLEAN, ok : SUBSET Places]]
    /\ timers \subseteq 1..MaxRewrites /\ history \subseteq Statements

\* A tab shows a run as going on, or paused, just while the run that can
\* still be cancelled is its own: no spinner is left behind by a run that
\* was replaced, and the tab of a run is not closed under it
\* (tabs.rs:100-105, execution.rs:326-328, 541).
SpinnerIsLive ==
    /\ \A t \in Tabs : Open(t) /\ Spinning(t) => query.abort # None /\ task[query.abort].tab = t
    /\ query.abort # None => LET t == task[query.abort].tab
                             IN Open(t) /\ Spinning(t) /\ tab[t].run = query.abort

\* All rows of a grid come from one statement of one run, whatever was
\* cancelled, restarted, skipped or still queued (grid/mod.rs:306 "Keep the
\* old result on screen until the replacement streams in").
GridIsOneResult == \A t \in Tabs : Cardinality(tab[t].grid) <= 1

\* A tab that reports a run complete has applied all the run has sent: it
\* counts the rows of the last result, and shows no other result.
CompleteShowsAll ==
    \A t \in Tabs : tab[t].outcome = "complete" /\ tab[t].run # None =>
        LET r == tab[t].run IN
        /\ tab[t].rows = task[r].batches
        /\ task[r].batches > 0 => \A source \in tab[t].grid : source[1] = r

\* The button that skips a failed statement answers the run in flight, at
\* the statement it waits at and in the tab that shows the failure: never a
\* run that was cancelled meanwhile (controls.rs:116-150).
DecisionIsLive ==
    query.decision # None =>
        LET r == query.decision.run IN
        /\ query.abort = r /\ task[r].at = "waiting" /\ task[r].index = query.decision.index
        /\ tab[task[r].tab].outcome = "statement_error"

\* What the user is offered, to cancel a run or to skip a statement of it,
\* is about the one run there is, in its tab (SpinnerIsLive, DecisionIsLive).
ControlsAreLive == SpinnerIsLive /\ DecisionIsLive

\* A run shown as going on ends, fails, is cancelled or asks the user.
RunsEnd == \A t \in Tabs : tab[t].outcome = "running" ~> tab[t].outcome # "running"
====
