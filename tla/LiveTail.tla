---- MODULE LiveTail ----
(***************************************************************************)
(* The live tail of one tab (features/query/tail_controller): a timer that *)
(* polls for the rows above the last key seen, an upgrade to a stream or   *)
(* to a live view that pushes, the fall back from one to the other, and    *)
(* the edits, pauses, node switches and lost connections in between.       *)
(* Handlers are steps of the application's thread; polls, upgrades and     *)
(* edits are answered between them, in any order.                          *)
(*                                                                         *)
(* A table is the number of its rows, their keys are 1..n.  A row on show  *)
(* is named by the query, the node and the key it was read with.  There is *)
(* one connection; being connected elsewhere is not being connected.       *)
(*                                                                         *)
(* What a poll reads is read as it lands: rows that came in between are    *)
(* the next poll's.  Timers, probes and receivers that find their tail     *)
(* gone, of another generation or with another stream or live view, do     *)
(* nothing and end: only those of the tail as it is now are kept.          *)
(***************************************************************************)
EXTENDS Naturals, Sequences, FiniteSets, SequencesExt, FiniteSetsExt

CONSTANTS
    Nodes,          \* nodes of the connection, each with its own table
    Home,           \* the node that is active at first
    InitialRows,    \* rows of each table at first
    Burst,          \* rows of one insert
    Table,          \* the query a tail opens with
    Edited,         \* queries it may be edited to
    Experimental,   \* values the streaming preference may have
    Seed,           \* TAIL_SEED
    Limit,          \* query.limit, rows of one poll
    Cap,            \* cap, rows the grid keeps
    MaxRows,        \* bound: rows of all tables
    MaxPolls,       \* bound: polls of one generation in flight
    MaxEpochs,      \* bound: next_stream_epoch
    MaxGenerations, \* bound: next_tail_generation
    MaxEdits,       \* bound: edited queries validated
    None

Queries == {Table} \cup Edited
Keys == Nat \cup {None}
Streams == [epoch : Nat, query : Queries, seen : Nat]
Watches == [epoch : Nat, seen : Keys]
Tails ==
    [query : Queries, last : Keys, push : {"Poll", "Fast", "Watch", "Stream"},
     stream : Streams \cup {None}, connecting : BOOLEAN,
     watch : Watches \cup {None}, rejected : BOOLEAN, generation : Nat,
     paused : BOOLEAN, available : BOOLEAN \cup {None}]
Polls == [generation : Nat, query : Queries, from : Keys, node : Nodes]
Setups == [epoch : Nat, generation : Nat, query : Queries, from : Keys, node : Nodes,
           streamed : BOOLEAN, view : BOOLEAN]
Edits == [generation : Nat, query : Queries, node : Nodes]

ASSUME TailAssumption ==
    /\ Home \in Nodes /\ InitialRows \in [Nodes -> Nat]
    /\ {Burst, Seed, Limit, Cap, MaxRows, MaxPolls, MaxEpochs, MaxGenerations} \subseteq Nat \ {0}
    /\ MaxEdits \in Nat /\ Cap >= Seed
    /\ Experimental \subseteq BOOLEAN /\ Experimental # {}
    /\ None \notin Nat \cup Nodes \cup BOOLEAN \cup Streams \cup Watches \cup Tails

VARIABLES
    server,     \* rows of each node's table
    views,      \* live views on the servers, as <<node, epoch>>
    connected,  \* the active node, or None
    tail,       \* TailState of the tab, or None
    grid,       \* rows on show, newest first: <<query, node, key>>
    counters,   \* next_tail_generation, next_stream_epoch; edits so far
    polls,      \* polls in flight, in the order they were started
    setups,     \* upgrades in flight
    edits,      \* edited queries being validated
    strays      \* history: rows that landed on a tail that had moved on since it
                \* began or was last edited ("rows"), live views left behind ("views")

vars == <<server, views, connected, tail, grid, counters, polls, setups, edits, strays>>

----------------------------------------------------------------------------
\* Types

TypeOK ==
    /\ server \in [Nodes -> Nat] /\ views \subseteq Nodes \X Nat
    /\ connected \in Nodes \cup {None} /\ tail \in Tails \cup {None}
    /\ grid \in Seq(Queries \X Nodes \X Nat)
    /\ counters \in [generation : Nat, epoch : Nat, edits : Nat]
    /\ polls \in Seq(Polls) /\ setups \subseteq Setups /\ edits \subseteq Edits
    /\ strays \subseteq {"rows", "views"}

----------------------------------------------------------------------------
\* native_available is None while the port is probed
Fresh(query, generation) ==
    [query |-> query, last |-> None, push |-> "Poll", stream |-> None, connecting |-> FALSE,
     watch |-> None, rejected |-> FALSE, generation |-> generation, paused |-> FALSE,
     available |-> None]

Init ==
    /\ server = InitialRows
    /\ views = {} /\ connected = Home /\ tail = None /\ grid = <<>>
    /\ counters = [generation |-> 0, epoch |-> 0, edits |-> 0]
    /\ polls = <<>> /\ setups = {} /\ edits = {} /\ strays = {}

\* A task started for generation g still finds its tail, on its connection.
Live(g) == connected # None /\ tail # None /\ tail.generation = g

----------------------------------------------------------------------------
\* What handlers share

\* tail_poll_once, of tail t on node n
Polled(t, n) ==
    Append(polls, [generation |-> t.generation, query |-> t.query, from |-> t.last, node |-> n])
MayPoll(g) == Len(SelectSeq(polls, LAMBDA p : p.generation = g)) < MaxPolls

MayUpgrade == counters.epoch < MaxEpochs
Request(t, streamed) ==
    [epoch |-> counters.epoch + 1, generation |-> t.generation, query |-> t.query,
     from |-> t.last, node |-> connected, streamed |-> streamed, view |-> FALSE]

\* Mutant of Upgrade: the push slot stays with the poll timer.
UpgradeUnclaimed(t) ==
    /\ counters' = [counters EXCEPT !.epoch = @ + 1]
    /\ \E experimental \in Experimental :
        LET streamed == experimental /\ ~t.rejected IN
        /\ tail' = IF streamed THEN [t EXCEPT !.connecting = TRUE] ELSE t
        /\ setups' = setups \cup {Request(t, streamed)}

\* upgrade_tail_instant, of a tail t that polls.  A stream's boundary is the last
\* key seen, and the push slot is taken while it connects.
Upgrade(t) ==
    /\ counters' = [counters EXCEPT !.epoch = @ + 1]
    /\ \E experimental \in Experimental :
        LET streamed == experimental /\ ~t.rejected IN
        /\ tail' = IF streamed THEN [t EXCEPT !.push = "Stream", !.connecting = TRUE] ELSE t
        /\ setups' = setups \cup {Request(t, streamed)}

\* The view of tail t, where the application is connected now
View(t) == IF t.watch = None THEN {} ELSE {<<connected, t.watch.epoch>>}

\* prepend_tail of the rows above one key up to another
Prepended(rows, query, node, above, upto) ==
    LET all == [i \in 1..(upto - above) |-> <<query, node, upto + 1 - i>>] \o rows
    IN SubSeq(all, 1, Min({Len(all), Cap}))

\* What seed_sql returns begins above this key
SeedFrom(rows) == Max({rows, Seed}) - Seed

----------------------------------------------------------------------------
\* The table

Insert(n) ==
    /\ FoldSet(LAMBDA m, rows : rows + server[m], 0, Nodes) + Burst <= MaxRows
    /\ server' = [server EXCEPT ![n] = @ + Burst]
    /\ UNCHANGED <<views, connected, tail, grid, counters, polls, setups, edits, strays>>

----------------------------------------------------------------------------
\* Opening, pausing, stopping

\* The lookup of the key has answered: a tab of its own, one poll to prime it,
\* the timer and the probe.  The connection may be gone by now.
Open ==
    /\ tail = None /\ counters.generation < MaxGenerations
    /\ tail' = Fresh(Table, counters.generation + 1)
    /\ counters' = [counters EXCEPT !.generation = @ + 1]
    /\ polls' = IF connected = None THEN polls ELSE Polled(tail', connected)
    /\ grid' = <<>> /\ strays' = strays \ {"rows"}
    /\ UNCHANGED <<server, views, connected, setups, edits>>

\* A pause closes a stream, and keeps one that is still connecting.
Pause ==
    /\ tail # None /\ ~tail.paused
    /\ tail' = [tail EXCEPT !.paused = TRUE,
                            !.stream = IF tail.push = "Stream" THEN None ELSE @]
    /\ UNCHANGED <<server, views, connected, grid, counters, polls, setups, edits, strays>>

\* A stream that was closed is asked for again; a live view may have announced
\* what nobody polled for.
Resume ==
    /\ tail # None /\ tail.paused
    /\ LET t == [tail EXCEPT !.paused = FALSE]
           closed == t.push = "Stream" /\ t.stream = None /\ ~t.connecting
       IN
       \/ closed /\ connected # None /\ MayUpgrade
          /\ Upgrade([t EXCEPT !.push = "Poll"]) /\ UNCHANGED polls
       \/ closed /\ connected = None
          /\ tail' = [t EXCEPT !.push = "Poll"] /\ UNCHANGED <<counters, setups, polls>>
       \/ t.push = "Watch" /\ connected # None /\ MayPoll(t.generation)
          /\ tail' = t /\ polls' = Polled(t, connected) /\ UNCHANGED <<counters, setups>>
       \/ ~closed /\ (t.push # "Watch" \/ connected = None)
          /\ tail' = t /\ UNCHANGED <<counters, setups, polls>>
    /\ UNCHANGED <<server, views, connected, grid, edits, strays>>

\* stop_tail; closing the tab does it too.
Stop ==
    /\ tail # None
    /\ tail' = None
    /\ views' = views \ View(tail)
    /\ strays' = IF connected = None /\ tail.watch # None THEN strays \cup {"views"} ELSE strays
    /\ UNCHANGED <<server, connected, grid, counters, polls, setups, edits>>

----------------------------------------------------------------------------
\* Polling

\* The timer fires; it idles while something pushes.  Fast polling that has lost
\* its native connection is plain polling again.
Tick ==
    /\ tail # None /\ connected # None /\ ~tail.paused /\ tail.push \in {"Poll", "Fast"}
    /\ MayPoll(tail.generation)
    /\ polls' = Polled(tail, connected)
    /\ \/ UNCHANGED tail
       \/ tail.push = "Fast" /\ tail' = [tail EXCEPT !.push = "Poll", !.available = None]
    /\ UNCHANGED <<server, views, connected, grid, counters, setups, edits, strays>>

\* A paused tail still notices.
TickPaused ==
    /\ tail # None /\ connected # None /\ tail.paused /\ tail.push = "Fast"
    /\ tail' = [tail EXCEPT !.push = "Poll", !.available = None]
    /\ UNCHANGED <<server, views, connected, grid, counters, polls, setups, edits, strays>>

\* The tail has moved on since poll p was started, by other means than a restart.
Late(p) == tail.last # p.from \/ tail.query # p.query \/ tail.push = "Stream"

\* The server's rows for poll p (seed_sql, poll_sql), and where they go: only the
\* generation is compared, and a poll that primed replaces what is on show.
PollLands(i) ==
    LET p == polls[i]
        rows == server[p.node]
        above == IF p.from = None THEN SeedFrom(rows) ELSE p.from
        upto == IF p.from = None THEN rows ELSE Min({rows, p.from + Limit})
        landed == tail # None /\ tail.generation = p.generation /\ upto > above
    IN
    /\ polls' = RemoveAt(polls, i)
    /\ \/ ~landed /\ UNCHANGED <<tail, grid, strays>>
       \/ /\ landed
          /\ tail' = [tail EXCEPT !.last = upto]
          /\ grid' = Prepended(IF p.from = None THEN <<>> ELSE grid,
                               p.query, p.node, above, upto)
          /\ strays' = IF Late(p) THEN strays \cup {"rows"} ELSE strays
    /\ UNCHANGED <<server, views, connected, counters, setups, edits>>

PollFails(i) ==
    /\ polls' = RemoveAt(polls, i)
    /\ UNCHANGED <<server, views, connected, tail, grid, counters, setups, edits, strays>>

----------------------------------------------------------------------------
\* The upgrade

ProbeLands ==
    /\ tail # None /\ connected # None /\ tail.available = None
    /\ \E reachable \in BOOLEAN : tail' = [tail EXCEPT !.available = reachable]
    /\ UNCHANGED <<server, views, connected, grid, counters, polls, setups, edits, strays>>

\* "Get instant updates", shown while the tail polls and the port has answered
UpgradePressed ==
    /\ tail # None /\ connected # None /\ MayUpgrade
    /\ tail.available = TRUE /\ tail.push = "Poll"
    /\ Upgrade(tail)
    /\ UNCHANGED <<server, views, connected, grid, polls, edits, strays>>

\* The task of an upgrade creates a live view.
ViewCreated(s) ==
    /\ ~s.view
    /\ setups' = (setups \ {s}) \cup {[s EXCEPT !.view = TRUE]}
    /\ views' = views \cup {<<s.node, s.epoch>>}
    /\ UNCHANGED <<server, connected, tail, grid, counters, polls, edits, strays>>

\* How it may end: a stream where one was asked for and the server takes it, else
\* a live view, else neither; or the port does not answer.
Outcomes(s) ==
    IF s.view THEN {"Watch"}
    ELSE {"FastPoll", "Error"} \cup (IF s.streamed THEN {"Stream"} ELSE {})

\* Set-up s answers a tail that something pushes to already, or that has asked for
\* another, or that is not primed: then its stream replays the table onto what is
\* on show.
Overtaken(s, outcome) ==
    \/ tail.stream # None \/ tail.watch # None
    \/ \E r \in setups \ {s} : r.generation = s.generation
    \/ outcome = "Stream" /\ s.from = None /\ grid # <<>>

Adopt(s, outcome) ==
    LET t == [tail EXCEPT !.connecting = FALSE,
                          !.rejected = @ \/ (s.streamed /\ outcome \in {"Watch", "FastPoll"})]
        from == IF s.from = None THEN 0 ELSE s.from
    IN
    /\ tail' =
         CASE outcome = "Stream" ->
                [t EXCEPT !.push = "Stream",
                          !.stream = [epoch |-> s.epoch, query |-> s.query, seen |-> from]]
           [] outcome = "Watch" ->
                [t EXCEPT !.push = "Watch", !.watch = [epoch |-> s.epoch, seen |-> None]]
           [] outcome = "FastPoll" -> [t EXCEPT !.push = "Fast"]
           [] outcome = "Error" -> [t EXCEPT !.push = "Poll", !.available = FALSE]
    /\ strays' = strays \cup (IF Overtaken(s, outcome) THEN {"rows"} ELSE {})
                        \cup (IF outcome = "Watch" /\ tail.watch # None THEN {"views"} ELSE {})

\* Mutant of SetupLands: a live view nobody waits for any more stays where it is.
SetupLandsUntidied(s) ==
    /\ setups' = setups \ {s}
    /\ \/ Live(s.generation) /\ (\E outcome \in Outcomes(s) : Adopt(s, outcome))
          /\ UNCHANGED views
       \/ ~Live(s.generation) /\ UNCHANGED <<views, tail, strays>>
    /\ UNCHANGED <<server, connected, grid, counters, polls, edits>>

\* A set-up is adopted by the tail it was made for, and torn down without it.
SetupLands(s) ==
    /\ setups' = setups \ {s}
    /\ \/ Live(s.generation) /\ (\E outcome \in Outcomes(s) : Adopt(s, outcome))
          /\ UNCHANGED views
       \/ ~Live(s.generation)
          /\ views' = views \ {<<s.node, s.epoch>>} /\ UNCHANGED <<tail, strays>>
    /\ UNCHANGED <<server, connected, grid, counters, polls, edits>>

----------------------------------------------------------------------------
\* What is pushed

Streaming == tail # None /\ connected # None /\ tail.stream # None
Watching == tail # None /\ connected # None /\ tail.watch # None

\* One row of the stream: it replays what is above its boundary, then follows.
StreamDelivers ==
    /\ Streaming /\ server[connected] > tail.stream.seen
    /\ LET key == tail.stream.seen + 1 IN
       /\ tail' = [tail EXCEPT !.last = key, !.stream.seen = key]
       /\ grid' = Prepended(grid, tail.stream.query, connected, key - 1, key)
    /\ UNCHANGED <<server, views, connected, counters, polls, setups, edits, strays>>

\* Mutant of StreamEnds: the push slot stays with the stream.
StreamEndsUnreleased ==
    /\ Streaming /\ MayUpgrade
    /\ tail' = [tail EXCEPT !.stream = None, !.rejected = TRUE]
    /\ UNCHANGED <<server, views, connected, grid, counters, polls, setups, edits, strays>>

\* The server, or the connection, ends the stream: the tail polls and asks again,
\* for a live view this time.
StreamEnds ==
    /\ Streaming /\ MayUpgrade
    /\ Upgrade([tail EXCEPT !.stream = None, !.rejected = TRUE, !.push = "Poll"])
    /\ UNCHANGED <<server, views, connected, grid, polls, edits, strays>>

\* A live view announces what it starts with and every change; a burst is one event.
WatchEvent ==
    /\ Watching /\ tail.watch.seen # server[connected] /\ MayPoll(tail.generation)
    /\ tail' = [tail EXCEPT !.watch.seen = server[connected]]
    /\ polls' = IF tail.paused THEN polls ELSE Polled(tail, connected)
    /\ UNCHANGED <<server, views, connected, grid, counters, setups, edits, strays>>

WatchEnds ==
    /\ Watching
    /\ tail' = [tail EXCEPT !.watch = None, !.push = "Poll", !.available = None]
    /\ views' = views \ View(tail)
    /\ UNCHANGED <<server, connected, grid, counters, polls, setups, edits, strays>>

----------------------------------------------------------------------------
\* Editing the query

\* update_tail_from_editor asks the server for the seed of the edited query.
EditPressed(query) ==
    /\ tail # None /\ connected # None /\ counters.edits < MaxEdits
    /\ counters' = [counters EXCEPT !.edits = @ + 1]
    /\ edits' = edits \cup {[generation |-> tail.generation, query |-> query,
                             node |-> connected]}
    /\ UNCHANGED <<server, views, connected, tail, grid, polls, setups, strays>>

\* A stream for the tail's old query and boundary is on its way.
Connecting == \E s \in setups : s.streamed /\ s.generation = tail.generation

\* The seed's rows replace what is on show and set the last key; what pushed for
\* the old query is stopped and asked for again, once here even if both a stream
\* and a view pushed.  The generation stays.
EditAdopted(e) ==
    LET rows == server[e.node]
        pushed == tail.stream # None \/ tail.watch # None
        t == [tail EXCEPT !.query = e.query, !.last = IF rows = 0 THEN None ELSE rows,
                          !.rejected = FALSE, !.stream = None, !.watch = None,
                          !.push = IF pushed THEN "Poll" ELSE @]
    IN
    /\ strays' = IF Connecting THEN strays \cup {"rows"} ELSE strays \ {"rows"}
    /\ grid' = Prepended(<<>>, e.query, e.node, SeedFrom(rows), rows)
    /\ views' = views \ View(tail)
    /\ \/ pushed /\ MayUpgrade /\ Upgrade(t)
       \/ ~pushed /\ tail' = t /\ UNCHANGED <<setups, counters>>

\* The query may also fail, and the tail goes on as it was.
EditLands(e) ==
    /\ edits' = edits \ {e}
    /\ \/ Live(e.generation) /\ EditAdopted(e)
       \/ UNCHANGED <<tail, grid, views, setups, counters, strays>>
    /\ UNCHANGED <<server, connected, polls>>

----------------------------------------------------------------------------
\* The connection

\* restart_visible_tails on node n: all that belonged to the server the tail left
\* is forgotten, but for what is on show.
Restart(n) ==
    \/ tail = None /\ UNCHANGED <<tail, counters, polls>>
    \/ /\ tail # None /\ counters.generation < MaxGenerations
       /\ tail' = Fresh(tail.query, counters.generation + 1)
       /\ counters' = [counters EXCEPT !.generation = @ + 1]
       /\ polls' = Polled(tail', n)

\* select_node: the live view is dropped on the node that is left.
SelectNode(n) ==
    /\ connected \notin {None, n}
    /\ connected' = n
    /\ Restart(n)
    /\ views' = IF tail = None THEN views ELSE views \ View(tail)
    /\ strays' = strays \ {"rows"}
    /\ UNCHANGED <<server, grid, setups, edits>>

\* A probe connects: where a live view was is not known any more.
Connect(n) ==
    /\ connected' = n
    /\ Restart(n)
    /\ strays' = (strays \ {"rows"})
                 \cup IF tail # None /\ tail.watch # None THEN {"views"} ELSE {}
    /\ UNCHANGED <<server, views, grid, setups, edits>>

\* Disconnected, lost, or connected to another cluster
Disconnect ==
    /\ connected # None
    /\ connected' = None
    /\ UNCHANGED <<server, views, tail, grid, counters, polls, setups, edits, strays>>

----------------------------------------------------------------------------

\* Until a first tail is open there is nothing for another node to differ in.
Begun == counters.generation > 0

Next ==
    \/ \E n \in Nodes : Insert(n) \/ (Begun /\ (SelectNode(n) \/ Connect(n)))
    \/ Open \/ Pause \/ Resume \/ Stop
    \/ Begun /\ Disconnect
    \/ Tick \/ TickPaused
    \/ \E i \in DOMAIN polls : PollLands(i) \/ PollFails(i)
    \/ ProbeLands \/ UpgradePressed
    \/ \E s \in setups : ViewCreated(s) \/ SetupLands(s)
    \/ StreamDelivers \/ StreamEnds \/ WatchEvent \/ WatchEnds
    \/ \E query \in Edited : EditPressed(query)
    \/ \E e \in edits : EditLands(e)

Spec == Init /\ [][Next]_vars

\* The timer fires, upgrades are answered and what a stream sends is received, as
\* long as one of them can; not every poll fails.  Nothing is owed by the user, by
\* the tables, by a probe or by an edit.
Work == Tick \/ StreamDelivers \/ (\E s \in setups : SetupLands(s))
Fairness == WF_vars(Work) /\ SF_vars(polls # <<>> /\ PollLands(1))

FairSpec == Spec /\ Fairness

----------------------------------------------------------------------------
\* Properties

\* The rows on show are the last ones up to the last key seen, newest first, of
\* the query and the node that are tailed: none is missing and none is there
\* twice, over polls, streams, pauses, edits and switches of node, with these
\* exceptions since the tail began or was last edited ("rows").  A poll that was
\* in flight landed when a stream had claimed the push slot, when another poll
\* had moved the last key, or when the query had been edited; a stream for the
\* query before an edit was still connecting; an upgrade was answered to a tail
\* that something pushed to already, that waited for another one, or that had not
\* been primed.  In each the code does repeat or lose rows, against native.rs:84-88
\* and tail.rs:14-16 (RowsComeOnce).
ShownExactly ==
    (tail # None /\ "rows" \notin strays) => (tail.last # None =>
        /\ grid # <<>>
        /\ \A i \in DOMAIN grid :
              /\ grid[i][1] = tail.query /\ grid[i][3] = tail.last + 1 - i
              /\ connected # None => grid[i][2] = connected)

\* "Claim the push slot immediately so the poll watchdog cannot deliver rows past
\* that boundary while the stream connects; the replay would repeat them"
\* (native.rs:85-87): no row is on show twice.  The code does not keep it, for a poll
\* that is in flight when the slot is claimed still lands (MCLiveTailClaim.cfg).
RowsComeOnce == \A i, j \in DOMAIN grid : i # j => grid[i] # grid[j]

\* Every live view on a server is one its tail listens to, or one an upgrade in
\* flight has just created and will hand over or drop, unless one was left behind
\* for good ("views"): by a reconnection, by a stop while cut off, or when a second
\* upgrade was answered with a view.
ViewsAreOwned ==
    "views" \notin strays => \A v \in views :
        \/ tail # None /\ connected \in {v[1], None}
           /\ tail.watch # None /\ tail.watch.epoch = v[2]
        \/ \E s \in setups : s.view /\ <<s.node, s.epoch>> = v

\* A tail that is behind its table catches up, unless it is stopped, paused, cut
\* off, or left to a live view's events.
Following == tail # None /\ connected # None /\ ~tail.paused /\ tail.push # "Watch"
Seen(k) ==
    \/ tail.last # None /\ tail.last >= k
    \/ tail.stream # None /\ tail.stream.seen >= k
Behind == Following /\ \E k \in 1..server[connected] : ~Seen(k)
RowsArrive == Behind ~> ~Behind
====
