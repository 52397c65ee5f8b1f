---- MODULE AgentPane ----
(***************************************************************************)
(* The agent pane (features/agent/controller): one visible thread, one      *)
(* process per agent shared by successive threads, a pump per process, and *)
(* tasks that outlive the thread they were started for.  All handlers run  *)
(* on the application's thread; each is one step.  A process is reached    *)
(* through a channel that keeps the promise of AgentChannel.               *)
(*                                                                         *)
(* Threads are numbered by generation.  A process is named by the thread   *)
(* that spawned it, a session by the thread whose handshake opened it.     *)
(***************************************************************************)
EXTENDS Naturals, Sequences, FiniteSets

CONSTANTS
    Keys,            \* cache keys: agent and program
    Asks,            \* permission requests the agents may make
    MaxPermissions,  \* MAX_PENDING_PERMISSIONS
    MaxThreads,      \* bound: threads started
    MaxTurns,        \* bound: turns sent
    EventCapacity,   \* bound: events on their way
    None

ASSUME PaneAssumption ==
    /\ {MaxPermissions, MaxThreads, MaxTurns, EventCapacity} \subseteq Nat
    /\ None \notin Keys \cup Nat

Generations == 1..MaxThreads
Turns == 1..MaxTurns
Requests == ({"initialize", "session"} \X Generations) \cup ({"prompt"} \X Turns)

VARIABLES
    chan,     \* per process: its channel
    cache,    \* connections: per key, the process that is reused
    started,  \* per generation: its key, its process, where its handshake is
    turn,     \* per turn: the thread it belongs to, and whether it has been delivered
    thread,   \* the thread in the pane, or None
    ask,      \* pending_ask is set
    effect,   \* SendPendingAsk is queued
    session   \* per permission request: the session it was made in, or None

vars == <<chan, cache, started, turn, thread, ask, effect, session>>

Channel == INSTANCE AgentChannel WITH ch <- chan[1]

Stage == {"none", "initialize", "session", "delivered"}
Update(g) == [kind |-> "update", id |-> g]
Ask(a) == [kind |-> "ask", id |-> a]

\* shown: the sessions whose chunks are in the transcript; pending: the
\* queued responders; cards: the cards with live buttons.
NewThread(g) == [generation |-> g, session |-> None, running |-> FALSE,
                 shown |-> {}, pending |-> {}, cards |-> {}]

Init ==
    /\ chan = [p \in Generations |-> Channel!Opened]
    /\ cache = [k \in Keys |-> None]
    /\ started = [g \in Generations |-> [key |-> None, process |-> None, at |-> "none"]]
    /\ turn = [n \in Turns |-> [generation |-> None, at |-> "none"]]
    /\ thread = None
    /\ ask = FALSE /\ effect = FALSE
    /\ session = [a \in Asks |-> None]

Shown == thread # None
ProcessOf(g) == started[g].process
KeyOfThread == started[thread.generation].key

----------------------------------------------------------------------------
\* Starting a thread

Unstarted == {g \in Generations : started[g].at = "none"}
NextGeneration == CHOOSE g \in Unstarted : \A h \in Unstarted : g <= h

\* A task sends a request; that it fails before it is sent counts as Fail.
Opening(p, i) == [chan EXCEPT ![p] = Channel!Moved(@, i, "open")]
Returning(p, i) == [chan EXCEPT ![p] = Channel!Moved(@, i, "ok")]
Answered(p, i) == Channel!CanReturn(chan[p], i)
Failed(p, i) == chan[p].call[i] = "failed"

\* The thread gets the cached process of its agent, or spawns one.
Open(k, g) ==
    LET p == IF cache[k] = None THEN g ELSE cache[k] IN
    /\ started' = [started EXCEPT ![g] =
                     [key |-> k, process |-> p, at |-> IF p = g THEN "initialize" ELSE "session"]]
    /\ cache' = [cache EXCEPT ![k] = p]
    /\ chan' = Opening(p, <<IF p = g THEN "initialize" ELSE "session", g>>)
    /\ thread' = NewThread(g)

\* agent_start_thread: the menu, cmd-n, the button of the pane
StartThread(k) ==
    /\ Unstarted # {}
    /\ Open(k, NextGeneration)
    /\ UNCHANGED <<turn, ask, effect, session>>

\* initialize returns, session/new is sent
Handshaking(g) == started[g].at \in {"initialize", "session"}

Initialized(g) ==
    LET p == ProcessOf(g) IN
    /\ started[g].at = "initialize" /\ Answered(p, <<"initialize", g>>)
    /\ started' = [started EXCEPT ![g].at = "session"]
    /\ chan' = [chan EXCEPT ![p] = Channel!Moved(Channel!Moved(@, <<"initialize", g>>, "ok"),
                                                <<"session", g>>, "open")]
    /\ UNCHANGED <<cache, turn, thread, ask, effect, session>>

\* Mutant of Current: the generation is not compared.
AnyThread(g) == Shown

Current(g) == Shown /\ thread.generation = g

\* The session's id reaches the pane, where another thread may be by now.
SessionReady(g) ==
    /\ started[g].at = "session" /\ Answered(ProcessOf(g), <<"session", g>>)
    /\ chan' = Returning(ProcessOf(g), <<"session", g>>)
    /\ started' = [started EXCEPT ![g].at = "delivered"]
    /\ IF Current(g)
       THEN thread' = [thread EXCEPT !.session = g] /\ effect' = (effect \/ ask)
       ELSE UNCHANGED <<thread, effect>>
    /\ UNCHANGED <<cache, turn, ask, session>>

SessionFails(g) ==
    /\ Handshaking(g) /\ Failed(ProcessOf(g), <<started[g].at, g>>)
    /\ started' = [started EXCEPT ![g].at = "delivered"]
    /\ UNCHANGED <<chan, cache, turn, thread, ask, effect, session>>

----------------------------------------------------------------------------
\* Turns

Ready == Shown /\ ~thread.running /\ thread.session # None
Unsent == {n \in Turns : turn[n].at = "none"}
NextTurn == CHOOSE n \in Unsent : \A m \in Unsent : n <= m

\* agent_send_message, when nothing stops it
Prompt ==
    /\ turn' = [turn EXCEPT ![NextTurn] = [generation |-> thread.generation, at |-> "running"]]
    /\ thread' = [thread EXCEPT !.running = TRUE]
    /\ chan' = Opening(ProcessOf(thread.generation), <<"prompt", NextTurn>>)

\* agent_send
Send ==
    /\ Ready /\ Unsent # {}
    /\ Prompt
    /\ UNCHANGED <<cache, started, ask, effect, session>>

\* agent_ask_about: an error is handed to the agent
AskAbout ==
    /\ Unsent # {}
    /\ \/ Ready /\ Prompt /\ UNCHANGED <<cache, started, ask>>
       \/ ~Ready /\ ask' = TRUE /\ UNCHANGED turn
          /\ \/ ~Shown /\ Unstarted # {} /\ \E k \in Keys : Open(k, NextGeneration)
             \/ UNCHANGED <<chan, cache, started, thread>>   \* a thread is there, or the picker opens
    /\ UNCHANGED <<effect, session>>

\* agent_drain_effects, on the next render
DrainEffects ==
    /\ effect /\ effect' = FALSE
    /\ ask' = FALSE
    /\ ask /\ Ready => Unsent # {}
    /\ IF ask /\ Ready THEN Prompt ELSE UNCHANGED <<chan, turn, thread>>
    /\ UNCHANGED <<cache, started, session>>

\* Mutant of TurnEnds: an error leaves the handler early.
TurnEndsOnResult(n) ==
    LET p == ProcessOf(turn[n].generation) IN
    /\ turn[n].at = "running"
    /\ \/ /\ Answered(p, <<"prompt", n>>) /\ chan' = Returning(p, <<"prompt", n>>)
          /\ thread' = IF Current(turn[n].generation) THEN [thread EXCEPT !.running = FALSE] ELSE thread
       \/ Failed(p, <<"prompt", n>>) /\ UNCHANGED <<chan, thread>>
    /\ turn' = [turn EXCEPT ![n].at = "delivered"]
    /\ UNCHANGED <<cache, started, ask, effect, session>>

\* The result of a turn, whatever it is
TurnEnds(n) ==
    LET p == ProcessOf(turn[n].generation) IN
    /\ turn[n].at = "running"
    /\ \/ Answered(p, <<"prompt", n>>) /\ chan' = Returning(p, <<"prompt", n>>)
       \/ Failed(p, <<"prompt", n>>) /\ UNCHANGED chan
    /\ turn' = [turn EXCEPT ![n].at = "delivered"]
    /\ thread' = IF Current(turn[n].generation) THEN [thread EXCEPT !.running = FALSE] ELSE thread
    /\ UNCHANGED <<cache, started, ask, effect, session>>

\* Mutant of Cancel: the turn counts as over.
CancelStops ==
    /\ Shown
    /\ thread' = [thread EXCEPT !.pending = {}, !.cards = @ \ thread.pending, !.running = FALSE]
    /\ UNCHANGED <<chan, cache, started, turn, ask, effect, session>>

\* agent_cancel: the turn itself ends when the agent answers its prompt
Cancel ==
    /\ Shown
    /\ thread' = [thread EXCEPT !.pending = {}, !.cards = @ \ thread.pending]
    /\ UNCHANGED <<chan, cache, started, turn, ask, effect, session>>

\* agent_answer_permission: a click on a card
Click(a) ==
    /\ Shown /\ a \in thread.cards
    /\ thread' = IF a \in thread.pending
                 THEN [thread EXCEPT !.pending = @ \ {a}, !.cards = @ \ {a}] ELSE thread
    /\ UNCHANGED <<chan, cache, started, turn, ask, effect, session>>

----------------------------------------------------------------------------
\* The pump of a process and agent_apply_event_for

Event(p) == Head(chan[p].stream)
Concerned(p) == Shown /\ KeyOfThread = started[p].key

Shows(t, event) ==
    IF event.kind = "update" /\ event.id = t.session
    THEN [t EXCEPT !.shown = @ \cup {event.id}] ELSE t

\* A request that is not queued is cancelled, its responder dropped or answered.
Queues(t, event) ==
    IF event.kind = "ask" /\ Cardinality(t.pending) < MaxPermissions /\ session[event.id] = t.session
    THEN [t EXCEPT !.pending = @ \cup {event.id}, !.cards = @ \cup {event.id}] ELSE t

Stops(t, event) == IF event = Channel!Closed THEN [t EXCEPT !.running = FALSE] ELSE t

\* Over its limit the transcript loses its oldest entries, cards among them;
\* which are the oldest is left open.
Trimmed(t) == {[t EXCEPT !.cards = kept] : kept \in {t.cards, {}}}

Applied(t, event) == {Stops(Queues(Shows(s, event), event), event) : s \in Trimmed(t)}

\* Mutant of Evicted: left to agent_apply_event_for, which knows only the pane's thread.
EvictedByThread(p) ==
    IF Event(p) = Channel!Closed /\ Concerned(p) THEN [cache EXCEPT ![started[p].key] = None] ELSE cache

Evicted(p) == IF Event(p) = Channel!Closed THEN [cache EXCEPT ![started[p].key] = None] ELSE cache

Consumed(p) == [chan EXCEPT ![p] = Channel!Taken(@)]

Spawned(p) == started[p].process = p

Pump(p) ==
    /\ Spawned(p) /\ chan[p].listening /\ chan[p].stream # <<>>
    /\ chan' = Consumed(p)
    /\ cache' = Evicted(p)
    /\ thread' \in IF Concerned(p) THEN Applied(thread, Event(p)) ELSE {thread}
    /\ UNCHANGED <<started, turn, ask, effect, session>>

----------------------------------------------------------------------------
\* The agents, as their channels allow

Step(p, c) == chan' = [chan EXCEPT ![p] = c]

Answer(p, i) ==
    /\ Channel!CanAnswer(chan[p], i) /\ Step(p, Channel!Moved(chan[p], i, "answered"))
    /\ UNCHANGED <<cache, started, turn, thread, ask, effect, session>>

\* An error, or the deadline.
Fail(p, i) ==
    /\ Channel!CanFail(chan[p], i) /\ Step(p, Channel!Moved(chan[p], i, "failed"))
    /\ UNCHANGED <<cache, started, turn, thread, ask, effect, session>>

Close(p) ==
    /\ Spawned(p) /\ ~chan[p].over /\ Step(p, Channel!Ended(chan[p]))
    /\ UNCHANGED <<cache, started, turn, thread, ask, effect, session>>

\* An agent speaks in the sessions it has opened, also in those of threads gone by.
Emit(p, g, event) ==
    /\ ProcessOf(g) = p /\ chan[p].call[<<"session", g>>] \in {"answered", "ok"}
    /\ Channel!CanEmit(chan[p], event) /\ Len(chan[p].stream) < EventCapacity
    /\ Step(p, Channel!Emitted(chan[p], event))

Says(p, g) ==
    /\ Emit(p, g, Update(g))
    /\ UNCHANGED <<cache, started, turn, thread, ask, effect, session>>

AsksPermission(p, g, a) ==
    /\ session[a] = None /\ session' = [session EXCEPT ![a] = g]
    /\ Emit(p, g, Ask(a))
    /\ UNCHANGED <<cache, started, turn, thread, ask, effect>>

----------------------------------------------------------------------------
Handshake(g) == Initialized(g) \/ SessionReady(g) \/ SessionFails(g)

Next ==
    \/ \E k \in Keys : StartThread(k)
    \/ \E g \in Generations : Handshake(g)
    \/ Send \/ AskAbout \/ DrainEffects \/ Cancel
    \/ \E n \in Turns : TurnEnds(n)
    \/ \E a \in Asks : Click(a)
    \/ \E p \in Generations :
         \/ Pump(p) \/ Close(p)
         \/ \E i \in Requests : Answer(p, i) \/ Fail(p, i)
         \/ \E g \in Generations : Says(p, g) \/ \E a \in Asks : AsksPermission(p, g, a)

Spec == Init /\ [][Next]_vars

\* Tasks are polled, and a channel that is over ends its
\* calls, as AgentChannel promises.  Nothing is assumed of users and agents.
Fairness ==
    /\ \A g \in Generations : WF_vars(Handshake(g)) /\ WF_vars(Pump(g))
    /\ \A n \in Turns : WF_vars(TurnEnds(n))
    /\ \A p \in Generations : WF_vars(chan[p].over /\ \E i \in Requests : Fail(p, i))

FairSpec == Spec /\ Fairness

----------------------------------------------------------------------------
\* The types of the state; a thread that was opened has a process.
TypeOK ==
    /\ \A p \in Generations :
         /\ DOMAIN chan[p].call = Requests /\ Len(chan[p].stream) <= EventCapacity + 1
         /\ chan[p].over \in BOOLEAN /\ chan[p].listening \in BOOLEAN
    /\ cache \in [Keys -> Generations \cup {None}]
    /\ started \in [Generations -> [key : Keys \cup {None}, process : Generations \cup {None}, at : Stage]]
    /\ \A g \in Generations : started[g].at = "none" <=> started[g].process = None
    /\ turn \in [Turns -> [generation : Generations \cup {None}, at : {"none", "running", "delivered"}]]
    /\ Shown => thread \in [generation : Generations, session : Generations \cup {None},
                            running : BOOLEAN, shown : SUBSET Generations,
                            pending : SUBSET Asks, cards : SUBSET Asks]
    /\ Shown => Cardinality(thread.pending) <= MaxPermissions
    /\ ask \in BOOLEAN /\ effect \in BOOLEAN
    /\ session \in [Asks -> Generations \cup {None}]

\* "One live process per agent": what is cached has a pump that will evict it
\* when it dies, and no process with a pump was forgotten by the cache, so
\* that a Closed that comes late never evicts a younger process.
OneProcessPerAgent ==
    \A p \in Generations : Spawned(p) =>
      (chan[p].listening <=> cache[started[p].key] = p)

\* Late results of an earlier thread, and what an agent still says in its
\* earlier session, stay out of the thread in the pane.
ThreadIsItsOwn ==
    Shown => /\ thread.session \in {None, thread.generation}
             /\ thread.shown \subseteq {thread.session}
             /\ \A a \in thread.pending : session[a] = thread.session

\* A live agent has at most one open turn per session: also after Cancel the
\* next message waits until the agent has ended the turn.
OneTurnAtATime ==
    \A m, n \in Turns :
      /\ m # n /\ turn[m].at = "running" /\ turn[n].at = "running"
      /\ turn[m].generation = turn[n].generation
      => chan[ProcessOf(turn[m].generation)].over

\* The spinner stops: a turn of the pane does not outlive its process.
DeadTurn == Shown /\ thread.running /\ chan[ProcessOf(thread.generation)].over
DeadTurnsEnd == DeadTurn ~> ~DeadTurn
====
