--------------------------- MODULE AgentPaneProofs ---------------------------
(***************************************************************************)
(* Theorems about AgentPane, for every number of agents, threads, turns    *)
(* and permission requests.                                                *)
(*                                                                         *)
(* OneTurnAtATime is not inductive: when the pane shows that its thread    *)
(* has stopped, a turn of that thread may be running only if its process   *)
(* is over (Settled).  That rests on what a Closed means when the pump     *)
(* takes it: it comes from the process of the thread, or from a successor  *)
(* that was spawned because that process is over (OneProcessPerAgent,      *)
(* Tidings).                                                               *)
(***************************************************************************)
EXTENDS AgentPane, FiniteSetsExt, FiniteSetTheorems, WellFoundedInduction, TLAPS

Tiding == [kind : {"update", "ask", "closed"}, id : Generations \cup Asks \cup {"none"}]

CallState == {"new", "open", "answered", "ok", "failed"}
ChannelRecord == [call : [Requests -> CallState],
                  stream : Seq(Tiding), over : BOOLEAN, listening : BOOLEAN]

PaneThread == [generation : Generations, session : Generations \cup {None}, running : BOOLEAN,
               shown : SUBSET Generations, pending : SUBSET Asks, cards : SUBSET Asks]

Typed ==
    /\ chan \in [Generations -> ChannelRecord]
    /\ cache \in [Keys -> Generations \cup {None}]
    /\ started \in [Generations -> [key : Keys \cup {None}, process : Generations \cup {None}, at : Stage]]
    /\ turn \in [Turns -> [generation : Generations \cup {None}, at : {"none", "running", "delivered"}]]
    /\ thread \in PaneThread \cup {None}
    /\ ask \in BOOLEAN /\ effect \in BOOLEAN
    /\ session \in [Asks -> Generations \cup {None}]

\* There is room in a stream for the Closed that ends it.
Room ==
    \A p \in Generations : /\ Len(chan[p].stream) <= EventCapacity + 1
                           /\ ~chan[p].over => Len(chan[p].stream) <= EventCapacity

\* MAX_PENDING_PERMISSIONS bounds the queue of responders.
Queue == Shown => IsFiniteSet(thread.pending) /\ Cardinality(thread.pending) <= MaxPermissions

\* A process was spawned by the thread it is named for, and serves threads of its key.
Lineage ==
    /\ \A g \in Generations : started[g].at = "none" <=> ProcessOf(g) = None
    /\ \A g \in Generations : ProcessOf(g) # None =>
          /\ started[g].key \in Keys
          /\ Spawned(ProcessOf(g)) /\ started[ProcessOf(g)].key = started[g].key
    /\ \A k \in Keys : cache[k] # None => Spawned(cache[k]) /\ started[cache[k]].key = k
    /\ \A n \in Turns : turn[n].at # "none" => turn[n].generation \in Generations /\ ProcessOf(turn[n].generation) # None
    /\ Shown => ProcessOf(thread.generation) # None

\* What is in a stream: a session that has been opened, a request that was
\* made in a session, an end that is true.
Known(p, event) ==
    \/ event.kind = "update" /\ event.id \in Generations
    \/ event.kind = "ask" /\ event.id \in Asks /\ session[event.id] # None
    \/ event = Channel!Closed /\ chan[p].over

Tidings ==
    \A p \in Generations :
        /\ \A i \in 1..Len(chan[p].stream) : Known(p, chan[p].stream[i])
        /\ ~chan[p].listening => Spawned(p) /\ chan[p].over

Nothing == Shown /\ thread.session = None => thread.shown = {} /\ thread.pending = {}

\* The pane says that its thread has stopped.
Settled ==
    Shown /\ ~thread.running =>
        \A n \in Turns : turn[n].at = "running" /\ turn[n].generation = thread.generation
                         => chan[ProcessOf(thread.generation)].over

Inductive ==
    /\ Typed /\ Room /\ Queue /\ Lineage /\ Tidings /\ OneProcessPerAgent
    /\ ThreadIsItsOwn /\ Nothing /\ OneTurnAtATime /\ Settled

-----------------------------------------------------------------------------
(* What an action does to the channels. *)

\* Only calls go on: no stream, no end, no pump.
CallsOnly ==
    /\ chan' \in [Generations -> ChannelRecord]
    /\ \A p \in Generations : /\ chan'[p].stream = chan[p].stream
                              /\ chan'[p].over = chan[p].over
                              /\ chan'[p].listening = chan[p].listening

LEMMA CallMoves ==
    ASSUME NEW c \in ChannelRecord, NEW i \in Requests, NEW state \in CallState
    PROVE  /\ Channel!Moved(c, i, state) \in ChannelRecord
           /\ Channel!Moved(c, i, state).stream = c.stream
           /\ Channel!Moved(c, i, state).over = c.over
           /\ Channel!Moved(c, i, state).listening = c.listening
BY DEF Channel!Moved, ChannelRecord

\* One call of one process
LEMMA OneCall ==
    ASSUME Typed, NEW p \in Generations, NEW i \in Requests, NEW state \in CallState,
           chan' = [chan EXCEPT ![p] = Channel!Moved(@, i, state)]
    PROVE  CallsOnly
<1>1. chan[p] \in ChannelRecord
  BY DEF Typed
<1>2. chan' = [chan EXCEPT ![p] = Channel!Moved(chan[p], i, state)]
  OBVIOUS
<1>3. QED
  BY <1>1, <1>2, CallMoves DEF Typed, CallsOnly

LEMMA NoCall ==
    ASSUME Typed, UNCHANGED chan
    PROVE  CallsOnly
BY DEF Typed, CallsOnly

\* Calls leave alone what is said of streams and of processes.
LEMMA CallsKeepStreams ==
    ASSUME Inductive, CallsOnly, UNCHANGED session, 
           \A p \in Generations : Spawned(p) => Spawned(p)'
    PROVE  Room' /\ Tidings'
<1>1. Room'
  BY DEF Inductive, CallsOnly, Room
<1>2. ASSUME NEW p \in Generations PROVE ~chan'[p].listening => Spawned(p)' /\ chan'[p].over
  BY <1>2 DEF Inductive, Tidings, CallsOnly
<1>3. ASSUME NEW p \in Generations, NEW i \in 1..Len(chan'[p].stream) PROVE Known(p, chan[p].stream[i])'
  <2>1. chan'[p].stream = chan[p].stream /\ Known(p, chan[p].stream[i])
    BY <1>3 DEF Inductive, Tidings, CallsOnly
  <2>2. QED
    BY <2>1 DEF Known, CallsOnly, Channel!Closed
<1>4. QED
  BY <1>1, <1>2, <1>3 DEF Tidings

-----------------------------------------------------------------------------
(* Starting a thread *)

\* Min of FiniteSetsExt is attained: some relation that contains < is
\* well-founded on Nat.
LEMMA MinAttained ==
    ASSUME NEW S, S \subseteq Nat, S # {}
    PROVE  Min(S) \in S /\ \A y \in S : Min(S) =< y
<1> DEFINE R == OpToRel(<, Nat)
<1>1. \A y, x \in Nat : y < x => <<y, x>> \in R
  BY Zenon DEF OpToRel
<1>2. IsWellFoundedOn(R, Nat)
  BY NatLessThanWellFounded, Zenon
<1> HIDE DEF R
<1>3. \E x \in S : \A y \in S : ~ (<<y, x>> \in R)
  BY <1>2, WFMin, Zenon
<1>4. PICK x \in S : \A y \in S : ~ (<<y, x>> \in R)
  BY <1>3
<1>5. ASSUME NEW y \in S PROVE x =< y
  <2>1. x \in Nat /\ y \in Nat
    OBVIOUS
  <2>2. ~ (y < x)
    BY <1>1, <1>4, <2>1, Zenon
  <2>3. QED
    BY <2>1, <2>2
<1>6. QED
  BY <1>5, Zenon DEF Min

LEMMA NextIsUnstarted ==
    ASSUME Unstarted # {}
    PROVE  NextGeneration \in Unstarted
<1>1. Unstarted \subseteq Nat
  BY PaneAssumption DEF Unstarted, Generations
<1>2. NextGeneration = Min(Unstarted)
  BY Zenon DEF NextGeneration, Min
<1>3. QED
  BY <1>1, <1>2, MinAttained, Zenon

LEMMA NextIsUnsent ==
    ASSUME Unsent # {}
    PROVE  NextTurn \in Unsent
<1>1. Unsent \subseteq Nat
  BY PaneAssumption DEF Unsent, Turns
<1>2. NextTurn = Min(Unsent)
  BY Zenon DEF NextTurn, Min
<1>3. QED
  BY <1>1, <1>2, MinAttained, Zenon

\* A new thread is served by the cached process, which is alive, or by its own.
LEMMA OpenKeeps ==
    ASSUME Inductive, NEW k \in Keys, NEW g \in Unstarted, Open(k, g),
           UNCHANGED <<turn, effect, session>>, ask' \in BOOLEAN
    PROVE  Inductive'
<1>a. PICK p : p = IF cache[k] = None THEN g ELSE cache[k]
  OBVIOUS
<1>b. PICK step : step = IF p = g THEN "initialize" ELSE "session"
  OBVIOUS
<1>1. /\ g \in Generations /\ g \in Nat /\ None \notin Generations
      /\ ProcessOf(g) = None /\ started[g].at = "none" /\ ~Spawned(g)
  BY PaneAssumption DEF Unstarted, Generations, Inductive, Lineage, ProcessOf, Spawned
<1>2. p \in Generations /\ (cache[k] = None <=> p = g)
  BY <1>1, <1>a DEF Inductive, Typed, Lineage
<1>3. p # g => Spawned(p) /\ started[p].key = k
  BY <1>2, <1>a DEF Inductive, Lineage
<1>4. /\ started' = [started EXCEPT ![g] = [key |-> k, process |-> p, at |-> step]]
      /\ cache' = [cache EXCEPT ![k] = p]
      /\ chan' = [chan EXCEPT ![p] = Channel!Moved(@, <<step, g>>, "open")]
      /\ thread' = NewThread(g)
  BY <1>a, <1>b DEF Open, Opening
<1>5. <<step, g>> \in Requests
  BY <1>1, <1>b DEF Requests
<1>6. CallsOnly
  BY <1>2, <1>4, <1>5, OneCall DEF Inductive, CallState
<1>7. step \in {"initialize", "session"}
  BY <1>b
<1>8. Typed'
  <2>1. NewThread(g) \in PaneThread
    BY <1>1 DEF NewThread, PaneThread
  <2>2. step \in Stage
    BY <1>7 DEF Stage
  <2>3. QED
    BY <1>1, <1>2, <1>4, <1>6, <2>1, <2>2 DEF Inductive, Typed, CallsOnly
<1>9. /\ \A h \in Generations \ {g} : started'[h] = started[h]
      /\ started'[g] = [key |-> k, process |-> p, at |-> step]
  BY <1>1, <1>4 DEF Inductive, Typed
<1>10. \A q \in Generations : Spawned(q)' <=> Spawned(q) \/ (q = g /\ p = g)
  <2>1. \A q \in Generations : q # g => started'[q].process = started[q].process
    BY <1>9
  <2>2. started'[g].process = p
    BY <1>9
  <2>3. QED
    BY <1>1, <2>1, <2>2 DEF Spawned
<1>11. Room' /\ Tidings'
  BY <1>6, <1>10, CallsKeepStreams
<1>12. \A h \in Generations : h # g => ProcessOf(h)' = ProcessOf(h)
  BY <1>9 DEF ProcessOf
<1>13. /\ ProcessOf(g)' = p /\ started'[g].key = k /\ started'[g].at = step
       /\ Spawned(p)' /\ started'[p].key = k
  BY <1>2, <1>3, <1>9, <1>10 DEF ProcessOf
<1>14. Lineage'
  <2>1. ASSUME NEW h \in Generations, ProcessOf(h)' # None
        PROVE  /\ started'[h].key \in Keys
               /\ Spawned(ProcessOf(h))' /\ started'[ProcessOf(h)'].key = started'[h].key
    <3>1. CASE h = g
      BY <1>13, <3>1
    <3>2. CASE h # g
      <4>1. PICK q : q = ProcessOf(h)
        OBVIOUS
      <4>2. /\ q # None /\ ProcessOf(h)' = q /\ q \in Generations
            /\ started[h].key \in Keys /\ Spawned(q) /\ started[q].key = started[h].key
        BY <1>12, <2>1, <3>2, <4>1 DEF Inductive, Typed, Lineage, ProcessOf
      <4>3. q # g
        BY <1>1, <4>2
      <4>4. Spawned(q)'
        BY <1>10, <4>2
      <4>5. Spawned(ProcessOf(h))'
        BY <4>2, <4>4 DEF Spawned
      <4>6. QED
        BY <1>9, <3>2, <4>2, <4>3, <4>5
    <3>3. QED
      BY <3>1, <3>2
  <2>2. ASSUME NEW j \in Keys, cache'[j] # None
        PROVE  Spawned(cache[j])' /\ started'[cache'[j]].key = j
    <3>1. CASE j = k
      <4>1. cache'[j] = p
        BY <1>4, <3>1 DEF Inductive, Typed
      <4>2. QED
        BY <1>13, <4>1, <3>1 DEF Spawned
    <3>2. CASE j # k
      <4>1. PICK q : q = cache[j]
        OBVIOUS
      <4>2. cache'[j] = q /\ q # None /\ q \in Generations
        BY <1>4, <2>2, <3>2, <4>1 DEF Inductive, Typed
      <4>3. Spawned(q) /\ started[q].key = j /\ q # g
        BY <1>1, <4>1, <4>2 DEF Inductive, Lineage
      <4>4. Spawned(q)' /\ started'[q].key = j
        BY <1>9, <1>10, <4>2, <4>3
      <4>5. QED
        BY <4>2, <4>4 DEF Spawned
    <3>3. QED
      BY <3>1, <3>2
  <2>3. \A h \in Generations : started'[h].at = "none" <=> ProcessOf(h)' = None
    BY <1>1, <1>2, <1>7, <1>9, <1>12, <1>13 DEF Inductive, Lineage
  <2>4. ASSUME NEW n \in Turns, turn'[n].at # "none"
        PROVE  turn'[n].generation \in Generations /\ ProcessOf(turn[n].generation)' # None
    <3>1. PICK h : h = turn[n].generation
      OBVIOUS
    <3>2. turn'[n].generation = h /\ h \in Generations /\ ProcessOf(h) # None
      BY <2>4, <3>1 DEF Inductive, Lineage
    <3>3. QED
      BY <1>1, <1>12, <3>2 DEF ProcessOf
  <2>5. Shown' => ProcessOf(thread.generation)' # None
    <3>1. thread'.generation = g
      BY <1>4 DEF NewThread
    <3>2. QED
      BY <1>1, <1>2, <1>13, <3>1 DEF ProcessOf
  <2>6. QED
    BY <2>1, <2>2, <2>3, <2>4, <2>5 DEF Lineage
<1>15. OneProcessPerAgent'
  <2>1. ASSUME NEW q \in Generations, Spawned(q)'
        PROVE  chan'[q].listening <=> cache'[started'[q].key] = q
    <3>1. CASE q = g
      <4>1. p = g /\ cache'[k] = g
        BY <1>1, <1>4, <1>10, <2>1, <3>1 DEF Inductive, Typed
      <4>2. chan[g].listening
        BY <1>1 DEF Inductive, Tidings
      <4>3. QED
        BY <1>1, <1>6, <1>13, <3>1, <4>1, <4>2 DEF CallsOnly
    <3>2. CASE q # g
      <4>1. Spawned(q) /\ started'[q] = started[q] /\ started[q].key \in Keys
        BY <1>1, <1>9, <1>10, <2>1, <3>2 DEF Inductive, Lineage, Spawned, ProcessOf
      <4>2. cache'[started[q].key] = q <=> cache[started[q].key] = q
        BY <1>1, <1>2, <1>4, <1>a, <3>2, <4>1 DEF Inductive, Typed
      <4>3. QED
        BY <1>6, <4>1, <4>2 DEF Inductive, OneProcessPerAgent, CallsOnly
    <3>3. QED
      BY <3>1, <3>2
  <2>2. QED
    BY <2>1 DEF OneProcessPerAgent
<1>16. Queue' /\ ThreadIsItsOwn' /\ Nothing'
  BY <1>4, FS_EmptySet, PaneAssumption DEF Queue, ThreadIsItsOwn, Nothing, NewThread
<1>17. OneTurnAtATime'
  <2>1. ASSUME NEW n \in Turns, turn[n].at = "running"
        PROVE  ProcessOf(turn[n].generation)' = ProcessOf(turn[n].generation)
    BY <1>1, <1>12, <2>1 DEF Inductive, Lineage, ProcessOf
  <2>2. QED
    BY <1>6, <2>1 DEF Inductive, OneTurnAtATime, CallsOnly, Lineage, Typed, ProcessOf
<1>18. Settled'
  <2>1. \A n \in Turns : turn[n].at = "running" => turn[n].generation # g
    BY <1>1 DEF Inductive, Lineage
  <2>2. thread'.generation = g
    BY <1>4 DEF NewThread
  <2>3. QED
    BY <2>1, <2>2 DEF Settled
<1>19. QED
  BY <1>8, <1>11, <1>14, <1>15, <1>16, <1>17, <1>18 DEF Inductive

-----------------------------------------------------------------------------
(* Turns *)

LEMMA CallsKeepProcesses ==
    ASSUME Inductive, CallsOnly, UNCHANGED <<cache, started, session>>
    PROVE  Room' /\ Tidings' /\ OneProcessPerAgent'
<1>1. \A p \in Generations : Spawned(p)' <=> Spawned(p)
  BY DEF Spawned
<1>2. Room' /\ Tidings'
  BY <1>1, CallsKeepStreams
<1>3. OneProcessPerAgent'
  BY <1>1 DEF Inductive, OneProcessPerAgent, CallsOnly
<1>4. QED
  BY <1>2, <1>3

\* Whether the thread has a turn says nothing of what it shows.
LEMMA RunningKeepsThread ==
    ASSUME Inductive, Shown, NEW b \in BOOLEAN, thread' = [thread EXCEPT !.running = b],
           UNCHANGED session
    PROVE  /\ thread' \in PaneThread /\ thread'.running = b
           /\ thread'.generation = thread.generation
           /\ Queue' /\ ThreadIsItsOwn' /\ Nothing'
<1>1. thread \in PaneThread
  BY DEF Inductive, Typed, Shown
<1>2. /\ thread' \in PaneThread /\ thread'.running = b
      /\ thread'.generation = thread.generation /\ thread'.session = thread.session
      /\ thread'.shown = thread.shown /\ thread'.pending = thread.pending
  BY <1>1 DEF PaneThread
<1>3. QED
  BY <1>2 DEF Inductive, Queue, ThreadIsItsOwn, Nothing, Shown

\* A message is sent when the pane says that its thread has stopped.
LEMMA PromptKeeps ==
    ASSUME Inductive, Ready, Unsent # {}, Prompt, UNCHANGED <<cache, started, session>>,
           ask' \in BOOLEAN, effect' \in BOOLEAN
    PROVE  Inductive'
<1>1. PICK n : n = NextTurn
  OBVIOUS
<1>2. PICK g : g = thread.generation
  OBVIOUS
<1>3. PICK p : p = ProcessOf(g)
  OBVIOUS
<1>4. n \in Turns /\ turn[n].at = "none"
  BY <1>1, NextIsUnsent DEF Unsent
<1>5. Shown /\ g \in Generations /\ p \in Generations /\ p # None /\ ~thread.running
  BY <1>2, <1>3 DEF Ready, Inductive, Typed, Lineage, PaneThread, Shown, ProcessOf
<1>6. /\ turn' = [turn EXCEPT ![n] = [generation |-> g, at |-> "running"]]
      /\ thread' = [thread EXCEPT !.running = TRUE]
      /\ chan' = [chan EXCEPT ![p] = Channel!Moved(@, <<"prompt", n>>, "open")]
  BY <1>1, <1>2, <1>3 DEF Prompt, Opening
<1>7. CallsOnly
  <2>1. <<"prompt", n>> \in Requests
    BY <1>4 DEF Requests
  <2>2. QED
    BY <1>5, <1>6, <2>1, OneCall DEF Inductive, CallState
<1>8. Room' /\ Tidings' /\ OneProcessPerAgent'
  BY <1>7, CallsKeepProcesses
<1>9. /\ thread' \in PaneThread /\ thread'.running /\ thread'.generation = g
      /\ Queue' /\ ThreadIsItsOwn' /\ Nothing'
  BY <1>2, <1>5, <1>6, RunningKeepsThread
<1>10. /\ turn'[n] = [generation |-> g, at |-> "running"]
       /\ \A m \in Turns : m # n => turn'[m] = turn[m]
  BY <1>4, <1>6 DEF Inductive, Typed
<1>11. Typed'
  BY <1>4, <1>5, <1>6, <1>7, <1>9 DEF Inductive, Typed, CallsOnly
<1>12. Lineage'
  BY <1>2, <1>3, <1>5, <1>9, <1>10 DEF Inductive, Lineage, ProcessOf, Spawned
<1>13. OneTurnAtATime'
  <2>1. ASSUME NEW m \in Turns, turn[m].at = "running", turn[m].generation = g
        PROVE  chan'[p].over
    BY <1>2, <1>3, <1>5, <1>7, <2>1 DEF Inductive, Settled, CallsOnly
  <2>2. ASSUME NEW m \in Turns, NEW o \in Turns, m # o,
               turn'[m].at = "running", turn'[o].at = "running",
               turn'[m].generation = turn'[o].generation
        PROVE  chan'[started'[turn'[m].generation].process].over
    <3>1. CASE m = n \/ o = n
      BY <1>3, <1>10, <2>1, <2>2, <3>1 DEF ProcessOf
    <3>2. CASE m # n /\ o # n
      BY <1>7, <1>10, <2>2, <3>2
         DEF Inductive, OneTurnAtATime, CallsOnly, Lineage, Typed, ProcessOf
    <3>3. QED
      BY <3>1, <3>2
  <2>3. QED
    BY <2>2 DEF OneTurnAtATime, ProcessOf
<1>14. QED
  BY <1>8, <1>9, <1>11, <1>12, <1>13 DEF Inductive, Settled

\* A step that touches neither the processes nor the thread nor the turns
LEMMA FlagsKeep ==
    ASSUME Inductive, UNCHANGED <<chan, cache, started, turn, thread, session>>,
           ask' \in BOOLEAN, effect' \in BOOLEAN
    PROVE  Inductive'
<1>1. CallsOnly
  BY NoCall DEF Inductive
<1>2. Room' /\ Tidings' /\ OneProcessPerAgent'
  BY <1>1, CallsKeepProcesses
<1>3. QED
  BY <1>2 DEF Inductive, Typed, Queue, Lineage, ThreadIsItsOwn, Nothing, OneTurnAtATime, Settled,
              Shown, ProcessOf, Spawned

\* The result of a turn: the spinner stops if the thread is still there.
LEMMA TurnEndsKeeps ==
    ASSUME Inductive, NEW n \in Turns, TurnEnds(n)
    PROVE  Inductive'
<1>1. PICK g : g = turn[n].generation
  OBVIOUS
<1>2. PICK p : p = ProcessOf(g)
  OBVIOUS
<1>3. g \in Generations /\ p \in Generations /\ p # None /\ turn[n].at = "running"
  BY <1>1, <1>2 DEF TurnEnds, Inductive, Lineage, Typed, ProcessOf
<1>4. CallsOnly
  <2>1. CASE chan' = [chan EXCEPT ![p] = Channel!Moved(@, <<"prompt", n>>, "ok")]
    BY <1>3, <2>1, OneCall DEF Inductive, CallState, Requests
  <2>2. CASE UNCHANGED chan
    BY <2>2, NoCall DEF Inductive
  <2>3. QED
    BY <1>1, <1>2, <2>1, <2>2 DEF TurnEnds, Returning
<1>5. /\ turn' = [turn EXCEPT ![n].at = "delivered"]
      /\ thread' = IF Current(g) THEN [thread EXCEPT !.running = FALSE] ELSE thread
      /\ UNCHANGED <<cache, started, ask, effect, session>>
  BY <1>1 DEF TurnEnds
<1>6. Room' /\ Tidings' /\ OneProcessPerAgent'
  BY <1>4, <1>5, CallsKeepProcesses
<1>7. /\ thread' \in PaneThread \cup {None} /\ Queue' /\ ThreadIsItsOwn' /\ Nothing'
      /\ Shown' => Shown /\ thread'.generation = thread.generation
                   /\ (thread'.generation # g => thread'.running = thread.running)
  <2>1. CASE Current(g)
    BY <1>5, <2>1, RunningKeepsThread DEF Current
  <2>2. CASE ~Current(g)
    BY <1>5, <2>2 DEF Inductive, Typed, Queue, ThreadIsItsOwn, Nothing, Shown
  <2>3. QED
    BY <2>1, <2>2
<1>8. \A m \in Turns : /\ turn'[m].generation = turn[m].generation
                       /\ turn'[m].at = "running" => turn[m].at = "running" /\ m # n
                       /\ turn'[m].at # "none" => turn[m].at # "none"
  BY <1>3, <1>5 DEF Inductive, Typed
<1>9. Typed'
  BY <1>4, <1>5, <1>7 DEF Inductive, Typed, CallsOnly
<1>10. Lineage'
  BY <1>5, <1>7, <1>8 DEF Inductive, Lineage, ProcessOf, Spawned
<1>11. OneTurnAtATime'
  BY <1>4, <1>5, <1>8 DEF Inductive, OneTurnAtATime, CallsOnly, Lineage, Typed, ProcessOf
<1>12. Settled'
  <2>1. ASSUME Shown', ~thread'.running, NEW m \in Turns, turn'[m].at = "running",
               turn'[m].generation = thread'.generation
        PROVE  chan'[started'[thread'.generation].process].over
    <3>1. /\ turn[m].at = "running" /\ m # n /\ turn[m].generation = thread.generation
          /\ thread'.generation = thread.generation /\ Shown
      BY <1>7, <1>8, <2>1
    <3>2. CASE thread.generation = g
      <4>1. chan[ProcessOf(g)].over
        BY <1>1, <1>3, <3>1, <3>2 DEF Inductive, OneTurnAtATime
      <4>2. QED
        BY <1>2, <1>3, <1>4, <1>5, <3>1, <3>2, <4>1 DEF CallsOnly, ProcessOf
    <3>3. CASE thread.generation # g
      <4>1. chan[ProcessOf(thread.generation)].over
        BY <1>7, <2>1, <3>1, <3>3 DEF Inductive, Settled
      <4>2. ProcessOf(thread.generation) \in Generations
        BY <3>1 DEF Inductive, Lineage, Typed, ProcessOf, PaneThread, Shown
      <4>3. QED
        BY <1>4, <1>5, <3>1, <4>1, <4>2 DEF CallsOnly, ProcessOf
    <3>4. QED
      BY <3>2, <3>3
  <2>2. QED
    BY <2>1 DEF Settled, ProcessOf
<1>13. QED
  BY <1>6, <1>7, <1>9, <1>10, <1>11, <1>12 DEF Inductive

-----------------------------------------------------------------------------
(* The handshake of a thread *)

\* The thread in the pane stays as it is, or learns its own session.
LEMMA HandshakeKeeps ==
    ASSUME Inductive, NEW g \in Generations, Handshake(g)
    PROVE  Inductive'
<1>1. PICK p : p = ProcessOf(g)
  OBVIOUS
<1>2. started[g].at \in {"initialize", "session"}
  BY DEF Handshake, Initialized, SessionReady, SessionFails, Handshaking
<1>3. p \in Generations /\ p # None
  BY <1>1, <1>2 DEF Inductive, Lineage, Typed, ProcessOf
<1>4. PICK s \in {"session", "delivered"} : started' = [started EXCEPT ![g].at = s]
  BY DEF Handshake, Initialized, SessionReady, SessionFails
<1>5. CallsOnly
  <2>1. <<"initialize", g>> \in Requests /\ <<"session", g>> \in Requests
    BY DEF Requests
  <2>2. CASE Initialized(g)
    <3>1. chan' = [chan EXCEPT ![p] = Channel!Moved(Channel!Moved(chan[p], <<"initialize", g>>, "ok"),
                                                    <<"session", g>>, "open")]
      BY <1>1, <2>2 DEF Initialized
    <3>2. chan[p] \in ChannelRecord
      BY <1>3 DEF Inductive, Typed
    <3>3. PICK c : c = Channel!Moved(chan[p], <<"initialize", g>>, "ok")
      OBVIOUS
    <3>4. /\ c \in ChannelRecord /\ c.stream = chan[p].stream
          /\ c.over = chan[p].over /\ c.listening = chan[p].listening
      BY <2>1, <3>2, <3>3, CallMoves DEF CallState
    <3>5. PICK d : d = Channel!Moved(c, <<"session", g>>, "open")
      OBVIOUS
    <3>6. /\ d \in ChannelRecord /\ d.stream = chan[p].stream
          /\ d.over = chan[p].over /\ d.listening = chan[p].listening
      BY <2>1, <3>4, <3>5, CallMoves DEF CallState
    <3>7. chan' = [chan EXCEPT ![p] = d]
      BY <3>1, <3>3, <3>5
    <3>8. QED
      BY <1>3, <3>6, <3>7 DEF Inductive, Typed, CallsOnly
  <2>3. CASE SessionReady(g)
    BY <1>1, <1>3, <2>1, <2>3, OneCall DEF SessionReady, Returning, Inductive, CallState
  <2>4. CASE SessionFails(g)
    BY <2>4, NoCall DEF SessionFails, Inductive
  <2>5. QED
    BY <2>2, <2>3, <2>4 DEF Handshake
<1>6. /\ UNCHANGED <<cache, turn, ask, session>> /\ effect' \in BOOLEAN
      /\ \/ UNCHANGED thread
         \/ Shown /\ thread.generation = g /\ thread' = [thread EXCEPT !.session = g]
  BY DEF Handshake, Initialized, SessionReady, SessionFails, Current, Inductive, Typed
<1>7. \A h \in Generations :
          /\ started'[h].process = started[h].process /\ started'[h].key = started[h].key
          /\ started'[h].at = "none" <=> started[h].at = "none"
  BY <1>2, <1>4 DEF Inductive, Typed
<1>8. \A q \in Generations : Spawned(q)' <=> Spawned(q)
  BY <1>7 DEF Spawned
<1>9. Room' /\ Tidings'
  BY <1>5, <1>6, <1>8, CallsKeepStreams
<1>10. OneProcessPerAgent'
  BY <1>5, <1>6, <1>7, <1>8 DEF Inductive, OneProcessPerAgent, CallsOnly
<1>11. /\ thread' \in PaneThread \cup {None}
       /\ Queue' /\ ThreadIsItsOwn' /\ Nothing'
       /\ Shown' => /\ Shown /\ thread'.generation = thread.generation
                    /\ thread'.running = thread.running
  <2>1. CASE UNCHANGED thread
    BY <1>6, <2>1 DEF Inductive, Typed, Queue, ThreadIsItsOwn, Nothing, Shown
  <2>2. CASE Shown /\ thread.generation = g /\ thread' = [thread EXCEPT !.session = g]
    <3>1. thread \in PaneThread
      BY <2>2 DEF Inductive, Typed, Shown
    <3>2. /\ thread' \in PaneThread /\ thread'.session = g /\ thread'.generation = g
          /\ thread'.running = thread.running
          /\ thread'.shown = thread.shown /\ thread'.pending = thread.pending
      BY <2>2, <3>1 DEF PaneThread
    <3>3. None \notin Generations
      BY PaneAssumption DEF Generations
    <3>4. QED
      BY <1>6, <2>2, <3>2, <3>3 DEF Inductive, Queue, ThreadIsItsOwn, Nothing, Shown
  <2>3. QED
    BY <1>6, <2>1, <2>2
<1>12. Typed'
  <2>1. started' \in [Generations -> [key : Keys \cup {None}, process : Generations \cup {None}, at : Stage]]
    BY <1>4 DEF Inductive, Typed, Stage
  <2>2. QED
    BY <1>5, <1>6, <1>11, <2>1 DEF Inductive, Typed, CallsOnly
<1>13. Lineage'
  BY <1>6, <1>7, <1>8, <1>11 DEF Inductive, Lineage, Typed, ProcessOf, Spawned, PaneThread, Shown
<1>14. OneTurnAtATime' /\ Settled'
  <2>1. \A h \in Generations : ProcessOf(h)' = ProcessOf(h)
    BY <1>7 DEF ProcessOf
  <2>2. \A h \in Generations : ProcessOf(h) # None =>
           chan'[ProcessOf(h)].over = chan[ProcessOf(h)].over
    BY <1>5 DEF Inductive, Typed, ProcessOf, CallsOnly
  <2>3. \A n \in Turns : turn[n].at = "running" =>
           turn[n].generation \in Generations /\ ProcessOf(turn[n].generation) # None
    BY DEF Inductive, Lineage
  <2>4. OneTurnAtATime'
    BY <1>6, <2>1, <2>2, <2>3 DEF Inductive, OneTurnAtATime
  <2>5. Settled'
    <3>1. Shown => thread.generation \in Generations /\ ProcessOf(thread.generation) # None
      BY DEF Inductive, Typed, Lineage, Shown, PaneThread
    <3>2. QED
      BY <1>6, <1>11, <2>1, <2>2, <3>1 DEF Inductive, Settled
  <2>6. QED
    BY <2>4, <2>5
<1>15. QED
  BY <1>9, <1>10, <1>11, <1>12, <1>13, <1>14 DEF Inductive

-----------------------------------------------------------------------------
(* Clicks, and agents *)

\* Answering and cancelling only take responders and cards away.
LEMMA AnsweringKeeps ==
    ASSUME Inductive, Shown, NEW t \in PaneThread, thread' = t,
           t.generation = thread.generation, t.session = thread.session,
           t.running = thread.running, t.shown = thread.shown, t.pending \subseteq thread.pending,
           UNCHANGED <<chan, cache, started, turn, ask, effect, session>>
    PROVE  Inductive'
<1>1. CallsOnly
  BY NoCall DEF Inductive
<1>2. Room' /\ Tidings' /\ OneProcessPerAgent'
  BY <1>1, CallsKeepProcesses
<1>3. Queue'
  <2>1. IsFiniteSet(thread.pending) /\ Cardinality(thread.pending) <= MaxPermissions
    BY DEF Inductive, Queue
  <2>2. /\ IsFiniteSet(t.pending) /\ Cardinality(t.pending) <= Cardinality(thread.pending)
        /\ Cardinality(t.pending) \in Nat /\ Cardinality(thread.pending) \in Nat
    BY <2>1, FS_Subset, FS_CardinalityType
  <2>3. QED
    BY <2>1, <2>2, PaneAssumption DEF Queue
<1>4. ThreadIsItsOwn' /\ Nothing'
  BY DEF Inductive, ThreadIsItsOwn, Nothing, Shown
<1>5. Typed'
  BY DEF Inductive, Typed
<1>6. Lineage' /\ OneTurnAtATime' /\ Settled'
  BY DEF Inductive, Lineage, OneTurnAtATime, Settled, Shown, ProcessOf, Spawned
<1>7. QED
  BY <1>2, <1>3, <1>4, <1>5, <1>6 DEF Inductive

LEMMA ClicksKeep ==
    ASSUME Inductive, Cancel \/ \E a \in Asks : Click(a)
    PROVE  Inductive'
<1>1. Shown /\ thread \in PaneThread
  BY DEF Cancel, Click, Inductive, Typed, Shown
<1>2. CASE Cancel
  <2>1. PICK t : t = [thread EXCEPT !.pending = {}, !.cards = @ \ thread.pending]
    OBVIOUS
  <2>2. /\ t \in PaneThread /\ t.generation = thread.generation /\ t.session = thread.session
        /\ t.running = thread.running /\ t.shown = thread.shown /\ t.pending = {}
    BY <1>1, <2>1 DEF PaneThread
  <2>3. QED
    BY <1>1, <1>2, <2>1, <2>2, AnsweringKeeps DEF Cancel
<1>3. ASSUME NEW a \in Asks, Click(a) PROVE Inductive'
  <2>1. PICK t : t = IF a \in thread.pending
                     THEN [thread EXCEPT !.pending = @ \ {a}, !.cards = @ \ {a}] ELSE thread
    OBVIOUS
  <2>2. /\ t \in PaneThread /\ t.generation = thread.generation /\ t.session = thread.session
        /\ t.running = thread.running /\ t.shown = thread.shown /\ t.pending \subseteq thread.pending
    BY <1>1, <2>1 DEF PaneThread
  <2>3. QED
    BY <1>1, <1>3, <2>1, <2>2, AnsweringKeeps DEF Click
<1>4. QED
  BY <1>2, <1>3

\* A process that is over stays over, and so do the excuses of its turns.
LEMMA EndsKeepTurns ==
    ASSUME Inductive, \A q \in Generations : chan[q].over => chan'[q].over,
           UNCHANGED <<started, turn, thread>>
    PROVE  OneTurnAtATime' /\ Settled'
<1>1. /\ \A n \in Turns : turn[n].at = "running" => ProcessOf(turn[n].generation) \in Generations
      /\ Shown => ProcessOf(thread.generation) \in Generations
  BY DEF Inductive, Lineage, Typed, ProcessOf, PaneThread, Shown
<1>2. QED
  BY <1>1 DEF Inductive, OneTurnAtATime, Settled, ProcessOf, Shown

LEMMA RepliesKeep ==
    ASSUME Inductive, NEW p \in Generations, NEW i \in Requests, Answer(p, i) \/ Fail(p, i)
    PROVE  Inductive'
<1>1. PICK state \in {"answered", "failed"} : chan' = [chan EXCEPT ![p] = Channel!Moved(@, i, state)]
  BY DEF Answer, Fail, Step
<1>2. UNCHANGED <<cache, started, session, turn, thread, ask, effect>>
  BY DEF Answer, Fail
<1>3. CallsOnly
  BY <1>1, OneCall DEF Inductive, CallState
<1>4. Room' /\ Tidings' /\ OneProcessPerAgent'
  BY <1>2, <1>3, CallsKeepProcesses
<1>5. Typed' /\ Queue' /\ Lineage' /\ ThreadIsItsOwn' /\ Nothing'
  BY <1>2, <1>3 DEF Inductive, Typed, Queue, Lineage, ThreadIsItsOwn, Nothing, CallsOnly,
                    Shown, ProcessOf, Spawned
<1>6. OneTurnAtATime' /\ Settled'
  BY <1>2, <1>3, EndsKeepTurns DEF CallsOnly
<1>7. QED
  BY <1>4, <1>5, <1>6 DEF Inductive

\* A process says something that is true, or ends.
LEMMA SayingKeeps ==
    ASSUME Inductive, NEW p \in Generations, NEW c \in ChannelRecord, NEW event \in Tiding,
           chan' = [chan EXCEPT ![p] = c],
           c.stream = chan[p].stream \/ c.stream = Append(chan[p].stream, event),
           Len(c.stream) <= EventCapacity + 1, ~c.over => Len(c.stream) <= EventCapacity,
           chan[p].over => c.over, c.listening = chan[p].listening, Known(p, event)',
           UNCHANGED <<cache, started, turn, thread, ask, effect>>,
           session' \in [Asks -> Generations \cup {None}],
           \A a \in Asks : session[a] # None => session'[a] = session[a]
    PROVE  Inductive'
<1>1. /\ chan'[p] = c /\ \A q \in Generations : q # p => chan'[q] = chan[q]
      /\ chan \in [Generations -> ChannelRecord]
  BY DEF Inductive, Typed
<1>2. Typed'
  BY DEF Inductive, Typed
<1>3. Room'
  BY <1>1 DEF Inductive, Room
<1>4. \A q \in Generations : Spawned(q)' <=> Spawned(q)
  BY DEF Spawned
<1>5. Tidings'
  <2>1. ASSUME NEW q \in Generations, NEW old \in Tiding, Known(q, old) PROVE Known(q, old)'
    BY <1>1, <2>1 DEF Known, Channel!Closed
  <2>2. ASSUME NEW q \in Generations, NEW i \in 1..Len(chan'[q].stream)
        PROVE  Known(q, chan[q].stream[i])'
    <3>1. PICK e : e = chan'[q].stream[i]
      OBVIOUS
    <3>2. chan[q].stream \in Seq(Tiding)
      BY <1>1 DEF ChannelRecord
    <3>3. CASE i \in 1..Len(chan[q].stream)
      <4>1. e = chan[q].stream[i]
        BY <1>1, <3>1, <3>2, <3>3
      <4>2. e \in Tiding /\ Known(q, e)
        BY <3>2, <3>3, <4>1 DEF Inductive, Tidings
      <4>3. Known(q, e)'
        BY <2>1, <4>2
      <4>4. QED
        BY <3>1, <4>3 DEF Known, Channel!Closed
    <3>4. CASE i \notin 1..Len(chan[q].stream)
      <4>1. q = p /\ c.stream = Append(chan[p].stream, event)
        BY <1>1, <3>2, <3>4
      <4>2. i \in 1..Len(c.stream) /\ Len(c.stream) = Len(chan[p].stream) + 1
        BY <1>1, <3>2, <4>1
      <4>3. e = event
        BY <1>1, <3>1, <3>2, <3>4, <4>1, <4>2
      <4>4. QED
        BY <3>1, <4>1, <4>3 DEF Known, Channel!Closed
    <3>5. QED
      BY <3>3, <3>4
  <2>3. ASSUME NEW q \in Generations, ~chan'[q].listening PROVE Spawned(q)' /\ chan'[q].over
    BY <1>1, <1>4, <2>3 DEF Inductive, Tidings
  <2>4. QED
    BY <2>2, <2>3 DEF Tidings
<1>6. OneProcessPerAgent'
  BY <1>1, <1>4 DEF Inductive, OneProcessPerAgent
<1>7. ThreadIsItsOwn' /\ Nothing' /\ Queue'
  BY DEF Inductive, Typed, ThreadIsItsOwn, Nothing, Queue, Shown, PaneThread
<1>8. Lineage'
  BY DEF Inductive, Lineage, ProcessOf, Spawned, Shown
<1>9. OneTurnAtATime' /\ Settled'
  BY <1>1, EndsKeepTurns
<1>10. QED
  BY <1>2, <1>3, <1>5, <1>6, <1>7, <1>8, <1>9 DEF Inductive

LEMMA EmitKeeps ==
    ASSUME Inductive, NEW p \in Generations, NEW g \in Generations, NEW event \in Tiding,
           Emit(p, g, event), event # Channel!Stderr, Known(p, event)',
           UNCHANGED <<cache, started, turn, thread, ask, effect>>,
           session' \in [Asks -> Generations \cup {None}],
           \A a \in Asks : session[a] # None => session'[a] = session[a]
    PROVE  Inductive'
<1>1. PICK longer : longer = Append(chan[p].stream, event)
  OBVIOUS
<1>c. PICK c : c = [chan[p] EXCEPT !.stream = longer]
  OBVIOUS
<1>2. /\ chan[p] \in ChannelRecord /\ chan[p].stream \in Seq(Tiding)
      /\ Len(chan[p].stream) \in Nat /\ EventCapacity \in Nat
  BY PaneAssumption DEF Inductive, Typed, ChannelRecord
<1>3. /\ chan[p].listening /\ ~chan[p].over /\ Len(chan[p].stream) < EventCapacity
      /\ chan' = [chan EXCEPT ![p] = c]
  BY <1>1, <1>c DEF Emit, Channel!CanEmit, Channel!Emitted, Step
<1>d. longer \in Seq(Tiding) /\ Len(longer) = Len(chan[p].stream) + 1
  BY <1>1, <1>2
<1>4. /\ c \in ChannelRecord /\ c.stream = Append(chan[p].stream, event)
      /\ c.over = chan[p].over /\ c.listening = chan[p].listening
  <2>1. PICK k : k = chan[p]
    OBVIOUS
  <2>2. k \in ChannelRecord /\ c = [k EXCEPT !.stream = longer]
    BY <1>2, <1>c, <2>1
  <2>3. /\ c \in ChannelRecord /\ c.stream = longer
        /\ c.over = k.over /\ c.listening = k.listening
    BY <1>d, <2>2 DEF ChannelRecord
  <2>4. QED
    BY <1>1, <2>1, <2>3
<1>5. Len(c.stream) = Len(chan[p].stream) + 1
  <2>1. c.stream = longer
    BY <1>1, <1>4, Zenon
  <2>2. QED
    BY <1>d, <2>1, Zenon
<1>6. Len(c.stream) <= EventCapacity + 1 /\ Len(c.stream) <= EventCapacity
  BY <1>2, <1>3, <1>5
<1>7. chan[p].over => c.over
  BY <1>3
<1>8. QED
  BY <1>3, <1>4, <1>6, <1>7, SayingKeeps, Zenon

LEMMA AgentsKeep ==
    ASSUME Inductive, NEW p \in Generations,
           \/ Close(p)
           \/ \E g \in Generations : Says(p, g) \/ \E a \in Asks : AsksPermission(p, g, a)
    PROVE  Inductive'
<1>1. CASE Close(p)
  <2>1. PICK c : c = Channel!Ended(chan[p])
    OBVIOUS
  <2>2. /\ chan[p] \in ChannelRecord /\ chan[p].stream \in Seq(Tiding)
        /\ Len(chan[p].stream) \in Nat /\ EventCapacity \in Nat /\ ~chan[p].over
        /\ Len(chan[p].stream) <= EventCapacity
    BY <1>1, PaneAssumption DEF Close, Inductive, Typed, Room, ChannelRecord
  <2>3. Channel!Closed \in Tiding
    BY DEF Channel!Closed, Tiding
  <2>a. PICK longer : longer = Append(chan[p].stream, Channel!Closed)
    OBVIOUS
  <2>b. longer \in Seq(Tiding) /\ Len(longer) = Len(chan[p].stream) + 1
    BY <2>2, <2>3, <2>a
  <2>4. /\ c \in ChannelRecord /\ c.over /\ c.listening = chan[p].listening
        /\ c.stream = chan[p].stream \/ c.stream = Append(chan[p].stream, Channel!Closed)
    <3>1. c = IF chan[p].listening THEN [chan[p] EXCEPT !.over = TRUE, !.stream = longer]
                                   ELSE [chan[p] EXCEPT !.over = TRUE]
      BY <2>1, <2>2, <2>a DEF Channel!Ended, Channel!Emitted, ChannelRecord
    <3>2. QED
      BY <2>2, <2>a, <2>b, <3>1 DEF ChannelRecord
  <2>5. Len(c.stream) <= EventCapacity + 1
    BY <2>2, <2>4, <2>a, <2>b
  <2>6. /\ chan' = [chan EXCEPT ![p] = c]
        /\ UNCHANGED <<cache, started, turn, thread, ask, effect, session>>
    BY <1>1, <2>1 DEF Close, Step
  <2>7. Known(p, Channel!Closed)'
    BY <2>4, <2>6 DEF Known, Channel!Closed, Inductive, Typed
  <2>8. QED
    BY <2>2, <2>3, <2>4, <2>5, <2>6, <2>7, SayingKeeps DEF Inductive, Typed
<1>2. ASSUME NEW g \in Generations, Says(p, g) PROVE Inductive'
  <2>1. Update(g) \in Tiding /\ Known(p, Update(g))' /\ Update(g) # Channel!Stderr
    BY DEF Update, Tiding, Known, Channel!Stderr
  <2>2. QED
    BY <1>2, <2>1, EmitKeeps DEF Says, Inductive, Typed
<1>3. ASSUME NEW g \in Generations, NEW a \in Asks, AsksPermission(p, g, a) PROVE Inductive'
  <2>1. /\ session' = [session EXCEPT ![a] = g] /\ session[a] = None
        /\ session' \in [Asks -> Generations \cup {None}]
    BY <1>3 DEF AsksPermission, Inductive, Typed
  <2>2. session'[a] # None /\ \A b \in Asks : session[b] # None => session'[b] = session[b]
    BY <2>1, PaneAssumption DEF Generations, Inductive, Typed
  <2>3. Ask(a) \in Tiding /\ Known(p, Ask(a))' /\ Ask(a) # Channel!Stderr
    BY <2>2 DEF Ask, Tiding, Known, Channel!Stderr
  <2>4. QED
    BY <1>3, <2>1, <2>2, <2>3, EmitKeeps DEF AsksPermission
<1>4. QED
  BY <1>1, <1>2, <1>3

-----------------------------------------------------------------------------
(* The pump *)

\* What an event does to the thread: it shows no other session's words, and
\* queues no other session's request.
LEMMA EventApplies ==
    ASSUME Inductive, Shown, NEW p \in Generations, NEW event \in Tiding, Known(p, event),
           NEW t \in Applied(thread, event)
    PROVE  /\ t \in PaneThread /\ t.generation = thread.generation /\ t.session = thread.session
           /\ t.running = IF event = Channel!Closed THEN FALSE ELSE thread.running
           /\ t.shown \subseteq {t.session}
           /\ t.session = None => t.shown = {} /\ t.pending = {}
           /\ \A a \in t.pending : session[a] = t.session
           /\ IsFiniteSet(t.pending) /\ Cardinality(t.pending) <= MaxPermissions
<1>1. /\ thread \in PaneThread
      /\ thread.shown \subseteq {thread.session}
      /\ \A a \in thread.pending : session[a] = thread.session
      /\ thread.session = None => thread.shown = {} /\ thread.pending = {}
      /\ IsFiniteSet(thread.pending) /\ Cardinality(thread.pending) <= MaxPermissions
  BY DEF Inductive, Typed, ThreadIsItsOwn, Nothing, Queue, Shown
<1>2. PICK s \in Trimmed(thread) : t = Stops(Queues(Shows(s, event), event), event)
  BY DEF Applied
<1>3. /\ s \in PaneThread /\ s.generation = thread.generation /\ s.session = thread.session
      /\ s.running = thread.running /\ s.shown = thread.shown /\ s.pending = thread.pending
  BY <1>1 DEF Trimmed, PaneThread
<1>4. PICK u : u = Shows(s, event)
  OBVIOUS
<1>5. /\ u \in PaneThread /\ u.generation = s.generation /\ u.session = s.session
      /\ u.running = s.running /\ u.pending = s.pending
      /\ u.shown \subseteq {s.session} /\ (s.session = None => u.shown = {})
  <2>1. CASE event.kind = "update" /\ event.id = s.session
    <3>1. event.id \in Generations /\ event.id # None
      BY <2>1, PaneAssumption DEF Known, Channel!Closed, Generations
    <3>2. u = [s EXCEPT !.shown = @ \cup {event.id}]
      BY <1>4, <2>1 DEF Shows
    <3>3. QED
      BY <1>1, <1>3, <2>1, <3>1, <3>2 DEF PaneThread
  <2>2. CASE ~(event.kind = "update" /\ event.id = s.session)
    BY <1>1, <1>3, <1>4, <2>2 DEF Shows
  <2>3. QED
    BY <2>1, <2>2
<1>6. PICK w : w = Queues(u, event)
  OBVIOUS
<1>7. /\ w \in PaneThread /\ w.generation = u.generation /\ w.session = u.session
      /\ w.running = u.running /\ w.shown = u.shown
      /\ \A a \in w.pending : session[a] = u.session
      /\ u.session = None => w.pending = {}
      /\ IsFiniteSet(w.pending) /\ Cardinality(w.pending) <= MaxPermissions
  <2>1. CASE event.kind = "ask" /\ Cardinality(u.pending) < MaxPermissions
             /\ session[event.id] = u.session
    <3>1. event.id \in Asks /\ session[event.id] # None
      BY <2>1 DEF Known, Channel!Closed
    <3>2. w = [u EXCEPT !.pending = @ \cup {event.id}, !.cards = @ \cup {event.id}]
      BY <1>6, <2>1 DEF Queues
    <3>3. /\ w \in PaneThread /\ w.generation = u.generation /\ w.session = u.session
          /\ w.running = u.running /\ w.shown = u.shown
          /\ w.pending = u.pending \cup {event.id}
      BY <1>5, <3>1, <3>2 DEF PaneThread
    <3>4. /\ IsFiniteSet(w.pending)
          /\ Cardinality(w.pending) = Cardinality(u.pending)
             \/ Cardinality(w.pending) = Cardinality(u.pending) + 1
      <4>1. PICK queued : queued = u.pending
        OBVIOUS
      <4>2. IsFiniteSet(queued) /\ w.pending = queued \cup {event.id}
        BY <1>1, <1>3, <1>5, <3>3, <4>1
      <4>3. PICK x : x = event.id
        OBVIOUS
      <4>4. /\ IsFiniteSet(queued \cup {x})
            /\ Cardinality(queued \cup {x}) =
                  IF x \in queued THEN Cardinality(queued) ELSE Cardinality(queued) + 1
        BY <4>2, FS_AddElement
      <4>5. QED
        BY <4>1, <4>2, <4>3, <4>4
    <3>5. Cardinality(u.pending) \in Nat /\ MaxPermissions \in Nat
      BY <1>1, <1>3, <1>5, FS_CardinalityType, PaneAssumption
    <3>6. Cardinality(w.pending) <= MaxPermissions
      BY <2>1, <3>4, <3>5
    <3>7. QED
      BY <1>1, <1>3, <1>5, <2>1, <3>1, <3>3, <3>4, <3>6
  <2>2. CASE ~(event.kind = "ask" /\ Cardinality(u.pending) < MaxPermissions
               /\ session[event.id] = u.session)
    <3>1. w = u
      BY <1>6, <2>2 DEF Queues
    <3>2. QED
      BY <1>1, <1>3, <1>5, <3>1
  <2>3. QED
    BY <2>1, <2>2
<1>8. t = Stops(w, event)
  BY <1>2, <1>4, <1>6
<1>9. /\ t \in PaneThread /\ t.generation = w.generation /\ t.session = w.session
      /\ t.shown = w.shown /\ t.pending = w.pending
      /\ t.running = IF event = Channel!Closed THEN FALSE ELSE w.running
  <2>1. CASE event = Channel!Closed
    BY <1>7, <1>8, <2>1 DEF Stops, PaneThread
  <2>2. CASE event # Channel!Closed
    <3>1. t = w /\ w.running \in BOOLEAN
      BY <1>7, <1>8, <2>2 DEF Stops, PaneThread
    <3>2. QED
      BY <1>7, <2>2, <3>1
  <2>3. QED
    BY <2>1, <2>2
<1>10. QED
  BY <1>3, <1>5, <1>7, <1>9

\* A Closed that the thread heeds tells the truth about its process.
LEMMA ClosedIsTrue ==
    ASSUME Inductive, Shown, NEW p \in Generations, Spawned(p), chan[p].listening, chan[p].over,
           KeyOfThread = started[p].key
    PROVE  chan[ProcessOf(thread.generation)].over
<1>1. PICK q : q = ProcessOf(thread.generation)
  OBVIOUS
<1>2. q \in Generations /\ Spawned(q) /\ started[q].key = started[p].key
  BY <1>1 DEF Inductive, Lineage, Typed, ProcessOf, KeyOfThread, PaneThread, Shown
<1>3. CASE q = p
  BY <1>1, <1>3
<1>4. CASE q # p
  <2>1. cache[started[p].key] = p
    BY DEF Inductive, OneProcessPerAgent
  <2>2. ~chan[q].listening
    BY <1>2, <1>4, <2>1 DEF Inductive, OneProcessPerAgent
  <2>3. QED
    BY <1>1, <1>2, <2>2 DEF Inductive, Tidings
<1>5. QED
  BY <1>3, <1>4

LEMMA PumpKeeps ==
    ASSUME Inductive, NEW p \in Generations, Pump(p)
    PROVE  Inductive'
<1>1. PICK e : e = Head(chan[p].stream)
  OBVIOUS
<1>2. PICK c : c = Channel!Taken(chan[p])
  OBVIOUS
<1>3. /\ chan[p] \in ChannelRecord /\ chan[p].stream \in Seq(Tiding) /\ chan[p].stream # <<>>
      /\ Spawned(p) /\ chan[p].listening
  BY DEF Pump, Inductive, Typed, ChannelRecord
<1>4. e \in Tiding /\ Known(p, e)
  <2>1. 1 \in 1..Len(chan[p].stream) /\ e = chan[p].stream[1] /\ e \in Tiding
    BY <1>1, <1>3
  <2>2. QED
    BY <2>1 DEF Inductive, Tidings
<1>5. PICK rest : rest = Tail(chan[p].stream)
  OBVIOUS
<1>6. /\ rest \in Seq(Tiding) /\ Len(chan[p].stream) = Len(rest) + 1 /\ Len(rest) \in Nat
      /\ \A i \in 1..Len(rest) : rest[i] = chan[p].stream[i + 1] /\ i + 1 \in 1..Len(chan[p].stream)
  BY <1>3, <1>5
<1>7. c = IF e = Channel!Closed THEN [chan[p] EXCEPT !.listening = FALSE, !.stream = <<>>]
                                ELSE [chan[p] EXCEPT !.stream = rest]
  BY <1>1, <1>2, <1>5 DEF Channel!Taken, Channel!Left
<1>8. /\ c \in ChannelRecord /\ c.over = chan[p].over
      /\ c.stream = IF e = Channel!Closed THEN <<>> ELSE rest
      /\ c.listening <=> e # Channel!Closed
  <2>1. PICK k : k = chan[p]
    OBVIOUS
  <2>2. k \in ChannelRecord /\ k.listening
    BY <1>3, <2>1
  <2>3. CASE e = Channel!Closed
    <3>1. c = [k EXCEPT !.listening = FALSE, !.stream = <<>>] /\ <<>> \in Seq(Tiding)
      BY <1>7, <2>1, <2>3
    <3>2. QED
      BY <2>1, <2>2, <2>3, <3>1 DEF ChannelRecord
  <2>4. CASE e # Channel!Closed
    BY <1>6, <1>7, <2>1, <2>2, <2>4 DEF ChannelRecord
  <2>5. QED
    BY <2>3, <2>4
<1>9. /\ chan' = [chan EXCEPT ![p] = c]
      /\ cache' = IF e = Channel!Closed THEN [cache EXCEPT ![started[p].key] = None] ELSE cache
      /\ UNCHANGED <<started, turn, ask, effect, session>>
      /\ thread' \in IF Concerned(p) THEN Applied(thread, e) ELSE {thread}
  BY <1>1, <1>2 DEF Pump, Consumed, Evicted, Event
<1>10. /\ chan'[p] = c /\ \A q \in Generations : q # p => chan'[q] = chan[q]
       /\ chan \in [Generations -> ChannelRecord]
  BY <1>9 DEF Inductive, Typed
<1>11. \A q \in Generations : Spawned(q)' <=> Spawned(q)
  BY <1>9 DEF Spawned
<1>12. None \notin Generations
  BY PaneAssumption DEF Generations
<1>13. started[p].key \in Keys /\ cache[started[p].key] = p
  BY <1>3, <1>12 DEF Inductive, Lineage, OneProcessPerAgent, Spawned, ProcessOf
<1>14. /\ thread' \in PaneThread \cup {None}
       /\ Shown' => /\ Shown /\ thread'.generation = thread.generation
                    /\ thread'.running = thread.running
                       \/ (~thread'.running /\ Concerned(p) /\ e = Channel!Closed)
       /\ Queue' /\ ThreadIsItsOwn' /\ Nothing'
  <2>1. CASE Concerned(p)
    <3>1. Shown
      BY <2>1 DEF Concerned
    <3>2. thread' \in Applied(thread, e)
      BY <1>9, <2>1
    <3>3. PICK t \in Applied(thread, e) : thread' = t
      BY <3>2
    <3>4. /\ t \in PaneThread /\ t.generation = thread.generation /\ t.session = thread.session
          /\ t.running = IF e = Channel!Closed THEN FALSE ELSE thread.running
          /\ t.shown \subseteq {t.session}
          /\ t.session = None => t.shown = {} /\ t.pending = {}
          /\ \A a \in t.pending : session[a] = t.session
          /\ IsFiniteSet(t.pending) /\ Cardinality(t.pending) <= MaxPermissions
      BY <1>4, <3>1, EventApplies
    <3>5. t.session \in {None, t.generation}
      BY <3>1, <3>4 DEF Inductive, ThreadIsItsOwn
    <3>6. thread.running \in BOOLEAN
      BY <3>1 DEF Inductive, Typed, PaneThread, Shown
    <3>7. t.running = thread.running \/ (~t.running /\ e = Channel!Closed)
      <4>1. CASE e = Channel!Closed
        BY <3>4, <4>1
      <4>2. CASE e # Channel!Closed
        BY <3>4, <3>6, <4>2
      <4>3. QED
        BY <4>1, <4>2
    <3>8. QED
      BY <1>9, <2>1, <3>1, <3>3, <3>4, <3>5, <3>7 DEF Queue, ThreadIsItsOwn, Nothing, Shown
  <2>2. CASE ~Concerned(p)
    <3>1. thread' = thread /\ session' = session
      BY <1>9, <2>2
    <3>2. Queue' /\ ThreadIsItsOwn' /\ Nothing'
      BY <3>1 DEF Inductive, Queue, ThreadIsItsOwn, Nothing, Shown
    <3>3. thread' \in PaneThread \cup {None} /\ (Shown' => Shown)
      BY <3>1 DEF Inductive, Typed, Shown
    <3>4. thread'.generation = thread.generation /\ thread'.running = thread.running
      BY <3>1
    <3>5. QED
      BY <3>2, <3>3, <3>4, Zenon
  <2>3. QED
    BY <2>1, <2>2
<1>15. Typed'
  BY <1>8, <1>9, <1>14 DEF Inductive, Typed
<1>16. Room'
  <2>1. Len(c.stream) <= EventCapacity + 1 /\ (~c.over => Len(c.stream) <= EventCapacity)
    <3>1. /\ Len(chan[p].stream) <= EventCapacity + 1 /\ EventCapacity \in Nat
          /\ ~chan[p].over => Len(chan[p].stream) <= EventCapacity
      BY PaneAssumption DEF Inductive, Room
    <3>2. Len(c.stream) <= Len(rest) + 1
      BY <1>6, <1>8
    <3>3. Len(c.stream) \in Nat
      BY <1>6, <1>8
    <3>4. QED
      BY <1>6, <1>8, <3>1, <3>2, <3>3
  <2>2. QED
    BY <1>10, <2>1 DEF Inductive, Room
<1>17. Tidings'
  <2>1. ASSUME NEW q \in Generations, NEW old \in Tiding, Known(q, old) PROVE Known(q, old)'
    BY <1>8, <1>9, <1>10, <2>1 DEF Known, Channel!Closed
  <2>2. ASSUME NEW q \in Generations, NEW i \in 1..Len(chan'[q].stream)
        PROVE  Known(q, chan[q].stream[i])'
    <3>1. PICK n : n = chan'[q].stream[i]
      OBVIOUS
    <3>2. \E j \in 1..Len(chan[q].stream) : n = chan[q].stream[j]
      <4>1. CASE q # p
        BY <1>10, <3>1, <4>1
      <4>2. CASE q = p
        <5>1. chan'[q].stream = rest
          BY <1>8, <1>10, <4>2
        <5>2. QED
          BY <1>6, <3>1, <4>2, <5>1
      <4>3. QED
        BY <4>1, <4>2
    <3>3. n \in Tiding /\ Known(q, n)
      BY <1>10, <3>2 DEF Inductive, Tidings, ChannelRecord
    <3>4. Known(q, n)'
      BY <2>1, <3>3
    <3>5. QED
      BY <3>1, <3>4 DEF Known, Channel!Closed
  <2>3. ASSUME NEW q \in Generations, ~chan'[q].listening PROVE Spawned(q)' /\ chan'[q].over
    <3>1. CASE q = p
      <4>1. e = Channel!Closed
        BY <1>8, <1>10, <2>3, <3>1
      <4>2. chan[p].over
        BY <1>4, <4>1 DEF Known, Channel!Closed
      <4>3. QED
        BY <1>3, <1>8, <1>10, <1>11, <3>1, <4>2
    <3>2. CASE q # p
      BY <1>10, <1>11, <2>3, <3>2 DEF Inductive, Tidings
    <3>3. QED
      BY <3>1, <3>2
  <2>4. QED
    BY <2>2, <2>3 DEF Tidings
<1>18. Lineage'
  <2>1. \A k \in Keys : cache'[k] # None => cache'[k] = cache[k]
    BY <1>9, <1>13 DEF Inductive, Typed
  <2>2. QED
    BY <1>9, <1>14, <2>1 DEF Inductive, Lineage, ProcessOf, Spawned, Shown
<1>19. OneProcessPerAgent'
  <2>1. ASSUME NEW q \in Generations, Spawned(q)
        PROVE  chan'[q].listening <=> cache'[started[q].key] = q
    <3>1. started[q].key \in Keys /\ (chan[q].listening <=> cache[started[q].key] = q)
      BY <1>12, <2>1 DEF Inductive, Lineage, OneProcessPerAgent, Spawned, ProcessOf
    <3>2. CASE e = Channel!Closed
      <4>1. cache'[started[q].key] = IF started[q].key = started[p].key THEN None ELSE cache[started[q].key]
        BY <1>9, <1>13, <3>1, <3>2 DEF Inductive, Typed
      <4>2. QED
        BY <1>8, <1>10, <1>12, <1>13, <3>1, <3>2, <4>1
    <3>3. CASE e # Channel!Closed
      BY <1>3, <1>8, <1>9, <1>10, <3>1, <3>3
    <3>4. QED
      BY <3>2, <3>3
  <2>2. QED
    BY <1>9, <1>11, <2>1 DEF OneProcessPerAgent
<1>20. OneTurnAtATime' /\ Settled'
  <2>1. \A q \in Generations : chan'[q].over = chan[q].over
    BY <1>8, <1>10
  <2>2. /\ \A n \in Turns : turn[n].at = "running" => ProcessOf(turn[n].generation) \in Generations
        /\ Shown => ProcessOf(thread.generation) \in Generations
    BY DEF Inductive, Lineage, Typed, ProcessOf, PaneThread, Shown
  <2>3. e = Channel!Closed => chan[p].over
    BY <1>4 DEF Known, Channel!Closed
  <2>4. e = Channel!Closed /\ Concerned(p) => chan[ProcessOf(thread.generation)].over
    BY <1>3, <2>3, ClosedIsTrue DEF Concerned
  <2>5. QED
    BY <1>9, <1>14, <2>1, <2>2, <2>4 DEF Inductive, OneTurnAtATime, Settled, ProcessOf, Shown
<1>21. QED
  BY <1>14, <1>15, <1>16, <1>17, <1>18, <1>19, <1>20 DEF Inductive

-----------------------------------------------------------------------------
(* The theorems *)

LEMMA InductiveInit == Init => Inductive
<1> SUFFICES ASSUME Init PROVE Inductive
  OBVIOUS
<1>1. Typed
  <2>1. Channel!Opened \in ChannelRecord
    BY DEF Channel!Opened, ChannelRecord, CallState
  <2>2. QED
    BY <2>1 DEF Init, Typed, Stage
<1>2. ~Shown /\ \A p \in Generations : chan[p] = Channel!Opened
  BY DEF Init, Shown
<1>3. None \notin Generations
  BY PaneAssumption DEF Generations
<1>4. Room /\ Tidings
  BY <1>2, PaneAssumption DEF Room, Tidings, Channel!Opened
<1>5. Lineage /\ OneProcessPerAgent
  BY <1>2, <1>3 DEF Init, Lineage, OneProcessPerAgent, Spawned, ProcessOf
<1>6. OneTurnAtATime
  BY DEF Init, OneTurnAtATime
<1>7. QED
  BY <1>1, <1>2, <1>4, <1>5, <1>6 DEF Inductive, Queue, ThreadIsItsOwn, Nothing, Settled

LEMMA InductiveNext == Inductive /\ [Next]_vars => Inductive'
<1> SUFFICES ASSUME Inductive, [Next]_vars PROVE Inductive'
  OBVIOUS
<1>1. CASE UNCHANGED vars
  BY <1>1, FlagsKeep DEF vars, Inductive, Typed
<1>2. ASSUME NEW k \in Keys, StartThread(k) PROVE Inductive'
  BY <1>2, NextIsUnstarted, OpenKeeps DEF StartThread, Inductive, Typed
<1>3. ASSUME NEW g \in Generations, Handshake(g) PROVE Inductive'
  BY <1>3, HandshakeKeeps
<1>4. CASE Send
  BY <1>4, PromptKeeps DEF Send, Inductive, Typed
<1>5. CASE AskAbout
  <2>1. CASE Ready /\ Prompt /\ UNCHANGED <<cache, started, ask>>
    BY <1>5, <2>1, PromptKeeps DEF AskAbout, Inductive, Typed
  <2>2. ASSUME ask' = TRUE, UNCHANGED turn, Unstarted # {}, NEW k \in Keys, Open(k, NextGeneration)
        PROVE  Inductive'
    BY <1>5, <2>2, NextIsUnstarted, OpenKeeps DEF AskAbout
  <2>3. CASE ask' = TRUE /\ UNCHANGED <<turn, chan, cache, started, thread>>
    BY <1>5, <2>3, FlagsKeep DEF AskAbout, Inductive, Typed
  <2>4. QED
    BY <1>5, <2>1, <2>2, <2>3 DEF AskAbout
<1>6. CASE DrainEffects
  <2>1. CASE ask /\ Ready
    BY <1>6, <2>1, PromptKeeps DEF DrainEffects
  <2>2. CASE ~(ask /\ Ready)
    BY <1>6, <2>2, FlagsKeep DEF DrainEffects
  <2>3. QED
    BY <2>1, <2>2
<1>7. ASSUME NEW n \in Turns, TurnEnds(n) PROVE Inductive'
  BY <1>7, TurnEndsKeeps
<1>8. CASE Cancel \/ \E a \in Asks : Click(a)
  BY <1>8, ClicksKeep
<1>9. ASSUME NEW p \in Generations, Pump(p) PROVE Inductive'
  BY <1>9, PumpKeeps
<1>10. ASSUME NEW p \in Generations, NEW i \in Requests, Answer(p, i) \/ Fail(p, i)
       PROVE  Inductive'
  BY <1>10, RepliesKeep
<1>11. ASSUME NEW p \in Generations,
              \/ Close(p)
              \/ \E g \in Generations : Says(p, g) \/ \E a \in Asks : AsksPermission(p, g, a)
       PROVE  Inductive'
  BY <1>11, AgentsKeep
<1>12. QED
  BY <1>1, <1>2, <1>3, <1>4, <1>5, <1>6, <1>7, <1>8, <1>9, <1>10, <1>11 DEF Next

\* What the proofs rest on holds throughout: a Closed in a stream is true
\* (events.rs:217), the cache knows the live processes (controller.rs:292).
THEOREM Invariance == Spec => []Inductive
BY InductiveInit, InductiveNext, PTL DEF Spec

\* The state of the pane (mod.rs), of its tasks and of the channels keeps its types;
\* the queue of permission requests stays within MAX_PENDING_PERMISSIONS.
THEOREM TypeCorrect == Spec => []TypeOK
<1>1. Inductive => TypeOK
  BY DEF Inductive, Typed, Room, Queue, Lineage, TypeOK, ChannelRecord, PaneThread, Shown, ProcessOf
<1>2. QED
  BY <1>1, Invariance, PTL

\* However threads are opened and processes die, the cache of connections and
\* the pumps agree on which process is the live one of an agent, so a Closed
\* that comes late evicts no younger process (controller.rs:292).
THEOREM OneProcessPerAgentHolds == Spec => []OneProcessPerAgent
BY Invariance, PTL DEF Inductive

\* Whatever tasks and pumps of earlier threads still deliver, the thread in the
\* pane has its own session, and shows and asks nothing of another
\* (controller.rs:240, events.rs).
THEOREM ThreadIsItsOwnHolds == Spec => []ThreadIsItsOwn
BY Invariance, PTL DEF Inductive

\* Two turns of one thread run at once only when its process is over: neither a
\* cancelled turn nor a Closed lets the next message overtake (messages.rs:288).
THEOREM OneTurnAtATimeHolds == Spec => []OneTurnAtATime
BY Invariance, PTL DEF Inductive
=============================================================================
