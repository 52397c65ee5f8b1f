---- MODULE FleetViewProofs ----
(***************************************************************************)
(* The safety properties of FleetView, for every set of connections,       *)
(* checkouts and actions and every number of reconnections, requests and   *)
(* reads.                                                                  *)
(***************************************************************************)
EXTENDS FleetView, TLAPS

\* What is consented to belongs to the session and to the last request, and a
\* request that has been started cannot be confirmed again.
ConsentKept ==
    /\ unlock \in {None, session}
    /\ pending # None => pending.session = session /\ pending.request = request
    /\ ack \in {None, request} /\ typed \in {None, request}
    /\ \A r \in Requests : job[r].at # "none" \/ job[r].changed => r <= request /\ job[r].at # "none"
    /\ pending # None /\ job[pending.request].at # "none" => running \/ result

\* An action has changed a cluster and has not ended.
Dirty == \E r \in Requests : job[r].at = "running" /\ job[r].changed

\* The state of the view in which an answer would be shown
Serves == connected # None /\ fleet.repo # None /\ ~fleet.error

FetchIsTrue(t) ==
    /\ t.on = connected /\ t.of = fleet.repo
    /\ t.seen # None => t.seen = version[t.on] \/ Dirty

NewestFetchIsTrue ==
    Serves => \A t \in fetches : t.generation = fleet.generation => FetchIsTrue(t)

RowsAreTrue ==
    Serves /\ ~fleet.loading /\ fleet.rows # None =>
        /\ fleet.rows.on = connected /\ fleet.rows.of = fleet.repo
        /\ fleet.rows.version = version[connected] \/ Dirty

ReadsKept ==
    /\ \A t \in fetches : t.generation <= fleet.generation
    /\ NewestFetchIsTrue /\ RowsAreTrue

Inductive == TypeOK /\ ConsentKept /\ ReadsKept

Fleets == [repo : OrNone(Repos), rows : OrNone(Rows), loading : BOOLEAN,
           error : BOOLEAN, generation : 0..MaxWork]

----------------------------------------------------------------------------
(* Reading the matrix.  A refresh leaves the view without a checkout, with *)
(* an error, or waiting for a read of its own: in no case does it matter    *)
(* what was read before.                                                   *)

\* A view and its reads that are refreshed keep their types.
LEMMA RefreshTyped ==
    ASSUME NEW f \in Fleets, fetches \subseteq Fetches, Refresh(f),
           connected' \in OrNone(Connections), session' \in Nat, request \in Nat, edits' \in Nat
    PROVE  fleet' \in Fleets /\ fetches' \subseteq Fetches
<1>1. CASE f.repo = None \/ (fleet' = [f EXCEPT !.error = TRUE] /\ UNCHANGED fetches)
  BY <1>1 DEF Refresh, Fleets
<1>2. CASE /\ f.repo # None /\ CanRead(f)
           /\ fleet' = [f EXCEPT !.loading = TRUE, !.error = FALSE, !.generation = @ + 1]
           /\ fetches' = fetches \cup {Fetch(f)}
  <2>1. f.generation + 1 \in 1..MaxWork
    BY <1>2, FleetAssumption DEF CanRead, Fleets
  <2>2. Fetch(f) \in Fetches
    BY <1>2, <2>1 DEF CanRead, Fetch, Fetches, Fleets, OrNone
  <2>3. [f EXCEPT !.loading = TRUE, !.error = FALSE, !.generation = @ + 1] \in Fleets
    <3>1. f.generation + 1 \in 0..MaxWork
      BY <2>1, FleetAssumption
    <3>. QED BY <3>1 DEF Fleets
  <2>4. fleet' \in Fleets
    BY <1>2, <2>3
  <2>5. fetches' \subseteq Fetches
    BY <1>2, <2>2
  <2>. QED BY <2>4, <2>5
<1>. QED BY <1>1, <1>2 DEF Refresh, Started

\* A refresh establishes what is wanted of the reads, whatever held before.
LEMMA RefreshReads ==
    ASSUME NEW f \in Fleets, fetches \subseteq Fetches, Refresh(f),
           \A t \in fetches : t.generation <= f.generation
    PROVE  ReadsKept'
<1>1. CASE f.repo = None
  BY <1>1 DEF Refresh, ReadsKept, NewestFetchIsTrue, RowsAreTrue, Serves
<1>2. CASE fleet' = [f EXCEPT !.error = TRUE] /\ UNCHANGED fetches
  BY <1>2 DEF ReadsKept, NewestFetchIsTrue, RowsAreTrue, Serves, Fleets
<1>3. CASE /\ f.repo # None /\ CanRead(f)
           /\ fleet' = [f EXCEPT !.loading = TRUE, !.error = FALSE, !.generation = @ + 1]
           /\ fetches' = fetches \cup {Fetch(f)}
  <2>1. fleet'.loading /\ fleet'.repo = f.repo /\ fleet'.generation = f.generation + 1
    BY <1>3 DEF Fleets
  <2>2. \A t \in fetches : t.generation \in Nat /\ t.generation < fleet'.generation
    BY <2>1 DEF Fleets, Fetches
  <2>3. /\ Fetch(f).generation = fleet'.generation /\ Fetch(f).on = connected'
        /\ Fetch(f).of = fleet'.repo /\ Fetch(f).seen = None
    BY <2>1 DEF Fetch
  <2>4. \A t \in fetches' : t.generation = fleet'.generation => t = Fetch(f)
    BY <1>3, <2>2
  <2>5. NewestFetchIsTrue'
    BY <2>3, <2>4 DEF NewestFetchIsTrue, FetchIsTrue
  <2>6. \A t \in fetches' : t.generation <= fleet'.generation
    BY <1>3, <2>1, <2>2, <2>3 DEF Fleets
  <2>. QED BY <2>1, <2>5, <2>6 DEF ReadsKept, RowsAreTrue
<1>. QED BY <1>1, <1>2, <1>3 DEF Refresh, Started

\* The same of a checkout that is opened, or turns out not to be one.
LEMMA OpenLocalReads ==
    ASSUME NEW f \in Fleets, NEW r \in Repos, fetches \subseteq Fetches, OpenLocal(f, r),
           \A t \in fetches : t.generation <= f.generation
    PROVE  ReadsKept'
<1>1. CASE Refresh([f EXCEPT !.repo = r, !.rows = None])
  <2>. DEFINE g == [f EXCEPT !.repo = r, !.rows = None]
  <2>1. g \in Fleets /\ g.generation = f.generation
    BY DEF Fleets, OrNone
  <2>. HIDE DEF g
  <2>. QED BY <1>1, <2>1, RefreshReads DEF g
<1>2. CASE fleet' = [f EXCEPT !.repo = None, !.rows = None] /\ UNCHANGED fetches
  BY <1>2 DEF ReadsKept, NewestFetchIsTrue, RowsAreTrue, Serves, Fleets
<1>. QED BY <1>1, <1>2 DEF OpenLocal

LEMMA OpenLocalTyped ==
    ASSUME NEW f \in Fleets, NEW r \in Repos, fetches \subseteq Fetches, OpenLocal(f, r),
           remembered \in [Connections -> OrNone(Repos)],
           connected' \in OrNone(Connections), session' \in Nat, request \in Nat, edits' \in Nat
    PROVE  /\ fleet' \in Fleets /\ fetches' \subseteq Fetches
           /\ remembered' \in [Connections -> OrNone(Repos)]
<1>1. CASE /\ remembered' = IF connected' = None THEN remembered
                            ELSE [remembered EXCEPT ![connected'] = r]
           /\ Refresh([f EXCEPT !.repo = r, !.rows = None])
  <2>. DEFINE g == [f EXCEPT !.repo = r, !.rows = None]
  <2>1. g \in Fleets
    BY DEF Fleets, OrNone
  <2>2. remembered' \in [Connections -> OrNone(Repos)]
    BY <1>1 DEF OrNone
  <2>. HIDE DEF g
  <2>. QED BY <1>1, <2>1, <2>2, RefreshTyped DEF g
<1>2. CASE fleet' = [f EXCEPT !.repo = None, !.rows = None] /\ UNCHANGED <<remembered, fetches>>
  BY <1>2 DEF Fleets, OrNone
<1>. QED BY <1>1, <1>2 DEF OpenLocal

\* Opening what the input names: the view is read anew, or is left as it is.
LEMMA OpenRepoReads ==
    ASSUME NEW f \in Fleets, NEW g, fetches \subseteq Fetches, OpenRepo(f, g),
           path' \in OrNone(Repos), \A t \in fetches : t.generation <= f.generation
    PROVE  ReadsKept' \/ (fleet' = f /\ UNCHANGED fetches)
BY OpenLocalReads DEF OpenRepo, OrNone

GitTasks == [of : Repos, then : {"open", "reopen"}, session : Sessions]

LEMMA OpenRepoTyped ==
    ASSUME NEW f \in Fleets, NEW g \in OrNone(GitTasks), fetches \subseteq Fetches, OpenRepo(f, g),
           path' \in OrNone(Repos), remembered \in [Connections -> OrNone(Repos)],
           connected' \in OrNone(Connections), session' \in Sessions,
           request \in Nat, edits' \in Nat
    PROVE  /\ fleet' \in Fleets /\ fetches' \subseteq Fetches
           /\ remembered' \in [Connections -> OrNone(Repos)] /\ cloning' \in OrNone(GitTasks)
<1>1. CASE path' # None /\ cloning' = g /\ OpenLocal(f, path')
  BY <1>1, OpenLocalTyped, FleetAssumption DEF OrNone, Sessions
<1>2. CASE fleet' = f /\ cloning' = g /\ UNCHANGED <<remembered, fetches>>
  BY <1>2
<1>3. CASE /\ path' \in Remote /\ fleet' = f /\ cloning' = GitTask(path', "open")
           /\ UNCHANGED <<remembered, fetches>>
  BY <1>3, FleetAssumption DEF GitTask, GitTasks, OrNone
<1>. QED BY <1>1, <1>2, <1>3 DEF OpenRepo

----------------------------------------------------------------------------
(* Types *)

\* What the actions on the reads and the checkout have to show
LEMMA ViewTyped ==
    ASSUME TypeOK, UNCHANGED <<session, connected, edits, path, version, unlock, modal, job>>,
           fleet' \in Fleets, fetches' \subseteq Fetches,
           remembered' \in [Connections -> OrNone(Repos)], cloning' \in OrNone(GitTasks)
    PROVE  TypeOK'
BY DEF TypeOK, modal, Fleets, GitTasks

LEMMA TypesOfView ==
    ASSUME TypeOK
    PROVE  /\ fleet \in Fleets /\ fetches \subseteq Fetches /\ cloning \in OrNone(GitTasks)
           /\ session \in Nat /\ session \in Sessions /\ request \in Nat /\ edits \in Nat
           /\ Work \in Nat
BY FleetAssumption DEF TypeOK, Fleets, GitTasks, Sessions, Work

LEMMA MatrixTyped ==
    ASSUME TypeOK,
           \/ \E t \in fetches : FetchReads(t) \/ FetchLands(t)
           \/ RefreshPressed \/ OpenPressed \/ Pull \/ GitEnds
    PROVE  TypeOK'
<1>. USE TypesOfView
<1>. SUFFICES ASSUME UNCHANGED <<session, connected, edits, path, version, unlock, modal, job>>
     PROVE  /\ fleet' \in Fleets /\ fetches' \subseteq Fetches
            /\ remembered' \in [Connections -> OrNone(Repos)] /\ cloning' \in OrNone(GitTasks)
  BY ViewTyped DEF FetchReads, FetchLands, RefreshPressed, OpenPressed, Pull, GitEnds, checkout, matrix
<1>1. CASE \E t \in fetches : FetchReads(t)
  <2>1. PICK t \in fetches : FetchReads(t)
    BY <1>1
  <2>2. [t EXCEPT !.seen = version[t.on]] \in Fetches
    BY <2>1 DEF TypeOK, Fetches, OrNone
  <2>. QED BY <2>1, <2>2 DEF FetchReads, TypeOK, checkout
<1>2. CASE \E t \in fetches : FetchLands(t)
  <2>1. PICK t \in fetches : FetchLands(t)
    BY <1>2
  <2>2. t \in Fetches
    OBVIOUS
  <2>3. t.seen # None => [on |-> t.on, of |-> t.of, version |-> t.seen] \in Rows
    BY <2>2 DEF Fetches, Rows, OrNone
  <2>4. fleet' \in Fleets
    BY <2>1, <2>3 DEF FetchLands, Fleets, OrNone
  <2>. QED BY <2>1, <2>4 DEF FetchLands, TypeOK, checkout
<1>3. CASE RefreshPressed
  BY <1>3, RefreshTyped DEF RefreshPressed, TypeOK, checkout
<1>4. CASE OpenPressed
  BY <1>4, OpenRepoTyped DEF OpenPressed, TypeOK
<1>5. CASE Pull
  BY <1>5 DEF Pull, GitTask, GitTasks, TypeOK, OrNone, matrix
<1>6. CASE GitEnds
  <2>1. CASE cloning.then = "reopen"
    <3>1. OpenRepo(fleet, None) /\ None \in OrNone(GitTasks)
      BY <1>6, <2>1 DEF GitEnds, OrNone
    <3>. QED BY <3>1, OpenRepoTyped DEF TypeOK
  <2>2. CASE cloning.then # "reopen"
    <3>1. cloning.of \in Repos /\ cloning' \in OrNone(GitTasks)
      BY <1>6, <2>2 DEF GitEnds, OrNone, GitTasks
    <3>. QED BY <1>6, <2>2, <3>1, OpenLocalTyped DEF GitEnds, TypeOK, matrix
  <2>. QED BY <2>1, <2>2
<1>. QED BY <1>1, <1>2, <1>3, <1>4, <1>5, <1>6

LEMMA ConnectTyped ==
    ASSUME TypeOK, NEW c \in Connections, Connect(c)
    PROVE  TypeOK'
<1>. USE TypesOfView
<1>. DEFINE f == IF path = path' THEN Reset(fleet) ELSE [Reset(fleet) EXCEPT !.repo = None]
<1>1. session' \in Sessions /\ session' \in Nat /\ connected' \in OrNone(Connections)
  BY FleetAssumption DEF Connect, Work, Sessions, OrNone, TypeOK
<1>2. path' \in OrNone(Repos) /\ edits' \in Nat
  BY DEF Connect, TypeOK
<1>3. f \in Fleets
  BY DEF Reset, Fleets, OrNone
<1>4. OpenRepo(f, cloning) \/ (Refresh(f) /\ UNCHANGED <<remembered, cloning>>)
  BY DEF Connect
<1>. HIDE DEF f
<1>5. /\ fleet' \in Fleets /\ fetches' \subseteq Fetches
      /\ remembered' \in [Connections -> OrNone(Repos)] /\ cloning' \in OrNone(GitTasks)
  <2>1. CASE OpenRepo(f, cloning)
    BY <1>1, <1>2, <1>3, <2>1, OpenRepoTyped DEF TypeOK
  <2>2. CASE Refresh(f) /\ UNCHANGED <<remembered, cloning>>
    BY <1>1, <1>2, <1>3, <2>2, RefreshTyped DEF TypeOK
  <2>. QED BY <1>4, <2>1, <2>2
<1>. QED BY <1>1, <1>2, <1>5 DEF Connect, Relock, TypeOK, Fleets, GitTasks, OrNone

LEMMA ExecuteTyped ==
    ASSUME TypeOK, Execute
    PROVE  TypeOK'
<1>1. pending \in Pending
  BY DEF Execute, TypeOK, OrNone
<1>2. [at |-> "running", on |-> connected, of |-> fleet.repo, changed |-> FALSE] \in Jobs
  BY DEF Execute, TypeOK, Jobs, OrNone
<1>3. job' \in [Requests -> Jobs]
  BY <1>1, <1>2 DEF Execute, TypeOK, Pending
<1>4. \A r \in Requests : job'[r].at # "none" => job'[r].on # None /\ job'[r].of # None
  BY <1>1 DEF Execute, TypeOK, Pending
<1>. QED BY <1>3, <1>4 DEF Execute, TypeOK, checkout, matrix

LEMMA JobTyped ==
    ASSUME TypeOK, NEW r \in Requests, JobChanges(r) \/ JobEnds(r)
    PROVE  TypeOK'
<1>. USE TypesOfView
<1>1. job[r] \in Jobs /\ job[r].on \in (Connections \cup {None})
  BY DEF TypeOK, Jobs, OrNone
<1>2. job' \in [Requests -> Jobs]
  <2>1. [job[r] EXCEPT !.changed = TRUE] \in Jobs /\ [job[r] EXCEPT !.at = "done"] \in Jobs
    BY <1>1 DEF Jobs
  <2>. QED BY <2>1 DEF JobChanges, JobEnds, TypeOK
<1>3. \A s \in Requests : job'[s].at # "none" => job'[s].on # None /\ job'[s].of # None
  <2>1. job[r].at # "none" /\ job'[r].on = job[r].on /\ job'[r].of = job[r].of
    BY <1>1 DEF JobChanges, JobEnds, TypeOK, Jobs
  <2>2. \A s \in Requests \ {r} : job'[s] = job[s]
    BY DEF JobChanges, JobEnds, TypeOK
  <2>. QED BY <2>1, <2>2 DEF TypeOK
<1>4. CASE JobChanges(r)
  <2>1. version' \in [Connections -> Nat]
    BY <1>1, <1>4 DEF JobChanges, TypeOK
  <2>. QED BY <1>2, <1>3, <1>4, <2>1 DEF JobChanges, TypeOK, checkout, matrix, modal
<1>5. CASE JobEnds(r)
  <2>1. fleet' \in Fleets /\ fetches' \subseteq Fetches
    BY <1>5, RefreshTyped DEF JobEnds, checkout, TypeOK
  <2>. QED BY <1>2, <1>3, <1>5, <2>1 DEF JobEnds, TypeOK, checkout, Fleets
<1>. QED BY <1>4, <1>5

\* Every step keeps the types.
LEMMA StepTyped ==
    ASSUME TypeOK, [Next]_vars
    PROVE  TypeOK'
<1>. USE TypesOfView
<1>1. CASE UNCHANGED vars
  BY <1>1 DEF TypeOK, vars, checkout, matrix, modal
<1>2. ASSUME NEW r \in OrNone(Repos), TypePath(r) PROVE TypeOK'
  BY <1>2, FleetAssumption DEF TypePath, TypeOK, Work, matrix, modal
<1>3. CASE Lost \/ Disconnect \/ ToggleUnlock
  BY <1>3 DEF Lost, Disconnect, ToggleUnlock, TypeOK, OrNone, checkout, matrix, modal
<1>4. ASSUME NEW a \in Actions, Request(a) PROVE TypeOK'
  <2>1. request + 1 \in Requests
    BY <1>4, FleetAssumption DEF Request, Work, Requests, Fleets
  <2>2. pending' \in Pending
    BY <1>4, <2>1 DEF Request, Pending, TypeOK, OrNone
  <2>3. request' \in 0..MaxWork
    BY <1>4, <2>1, FleetAssumption DEF Request, Requests
  <2>. QED BY <1>4, <2>2, <2>3 DEF Request, FreshModal, TypeOK, OrNone, checkout, matrix
<1>5. CASE Acknowledge \/ Type \/ CloseModal \/ Withdraw
  BY <1>5 DEF Acknowledge, Type, CloseModal, Withdraw, TypeOK, OrNone, Pending, checkout, matrix
<1>. QED
  BY <1>1, <1>2, <1>3, <1>4, <1>5, MatrixTyped, ConnectTyped, ExecuteTyped, JobTyped DEF Next, Tasks

----------------------------------------------------------------------------
(* Consent *)

LEMMA ConsentUntouched ==
    ASSUME ConsentKept, UNCHANGED <<session, unlock, modal, job>>
    PROVE  ConsentKept'
BY DEF ConsentKept, modal

\* The actions that give, withdraw or use consent, and those that end it
LEMMA ConsentMoved ==
    ASSUME TypeOK, ConsentKept,
           \/ \E c \in Connections : Connect(c)
           \/ \E a \in Actions : Request(a)
           \/ \E r \in Requests : JobChanges(r) \/ JobEnds(r)
           \/ Lost \/ ToggleUnlock \/ Acknowledge \/ Type \/ CloseModal \/ Execute \/ Withdraw
    PROVE  ConsentKept'
<1>1. ASSUME NEW c \in Connections, Connect(c) PROVE ConsentKept'
  BY <1>1 DEF Connect, Relock, ConsentKept
<1>2. ASSUME NEW a \in Actions, Request(a) PROVE ConsentKept'
  <2>1. request \in Nat /\ request' = request + 1
    BY <1>2, FleetAssumption DEF Request, TypeOK
  <2>2. \A r \in Requests : job[r].at # "none" => r <= request' /\ r # request'
    BY <1>2, <2>1 DEF ConsentKept, Requests
  <2>3. pending'.session = session /\ pending'.request = request'
    BY <1>2, <2>1 DEF Request
  <2>4. request' \in Requests
    BY <1>2, <2>1, TypesOfView, FleetAssumption DEF Request, Requests, Work, Fleets
  <2>. QED BY <1>2, <2>2, <2>3, <2>4 DEF Request, FreshModal, ConsentKept
<1>3. ASSUME NEW r \in Requests, JobChanges(r) \/ JobEnds(r) PROVE ConsentKept'
  <2>1. \A s \in Requests : job'[s].at # "none" => job[s].at # "none"
    BY <1>3 DEF JobChanges, JobEnds, TypeOK, Jobs
  <2>2. pending # None => pending.request \in Requests
    BY DEF TypeOK, OrNone, Pending
  <2>3. \A s \in Requests : job'[s].at # "none" \/ job'[s].changed => s <= request /\ job'[s].at # "none"
    BY <1>3, <2>1 DEF JobChanges, JobEnds, TypeOK, Jobs, ConsentKept
  <2>. QED BY <1>3, <2>1, <2>2, <2>3 DEF JobChanges, JobEnds, ConsentKept, modal
<1>4. CASE Lost \/ ToggleUnlock
  BY <1>4 DEF Lost, ToggleUnlock, ConsentKept, modal
<1>5. CASE Acknowledge \/ Type \/ CloseModal \/ Withdraw
  BY <1>5 DEF Acknowledge, Type, CloseModal, Withdraw, ConsentKept
<1>6. CASE Execute
  <2>1. pending.request \in Requests /\ pending.request = request
    BY <1>6 DEF Execute, TypeOK, OrNone, Pending, ConsentKept
  <2>2. request \in Nat
    BY DEF TypeOK
  <2>3. \A r \in Requests : job'[r].at # "none" => r <= request
    BY <1>6, <2>1, <2>2 DEF Execute, TypeOK, ConsentKept
  <2>. QED BY <1>6, <2>3 DEF Execute, ConsentKept
<1>. QED BY <1>1, <1>2, <1>3, <1>4, <1>5, <1>6

\* What is executed has not been executed before.
LEMMA ExecutesOnce ==
    ASSUME TypeOK, ConsentKept, Execute
    PROVE  /\ pending.request \in Requests /\ job[pending.request].at = "none"
           /\ pending.request = request /\ pending.session = session
           /\ \A r \in Requests \ {pending.request} : job'[r] = job[r]
<1>1. pending.request \in Requests
  BY DEF Execute, TypeOK, OrNone, Pending
<1>. QED BY <1>1 DEF Execute, Confirmed, ConsentKept, TypeOK

----------------------------------------------------------------------------
(* Reads *)

LEMMA ReadsUntouched ==
    ASSUME ReadsKept, UNCHANGED <<connected, matrix, version, job>>
    PROVE  ReadsKept'
BY DEF ReadsKept, NewestFetchIsTrue, RowsAreTrue, FetchIsTrue, Serves, Dirty, matrix

\* Nothing is shown as read without a connection.
LEMMA ReadsUnconnected ==
    ASSUME ReadsKept, UNCHANGED matrix, connected' = None
    PROVE  ReadsKept'
BY DEF ReadsKept, NewestFetchIsTrue, RowsAreTrue, Serves, matrix

LEMMA FetchKeepsReads ==
    ASSUME TypeOK, ReadsKept, NEW t \in fetches, FetchReads(t) \/ FetchLands(t)
    PROVE  ReadsKept'
<1>. t \in Fetches /\ fleet \in Fleets
  BY TypesOfView DEF TypeOK
<1>1. UNCHANGED <<connected, version, job>> /\ Dirty' = Dirty
  BY DEF FetchReads, FetchLands, Dirty
<1>2. CASE FetchReads(t)
  <2>. DEFINE u == [t EXCEPT !.seen = version[t.on]]
  <2>1. /\ u.generation = t.generation /\ u.on = t.on /\ u.of = t.of
        /\ u.seen = version[t.on]
    BY DEF Fetches
  <2>2. fetches' = (fetches \ {t}) \cup {u} /\ fleet' = fleet
    BY <1>2 DEF FetchReads
  <2>. HIDE DEF u
  <2>3. \A s \in fetches' : s.generation <= fleet'.generation
    BY <2>1, <2>2 DEF ReadsKept
  <2>4. NewestFetchIsTrue'
    <3>. SUFFICES ASSUME Serves, NEW s \in fetches', s.generation = fleet.generation
         PROVE  FetchIsTrue(s)'
      BY <1>1, <2>2 DEF NewestFetchIsTrue, Serves
    <3>1. CASE s = u
      BY <1>1, <2>1, <2>2, <3>1 DEF ReadsKept, NewestFetchIsTrue, FetchIsTrue
    <3>2. CASE s \in fetches
      BY <1>1, <2>2, <3>2 DEF ReadsKept, NewestFetchIsTrue, FetchIsTrue
    <3>. QED BY <2>2, <3>1, <3>2
  <2>5. RowsAreTrue'
    BY <1>1, <2>2 DEF ReadsKept, RowsAreTrue, Serves
  <2>. QED BY <2>3, <2>4, <2>5 DEF ReadsKept
<1>3. CASE FetchLands(t)
  <2>1. /\ fetches' \subseteq fetches /\ fleet'.repo = fleet.repo
        /\ fleet'.generation = fleet.generation /\ (fleet.error => fleet'.error)
    BY <1>3 DEF FetchLands, Fleets
  <2>2. \A s \in fetches' : s.generation <= fleet'.generation
    BY <2>1 DEF ReadsKept
  <2>3. NewestFetchIsTrue'
    BY <1>1, <2>1 DEF ReadsKept, NewestFetchIsTrue, FetchIsTrue, Serves
  <2>4. RowsAreTrue'
    <3>1. CASE UNCHANGED fleet
      BY <1>1, <3>1 DEF ReadsKept, RowsAreTrue, Serves
    <3>2. CASE fleet' = [fleet EXCEPT !.loading = FALSE, !.error = TRUE]
      BY <3>2 DEF RowsAreTrue, Serves, Fleets
    <3>3. CASE /\ Latest(t) /\ t.seen # None
               /\ fleet' = [fleet EXCEPT !.loading = FALSE,
                                !.rows = [on |-> t.on, of |-> t.of, version |-> t.seen]]
      <4>1. fleet'.rows = [on |-> t.on, of |-> t.of, version |-> t.seen] /\ fleet'.error = fleet.error
        BY <3>3 DEF Fleets
      <4>2. Serves' => Serves /\ FetchIsTrue(t)
        BY <1>1, <2>1, <3>3, <4>1 DEF ReadsKept, NewestFetchIsTrue, Serves, Latest
      <4>. QED BY <1>1, <2>1, <3>3, <4>1, <4>2 DEF RowsAreTrue, FetchIsTrue
    <3>. QED BY <1>3, <3>1, <3>2, <3>3 DEF FetchLands
  <2>. QED BY <2>2, <2>3, <2>4 DEF ReadsKept
<1>. QED BY <1>2, <1>3

LEMMA CheckoutKeepsReads ==
    ASSUME TypeOK, ReadsKept, OpenPressed \/ GitEnds
    PROVE  ReadsKept'
<1>. USE TypesOfView
<1>1. UNCHANGED <<connected, path, version, job>> /\ path \in OrNone(Repos)
  BY DEF OpenPressed, GitEnds, TypeOK
<1>2. \A t \in fetches : t.generation <= fleet.generation
  BY DEF ReadsKept
<1>3. CASE \E g : OpenRepo(fleet, g)
  BY <1>1, <1>2, <1>3, OpenRepoReads, ReadsUntouched DEF matrix
<1>4. CASE cloning \in GitTasks /\ OpenLocal(fleet, cloning.of)
  BY <1>2, <1>4, OpenLocalReads DEF GitTasks
<1>5. CASE UNCHANGED matrix
  BY <1>1, <1>5, ReadsUntouched
<1>. QED BY <1>3, <1>4, <1>5 DEF OpenPressed, GitEnds, OrNone

LEMMA ConnectKeepsReads ==
    ASSUME TypeOK, ReadsKept, NEW c \in Connections, Connect(c)
    PROVE  ReadsKept'
<1>. USE TypesOfView
<1>. DEFINE f == IF path = path' THEN Reset(fleet) ELSE [Reset(fleet) EXCEPT !.repo = None]
<1>1. f \in Fleets /\ f.generation = fleet.generation
  BY DEF Reset, Fleets, OrNone
<1>2. \A t \in fetches : t.generation <= f.generation
  BY <1>1 DEF ReadsKept
<1>3. path' \in OrNone(Repos)
  BY DEF Connect, TypeOK
<1>4. IF f.repo = None THEN OpenRepo(f, cloning) ELSE Refresh(f)
  BY DEF Connect
<1>. HIDE DEF f
<1>5. CASE f.repo = None /\ fleet' = f /\ UNCHANGED fetches
  BY <1>2, <1>5 DEF ReadsKept, NewestFetchIsTrue, RowsAreTrue, Serves
<1>. QED BY <1>1, <1>2, <1>3, <1>4, <1>5, OpenRepoReads, RefreshReads

LEMMA JobKeepsReads ==
    ASSUME TypeOK, ReadsKept, NEW r \in Requests, JobChanges(r) \/ JobEnds(r)
    PROVE  ReadsKept'
<1>1. CASE JobChanges(r)
  <2>1. Dirty'
    BY <1>1 DEF JobChanges, Dirty, TypeOK, Jobs
  <2>. QED BY <1>1, <2>1
           DEF JobChanges, ReadsKept, NewestFetchIsTrue, RowsAreTrue, FetchIsTrue, Serves, matrix
<1>2. CASE JobEnds(r)
  BY <1>2, TypesOfView, RefreshReads DEF JobEnds, ReadsKept
<1>. QED BY <1>1, <1>2

LEMMA ExecuteKeepsReads ==
    ASSUME TypeOK, ConsentKept, ReadsKept, Execute
    PROVE  ReadsKept'
<1>1. Dirty => Dirty'
  BY ExecutesOnce DEF Dirty
<1>. QED BY <1>1 DEF Execute, ReadsKept, NewestFetchIsTrue, RowsAreTrue, FetchIsTrue, Serves, matrix

----------------------------------------------------------------------------
(* The theorems *)

LEMMA Initially == Init => Inductive
<1>. SUFFICES ASSUME Init PROVE Inductive
  OBVIOUS
<1>1. TypeOK
  <2>1. NoJob \in Jobs /\ NoJob.at = "none"
    BY DEF NoJob, Jobs, OrNone
  <2>2. job \in [Requests -> Jobs] /\ \A r \in Requests : job[r].at = "none"
    BY <2>1 DEF Init
  <2>3. 0 \in 0..MaxWork
    BY FleetAssumption
  <2>. QED BY <2>2, <2>3, FleetAssumption DEF Init, TypeOK, OrNone, Sessions
<1>2. ConsentKept
  BY DEF Init, ConsentKept, NoJob
<1>3. ReadsKept
  BY DEF Init, ReadsKept, NewestFetchIsTrue, RowsAreTrue, Serves
<1>. QED BY <1>1, <1>2, <1>3 DEF Inductive

LEMMA Step == Inductive /\ [Next]_vars => Inductive'
<1>. SUFFICES ASSUME TypeOK, ConsentKept, ReadsKept, [Next]_vars PROVE ConsentKept' /\ ReadsKept'
  BY StepTyped DEF Inductive
<1>1. CASE UNCHANGED vars
  BY <1>1, ConsentUntouched, ReadsUntouched DEF vars
<1>2. ASSUME NEW t \in fetches, FetchReads(t) \/ FetchLands(t) PROVE ConsentKept' /\ ReadsKept'
  BY <1>2, FetchKeepsReads, ConsentUntouched DEF FetchReads, FetchLands
<1>3. CASE RefreshPressed
  <2>1. ReadsKept'
    BY <1>3, TypesOfView, RefreshReads DEF RefreshPressed, ReadsKept
  <2>. QED BY <1>3, <2>1, ConsentUntouched DEF RefreshPressed
<1>4. CASE OpenPressed \/ GitEnds
  BY <1>4, CheckoutKeepsReads, ConsentUntouched DEF OpenPressed, GitEnds
<1>5. ASSUME NEW r \in OrNone(Repos), Pull \/ TypePath(r) PROVE ConsentKept' /\ ReadsKept'
  BY <1>5, ReadsUntouched, ConsentUntouched DEF Pull, TypePath
<1>6. CASE Lost \/ Disconnect
  BY <1>6, ConsentMoved, ConsentUntouched, ReadsUnconnected DEF Lost, Disconnect
<1>7. ASSUME NEW c \in Connections, Connect(c) PROVE ConsentKept' /\ ReadsKept'
  BY <1>7, ConsentMoved, ConnectKeepsReads
<1>8. ASSUME NEW r \in Requests, JobChanges(r) \/ JobEnds(r) PROVE ConsentKept' /\ ReadsKept'
  BY <1>8, ConsentMoved, JobKeepsReads
<1>9. CASE Execute
  BY <1>9, ConsentMoved, ExecuteKeepsReads
<1>10. ASSUME NEW a \in Actions, Request(a) PROVE ConsentKept' /\ ReadsKept'
  BY <1>10, ConsentMoved, ReadsUntouched DEF Request
<1>11. CASE ToggleUnlock \/ Acknowledge \/ Type \/ CloseModal \/ Withdraw
  BY <1>11, ConsentMoved, ReadsUntouched DEF ToggleUnlock, Acknowledge, Type, CloseModal, Withdraw
<1>12. None \in OrNone(Repos)
  BY DEF OrNone
<1>. QED
  BY <1>1, <1>2, <1>3, <1>4, <1>5, <1>6, <1>7, <1>8, <1>9, <1>10, <1>11, <1>12 DEF Next, Tasks

THEOREM Invariance == Spec => []Inductive
BY Initially, Step, PTL DEF Spec

\* Every variable of the fleet view keeps its type (FleetState, view.rs).
THEOREM TypeCorrect == Spec => []TypeOK
<1>1. Inductive => TypeOK
  BY DEF Inductive
<1>. QED BY <1>1, Invariance, PTL

\* A matrix that is shown settled belongs to the connected cluster and the
\* open checkout, and while no action runs it shows all that the actions have
\* changed (fleet_refresh, fleet_connection_reset, the refresh at the end of
\* fleet_execute_action).
THEOREM SettledMatrixIsTrueHolds == Spec => []SettledMatrixIsTrue
<1>1. Inductive => SettledMatrixIsTrue
  BY DEF Inductive, ReadsKept, RowsAreTrue, Serves, Dirty, SettledMatrixIsTrue, RowsAreCurrent,
         RowsShowActions, Shown
<1>. QED BY <1>1, Invariance, PTL

\* Every mutation starts on consent given for it, in the session it was
\* requested in (fleet_request_action, fleet_execute_action).
THEOREM ConsentIsFreshHolds == Spec => ConsentIsFresh
<1>1. Inductive /\ [Next]_vars =>
        [\A r \in Requests : job[r].at = "none" /\ job'[r].at # "none" => Starts(r)]_vars
  <2>. SUFFICES ASSUME TypeOK, ConsentKept, Next, NEW r \in Requests,
                       job[r].at = "none", job'[r].at # "none"
       PROVE  Starts(r)
    BY DEF Inductive
  <2>1. Execute
    <3>1. job' # job
      OBVIOUS
    <3>2. ASSUME NEW s \in Requests, JobChanges(s) \/ JobEnds(s) PROVE FALSE
      BY <3>2 DEF JobChanges, JobEnds, TypeOK, Jobs
    <3>. QED
      BY <3>1, <3>2 DEF Next, Tasks, FetchReads, FetchLands, GitEnds, RefreshPressed, OpenPressed,
         Pull, TypePath, Connect, Lost, Disconnect, ToggleUnlock, Request, Acknowledge, Type,
         CloseModal, Withdraw
  <2>2. r = pending.request
    BY <2>1, ExecutesOnce
  <2>3. job'[r].on = connected /\ job'[r].of = fleet.repo
    BY <2>1, <2>2 DEF Execute, TypeOK
  <2>4. unlock = session /\ pending.session = session
    BY <2>1, ExecutesOnce DEF Execute, ContextMatches, ConsentKept
  <2>. QED
    BY <2>1, <2>2, <2>3, <2>4 DEF Starts, Execute, ContextMatches, Confirmed, ConsentKept
<1>. QED BY <1>1, Invariance, PTL DEF Spec, ConsentIsFresh

\* What was confirmed runs once (fleet_confirmation_valid).
THEOREM RunsOnceHolds == Spec => RunsOnce
<1>1. Inductive /\ [Next]_vars =>
        [\A r \in Requests : /\ job[r].at # "none" => job'[r].at # "none"
                             /\ job[r].at = "done" => job'[r] = job[r]
                             /\ job[r].changed => job'[r].changed]_vars
  <2>. SUFFICES ASSUME TypeOK, ConsentKept, Next, NEW r \in Requests
       PROVE  /\ job[r].at # "none" => job'[r].at # "none"
              /\ job[r].at = "done" => job'[r] = job[r]
              /\ job[r].changed => job'[r].changed
    BY DEF Inductive
  <2>1. CASE Execute
    BY <2>1, ExecutesOnce DEF Execute, TypeOK, Jobs, ConsentKept
  <2>2. ASSUME NEW s \in Requests, JobChanges(s) \/ JobEnds(s)
        PROVE  /\ job[r].at # "none" => job'[r].at # "none"
               /\ job[r].at = "done" => job'[r] = job[r]
               /\ job[r].changed => job'[r].changed
    BY <2>2 DEF JobChanges, JobEnds, TypeOK, Jobs
  <2>3. CASE UNCHANGED job
    BY <2>3
  <2>. QED
    BY <2>1, <2>2, <2>3 DEF Next, Tasks, FetchReads, FetchLands, GitEnds, RefreshPressed, OpenPressed,
       Pull, TypePath, Connect, Lost, Disconnect, ToggleUnlock, Request, Acknowledge, Type,
       CloseModal, Withdraw
<1>. QED BY <1>1, Invariance, PTL DEF Spec, RunsOnce
====
