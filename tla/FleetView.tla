---- MODULE FleetView ----
(***************************************************************************)
(* The controller of the fleet view (features/fleet) with what of the       *)
(* connections it depends on: the matrix of databases and migrations, read *)
(* by tasks that race with each other; the checkout that follows the       *)
(* connection; and the consent a mutation needs.  All handlers run on the  *)
(* application's thread; each is one step, and so is each step of a task.  *)
(*                                                                         *)
(* Consent is Boolean in the code.  Here it carries where it was given: an *)
(* unlock the session of the connection, an acknowledgement and a typed    *)
(* phrase the request in the modal.  No guard looks at that.               *)
(***************************************************************************)
EXTENDS Naturals, FiniteSets

CONSTANTS
    Connections,   \* names of saved connections
    Repos,         \* checkouts, each named by the one source that opens it
    Remote,        \* those whose source is a git URL
    Production,    \* connections of the production tier
    Actions,       \* mutating actions
    Structural,    \* rollbacks that lose data newer than the migration
    Irreversible,  \* rollbacks that do not restore the previous state
    Saved,         \* preferences.fleet_repos at the start
    MaxWork,       \* bound: connections, requests, reads and edits of the input
                   \* together; a refresh past it fails
    None

ASSUME FleetAssumption ==
    /\ Remote \subseteq Repos /\ Production \subseteq Connections
    /\ Structural \cup Irreversible \subseteq Actions
    /\ Saved \in [Connections -> Repos \cup {None}]
    /\ MaxWork \in Nat
    /\ None \notin Connections \cup Repos \cup Actions \cup Nat

Sessions == 0..MaxWork
Requests == 1..MaxWork
OrNone(S) == S \cup {None}

VARIABLES
    session,     \* connections made so far
    connected,   \* name of the connected cluster, or None
    edits,       \* edits of the input so far
    path,        \* repo_path, the input; None when it is empty
    remembered,  \* preferences.fleet_repos
    cloning,     \* the git task that clones or pulls, or None
    fleet,       \* repo, rows, loading, fetch_error, fetch_generation
    fetches,     \* the tasks that read the matrix
    version,     \* per cluster: how often its databases were changed
    unlock,      \* write_unlocked
    request,     \* actions requested so far
    pending,     \* pending_action
    ack,         \* ack_structural
    typed,       \* confirm_input holds the required phrase
    running,     \* action_running
    result,      \* action_result is set
    job          \* per request: the task that carries it out

checkout == <<edits, path, remembered, cloning>>
matrix == <<fleet, fetches>>
consent == <<unlock, pending, ack, typed>>
modal == <<request, pending, ack, typed, running, result>>
vars == <<session, connected, checkout, matrix, version, unlock, modal, job>>

Rows == [on : Connections, of : Repos, version : Nat]
NoJob == [at |-> "none", on |-> None, of |-> None, changed |-> FALSE]

Init ==
    /\ session = 0 /\ connected = None
    /\ edits = 0 /\ path = None /\ remembered = Saved /\ cloning = None
    /\ fleet = [repo |-> None, rows |-> None, loading |-> FALSE, error |-> FALSE, generation |-> 0]
    /\ fetches = {} /\ version = [c \in Connections |-> 0]
    /\ unlock = None /\ request = 0 /\ pending = None /\ ack = None /\ typed = None
    /\ running = FALSE /\ result = FALSE
    /\ job = [r \in Requests |-> NoJob]

Work == session + request + edits + fleet.generation

----------------------------------------------------------------------------
\* Reading the matrix

CanRead(f) == connected' # None /\ session' + request + edits' + f.generation < MaxWork

Fetch(f) == [generation |-> f.generation + 1, on |-> connected', of |-> f.repo, seen |-> None]

\* Mutant of Started: the generation moves on before the early returns.
StartedEarly(f) ==
    \/ /\ fleet' = [f EXCEPT !.error = TRUE, !.generation = @ + 1]
       /\ f.generation < MaxWork /\ UNCHANGED fetches
    \/ /\ CanRead(f)
       /\ fleet' = [f EXCEPT !.loading = TRUE, !.error = FALSE, !.generation = @ + 1]
       /\ fetches' = fetches \cup {Fetch(f)}

\* The checkout does not parse or nothing is connected; or the read starts.
Started(f) ==
    \/ fleet' = [f EXCEPT !.error = TRUE] /\ UNCHANGED fetches
    \/ /\ CanRead(f)
       /\ fleet' = [f EXCEPT !.loading = TRUE, !.error = FALSE, !.generation = @ + 1]
       /\ fetches' = fetches \cup {Fetch(f)}

\* fleet_refresh, from the state f a handler has brought the view to
Refresh(f) ==
    IF f.repo = None THEN fleet' = f /\ UNCHANGED fetches ELSE Started(f)

FetchReads(t) ==
    /\ t.seen = None
    /\ fetches' = (fetches \ {t}) \cup {[t EXCEPT !.seen = version[t.on]]}
    /\ UNCHANGED <<session, connected, checkout, fleet, version, unlock, modal, job>>

\* Mutant of Latest: every answer is shown.
Whichever(t) == TRUE

Latest(t) == t.generation = fleet.generation

FetchLands(t) ==
    /\ fetches' = fetches \ {t}
    /\ \/ ~Latest(t) /\ UNCHANGED fleet
       \/ Latest(t) /\ fleet' = [fleet EXCEPT !.loading = FALSE, !.error = TRUE]
       \/ /\ Latest(t) /\ t.seen # None
          /\ fleet' = [fleet EXCEPT !.loading = FALSE,
                           !.rows = [on |-> t.on, of |-> t.of, version |-> t.seen]]
    /\ UNCHANGED <<session, connected, checkout, version, unlock, modal, job>>

\* The refresh button, and opening the view
RefreshPressed ==
    /\ UNCHANGED <<session, connected, checkout, version, unlock, modal, job>>
    /\ Refresh(fleet)

----------------------------------------------------------------------------
\* The checkout

\* fleet_open_local: the checkout opens, or it is not a repository.
OpenLocal(f, r) ==
    \/ /\ remembered' = IF connected' = None THEN remembered
                        ELSE [remembered EXCEPT ![connected'] = r]
       /\ Refresh([f EXCEPT !.repo = r, !.rows = None])
    \/ fleet' = [f EXCEPT !.repo = None, !.rows = None] /\ UNCHANGED <<remembered, fetches>>

GitTask(r, then) == [of |-> r, then |-> then, session |-> session']

\* fleet_open_repo, while the git task is g: what a URL names is opened at
\* once when its checkout exists and has no upstream.
OpenRepo(f, g) ==
    \/ path' = None /\ fleet' = f /\ cloning' = g /\ UNCHANGED <<remembered, fetches>>
    \/ path' \in Remote /\ g # None /\ fleet' = f /\ cloning' = g /\ UNCHANGED <<remembered, fetches>>
    \/ /\ path' \in Remote /\ g = None /\ fleet' = f
       /\ cloning' = GitTask(path', "open") /\ UNCHANGED <<remembered, fetches>>
    \/ /\ path' # None /\ (path' \in Remote => g = None)
       /\ cloning' = g /\ OpenLocal(f, path')

OpenPressed ==
    /\ UNCHANGED <<session, connected, edits, path, version, unlock, modal, job>>
    /\ OpenRepo(fleet, cloning)

TypePath(r) ==
    /\ Work < MaxWork /\ edits' = edits + 1
    /\ path # r /\ path' = r
    /\ UNCHANGED <<session, connected, remembered, cloning, matrix, version, unlock, modal, job>>

\* fleet_pull
Pull ==
    /\ cloning = None /\ fleet.repo # None
    /\ UNCHANGED <<session, connected, edits, path, remembered, matrix, version, unlock, modal, job>>
    /\ cloning' = GitTask(fleet.repo, "reopen")

\* A pull opens its checkout whether or not it worked, a failed clone opens
\* nothing, and the pull button opens what the input names by now.
GitEnds ==
    /\ cloning # None
    /\ UNCHANGED <<session, connected, edits, path, version, unlock, modal, job>>
    /\ IF cloning.then = "reopen"
       THEN OpenRepo(fleet, None)
       ELSE /\ cloning' = None
            /\ OpenLocal(fleet, cloning.of) \/ UNCHANGED <<remembered, matrix>>

----------------------------------------------------------------------------
\* The connection

\* Mutant of Relock: a new connection keeps the unlock of the last.
KeepUnlock == unlock' = unlock

Relock == unlock' = None

\* fleet_connection_reset, on the fields of the view
Reset(f) == [f EXCEPT !.rows = None, !.error = FALSE]

\* A connection test succeeds; the checkout of that connection replaces the
\* open one unless the input names it already.
Connect(c) ==
    /\ Work < MaxWork
    /\ session' = session + 1 /\ connected' = c /\ UNCHANGED edits
    /\ Relock
    /\ pending' = None /\ ack' = None /\ running' = FALSE
    /\ path' = remembered[c]
    /\ LET f == IF path = path' THEN Reset(fleet) ELSE [Reset(fleet) EXCEPT !.repo = None]
       IN IF f.repo = None
          THEN OpenRepo(f, cloning)
          ELSE Refresh(f) /\ UNCHANGED <<remembered, cloning>>
    /\ UNCHANGED <<version, request, typed, result, job>>

\* The health check fails, or the connection is edited or deleted.
Lost ==
    /\ connected # None
    /\ connected' = None /\ unlock' = None
    /\ UNCHANGED <<session, checkout, matrix, version, modal, job>>

Disconnect ==
    /\ connected # None
    /\ connected' = None
    /\ UNCHANGED <<session, checkout, matrix, version, unlock, modal, job>>

----------------------------------------------------------------------------
\* Consent and the mutation

ToggleUnlock ==
    /\ unlock' = IF unlock = None THEN session ELSE None
    /\ UNCHANGED <<session, connected, checkout, matrix, version, modal, job>>

\* Mutant of FreshModal: the acknowledgement of the last request stays.
KeepAck == UNCHANGED ack /\ typed' = None /\ running' = FALSE /\ result' = FALSE

FreshModal == ack' = None /\ typed' = None /\ running' = FALSE /\ result' = FALSE

\* fleet_request_action
Request(a) ==
    /\ unlock # None /\ connected # None /\ fleet.repo # None
    /\ Work < MaxWork /\ request' = request + 1
    /\ pending' = [request |-> request + 1, action |-> a, session |-> session,
                   on |-> connected, of |-> fleet.repo]
    /\ FreshModal
    /\ UNCHANGED <<session, connected, checkout, matrix, version, unlock, job>>

Acknowledge ==
    /\ pending # None /\ pending.action \in Structural
    /\ ack' = IF ack = None THEN pending.request ELSE None
    /\ UNCHANGED <<session, connected, checkout, matrix, version, unlock,
                   request, pending, typed, running, result, job>>

Type ==
    /\ pending # None /\ typed' = pending.request
    /\ UNCHANGED <<session, connected, checkout, matrix, version, unlock,
                   request, pending, ack, running, result, job>>

\* Cancel and Close; a running action goes on.
CloseModal ==
    /\ pending # None /\ pending' = None
    /\ UNCHANGED <<session, connected, checkout, matrix, version, unlock,
                   request, ack, typed, running, result, job>>

ContextMatches == unlock # None /\ connected = pending.on /\ fleet.repo = pending.of

\* required_phrase with fleet_tier
NeedsPhrase(a, c) == a \in Irreversible \/ c \in Production

\* Mutant of Confirmed: a running action does not stop a second.
ConfirmedTwice ==
    /\ ~result
    /\ pending.action \in Structural => ack # None
    /\ NeedsPhrase(pending.action, connected) => typed # None

\* fleet_confirmation_valid, the context apart
Confirmed ==
    /\ ~running /\ ~result
    /\ pending.action \in Structural => ack # None
    /\ NeedsPhrase(pending.action, connected) => typed # None

\* fleet_execute_action
Execute ==
    /\ pending # None /\ fleet.repo # None /\ connected # None
    /\ ContextMatches /\ Confirmed
    /\ running' = TRUE /\ result' = FALSE
    /\ job' = [job EXCEPT ![pending.request] =
                 [at |-> "running", on |-> connected, of |-> fleet.repo, changed |-> FALSE]]
    /\ UNCHANGED <<session, connected, checkout, matrix, version, unlock,
                   request, pending, ack, typed>>

\* Its context has changed: the request is withdrawn.
Withdraw ==
    /\ pending # None /\ fleet.repo # None /\ connected # None
    /\ ~ContextMatches
    /\ pending' = None
    /\ UNCHANGED <<session, connected, checkout, matrix, version, unlock,
                   request, ack, typed, running, result, job>>

JobChanges(r) ==
    /\ job[r].at = "running" /\ ~job[r].changed
    /\ job' = [job EXCEPT ![r].changed = TRUE]
    /\ version' = [version EXCEPT ![job[r].on] = @ + 1]
    /\ UNCHANGED <<session, connected, checkout, matrix, unlock, modal>>

\* Mutant of JobEnds: the matrix is not read again.
JobEndsUnseen(r) ==
    /\ job[r].at = "running"
    /\ job' = [job EXCEPT ![r].at = "done"]
    /\ running' = FALSE /\ result' = TRUE
    /\ UNCHANGED <<session, connected, checkout, matrix, version, unlock, request, pending, ack, typed>>

\* The task succeeds or fails, having changed databases or none.
JobEnds(r) ==
    /\ job[r].at = "running"
    /\ job' = [job EXCEPT ![r].at = "done"]
    /\ running' = FALSE /\ result' = TRUE
    /\ UNCHANGED <<session, connected, checkout, version, unlock, request, pending, ack, typed>>
    /\ Refresh(fleet)

----------------------------------------------------------------------------

Tasks ==
    \/ \E t \in fetches : FetchReads(t) \/ FetchLands(t)
    \/ \E r \in Requests : JobChanges(r) \/ JobEnds(r)
    \/ GitEnds

Next ==
    \/ Tasks
    \/ RefreshPressed \/ OpenPressed \/ Pull \/ \E r \in OrNone(Repos) : TypePath(r)
    \/ \E c \in Connections : Connect(c)
    \/ Lost \/ Disconnect
    \/ ToggleUnlock \/ \E a \in Actions : Request(a)
    \/ Acknowledge \/ Type \/ CloseModal \/ Execute \/ Withdraw

Spec == Init /\ [][Next]_vars

\* A task goes on until it ends; nothing is owed by the user or the network.
FairSpec == Spec /\ WF_vars(\E t \in fetches : FetchLands(t))
                 /\ \A r \in Requests : WF_vars(JobEnds(r))

----------------------------------------------------------------------------

Pending == [request : Requests, action : Actions, session : Sessions, on : Connections, of : Repos]
Fetches == [generation : 1..MaxWork, on : Connections, of : Repos, seen : OrNone(Nat)]
Jobs == [at : {"none", "running", "done"}, on : OrNone(Connections), of : OrNone(Repos), changed : BOOLEAN]

\* Every variable has its type, and a job that runs has a cluster and a
\* checkout (view.rs, FleetState).
TypeOK ==
    /\ session \in Sessions /\ edits \in 0..MaxWork /\ connected \in OrNone(Connections)
    /\ path \in OrNone(Repos) /\ remembered \in [Connections -> OrNone(Repos)]
    /\ cloning \in OrNone([of : Repos, then : {"open", "reopen"}, session : Sessions])
    /\ fleet \in [repo : OrNone(Repos), rows : OrNone(Rows), loading : BOOLEAN,
                  error : BOOLEAN, generation : 0..MaxWork]
    /\ fetches \subseteq Fetches /\ version \in [Connections -> Nat]
    /\ unlock \in OrNone(Sessions) /\ request \in 0..MaxWork
    /\ pending \in OrNone(Pending)
    /\ ack \in OrNone(Requests) /\ typed \in OrNone(Requests)
    /\ running \in BOOLEAN /\ result \in BOOLEAN
    /\ job \in [Requests -> Jobs]
    /\ \A r \in Requests : job[r].at # "none" => job[r].on # None /\ job[r].of # None

\* A mutation starts on the cluster and the checkout that were reviewed, in
\* the session of the connection they were reviewed in, and every consent
\* it rests on was given there and for it: no unlock outlives a connection
\* and no acknowledgement or phrase an earlier request (view.rs:105-155,
\* :207-209 "reset whenever the connection changes").
Starts(r) ==
    LET p == pending IN
    /\ p # None /\ p.request = r /\ p.session = session
    /\ unlock = session
    /\ p.action \in Structural => ack = r
    /\ NeedsPhrase(p.action, p.on) => typed = r
    /\ job'[r].on = p.on /\ job'[r].of = p.of
ConsentIsFresh ==
    [][\A r \in Requests : job[r].at = "none" /\ job'[r].at # "none" => Starts(r)]_vars

\* What was consented to once runs once, whatever cancelling, reconnecting
\* and the end of another action do to the flags of the modal
\* (execution.rs:108-109 running, completed).
RunsOnce ==
    [][\A r \in Requests : /\ job[r].at # "none" => job'[r].at # "none"
                           /\ job[r].at = "done" => job'[r] = job[r]
                           /\ job[r].changed => job'[r].changed]_vars

\* A matrix shown without an error and not being read again
Shown == connected # None /\ fleet.repo # None /\ fleet.rows # None /\ ~fleet.loading /\ ~fleet.error
RowsAreCurrent == fleet.rows.on = connected /\ fleet.rows.of = fleet.repo
RowsShowActions == fleet.rows.version = version[connected]

\* Such a matrix was read from the connected cluster with the open checkout,
\* however connecting, opening and reading interleave (actions.rs:293-296
\* "about a different world now"); and when no action runs it shows what the
\* actions of this application have done: an older read that lands after an
\* action does not cover it (actions.rs:418-420).
SettledMatrixIsTrue ==
    Shown => /\ RowsAreCurrent
             /\ (\A r \in Requests : job[r].at # "running") => RowsShowActions

\* The matrix does not stay "loading": the last read to start lands, and no
\* early return keeps its answer from being taken (actions.rs:338-355).
LoadingEnds == fleet.loading ~> ~fleet.loading

\* The checkout a git task opens is attached to the connection that was up
\* when it was asked for (probe.rs:140-142 "so one cluster's chain never
\* silently attaches to another").
ChainFollowsConnection ==
    [][cloning # None /\ cloning' = None /\ fleet'.repo = cloning.of /\ fleet.repo # fleet'.repo
         => cloning.session = session]_vars
====
