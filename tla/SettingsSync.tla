---------------------------- MODULE SettingsSync ----------------------------
(***************************************************************************)
(* Settings sync: several machines share one payload file through a git    *)
(* repository the user owns (crates/zedb-core/src/sync.rs, the git calls   *)
(* of crates/zedb-core/src/git.rs, and the app's side of it in             *)
(* crates/zedb-app/src/features/settings/sync.rs).                         *)
(*                                                                         *)
(* A tick is a worker thread per machine that pulls, compares three        *)
(* hashes, and pushes or hands the payload back; the machine's user goes   *)
(* on editing, disabling and enabling while it runs.  Every git command    *)
(* and every file the two threads share is a step boundary.                *)
(***************************************************************************)
EXTENDS Naturals, Sequences, Functions

CONSTANTS
    Machines,
    Themes,         \* values of the preferences that follow the payload
    AgentLists,     \* non-empty values of custom_agents
    Names,          \* connection names
    Endpoints,
    Syncable,       \* the endpoints is_syncable_endpoint accepts
    Users,          \* login users of a connection
    None,           \* no payload, no stamp, no agents
    Initial,        \* the settings each machine starts with
    InitialRemotes, \* the histories the repository may start with
    Faults,         \* what the environment may do
    Editors,        \* the machines whose users edit
    MaxEdits,       \* bound: edits by users
    MaxFaults,      \* bound: faults
    MaxToggles,     \* bound: presses of Enable and Disable
    MaxTogether,    \* bound: faults and presses
    MaxCommits      \* bound: no tick starts on a longer history

Connection == [name : Names, endpoint : Endpoints, user : Users, trust : {"locked", "open"}]

\* What the payload carries and content_hash is taken over; hashes are compared
\* as the contents themselves.  "locked" is read-only, production tier, default
\* driver and no Cloud link; "open" is any other combination of the four.
Content == [theme : Themes, agents : AgentLists \cup {None}, connections : Seq(Connection)]

Commit == [by : Machines, content : Content]

\* No two connections of a list bear one name (draft_from_form).
Unique(list) == \A i, j \in DOMAIN list : list[i].name = list[j].name => i = j

Results == {"none", "uptodate", "applied", "pushed", "failed"}

ASSUME SyncAssumption ==
    /\ None \notin Content /\ None \notin AgentLists
    /\ Syncable \subseteq Endpoints /\ Editors \subseteq Machines
    /\ Initial \in [Machines -> Content]
    /\ \A m \in Machines : Unique(Initial[m].connections)
    /\ InitialRemotes \subseteq Seq(Commit)
    /\ Faults \subseteq {"network", "landed", "disk", "save", "crash"}
    /\ {MaxEdits, MaxFaults, MaxToggles, MaxTogether, MaxCommits} \subseteq Nat

VARIABLES
    remote,         \* history of the branch on the remote
    checkout,       \* each machine's clone: its branch, its payload file
    local,          \* settings in memory
    disk,           \* settings.json and connections.json
    stamp,          \* sync-state.json: last_synced_hash
    linked,         \* settings_sync_repo is set
    tick,           \* the worker of each machine, and its result
    used,           \* counters against the bounds
    edited,         \* auxiliary: edits no tick has settled yet, commits that failed
    granted,        \* auxiliary: endpoints the machine's own user opened
    seed            \* auxiliary: what Enable stamped without a tick

vars == <<remote, checkout, local, disk, stamp, linked, tick, used, edited, granted, seed>>

-----------------------------------------------------------------------------
\* Pure parts.

NamesIn(list) == {c.name : c \in Range(list)}

\* Mutants of Merge: a connection arrives with the trust it was sent with; the
\* payload's list replaces the local one.
MergeTrusting(mine, theirs) ==
    mine \o SelectSeq(theirs, LAMBDA c : c.name \notin NamesIn(mine) /\ c.endpoint \in Syncable)

MergeMirroring(mine, theirs) == [i \in DOMAIN theirs |-> [theirs[i] EXCEPT !.trust = "locked"]]

\* One incoming connection: a name that is there gets its login user, a new one
\* is appended, locked, if all earlier payload entries bear other names.
Merged(list, theirs, i) ==
    LET c == theirs[i] IN
    IF c.name \in NamesIn(list)
    THEN [j \in DOMAIN list |-> IF list[j].name = c.name THEN [list[j] EXCEPT !.user = c.user]
                                                        ELSE list[j]]
    ELSE IF c.endpoint \in Syncable /\ \A k \in 1..(i - 1) : theirs[k].name # c.name
    THEN Append(list, [c EXCEPT !.trust = "locked"])
    ELSE list

Merge(mine, theirs) ==
    LET merged[i \in 0..Len(theirs)] == IF i = 0 THEN mine ELSE Merged(merged[i - 1], theirs, i)
    IN merged[Len(theirs)]

\* apply_preferences: an empty pulled agent list leaves the local one alone.
WithPreferences(mine, pulled) ==
    [mine EXCEPT !.theme = pulled.theme,
                 !.agents = IF pulled.agents = None THEN @ ELSE pulled.agents]

WithConnections(mine, pulled) == [mine EXCEPT !.connections = Merge(@, pulled.connections)]

\* Mutant of Reconcile: the repository wins a conflict.
ReconcileRepoWins(mine, repo, synced) ==
    CASE repo = None                                    -> "push"
      [] repo = mine                                    -> "uptodate"
      [] repo \notin {None, mine} /\ synced = repo      -> "push"
      [] OTHER                                          -> "apply"

Reconcile(mine, repo, synced) ==
    CASE repo = None                       -> "push"
      [] repo = mine                       -> "uptodate"
      [] repo # mine /\ synced # mine      -> "push"
      [] OTHER                             -> "apply"

FastForwards(old, new) == Len(old) <= Len(new) /\ SubSeq(new, 1, Len(old)) = old

NewestContent(history) == IF history = <<>> THEN None ELSE history[Len(history)].content

-----------------------------------------------------------------------------
\* The worker's record.  "current" is whether the generation is still the one
\* the tick started under, "read" the length of the history it reconciled with.

Idle == [at |-> "idle", mine |-> None, online |-> TRUE, payload |-> None,
         read |-> 0, current |-> TRUE, result |-> "none"]

Started(mine) == [Idle EXCEPT !.at = "pull", !.mine = mine]

Ended(t, result) == [t EXCEPT !.at = "done", !.result = result]

Busy(m) == tick[m].at # "idle"

NoClone == [cloned |-> FALSE, upstream |-> FALSE, history |-> <<>>, file |-> None]

Room(m) == Len(remote) < MaxCommits /\ Len(checkout[m].history) < MaxCommits

Spend(what) == used' = [used EXCEPT ![what] = @ + 1]

Within == used.faults + used.toggles < MaxTogether
May(fault) == fault \in Faults /\ used.faults < MaxFaults /\ Within
MayToggle == used.toggles < MaxToggles /\ Within

\* settings_sync_tick, called at the end of other handlers as well: nothing
\* unless the machine is linked and no worker is running.
BeginTick(m, mine, isLinked, touched) ==
    IF isLinked /\ ~Busy(m) /\ Room(m)
    THEN /\ tick' = [tick EXCEPT ![m] = Started(mine)]
         /\ edited' = [edited EXCEPT ![m].seen = @ \/ edited[m].unseen \/ touched, ![m].unseen = FALSE]
    ELSE /\ edited' = [edited EXCEPT ![m].unseen = @ \/ touched]
         /\ UNCHANGED tick

Init ==
    /\ remote \in InitialRemotes
    /\ checkout = [m \in Machines |-> NoClone]
    /\ local = Initial
    /\ disk = Initial
    /\ stamp = [m \in Machines |-> None]
    /\ linked = [m \in Machines |-> FALSE]
    /\ tick = [m \in Machines |-> Idle]
    /\ used = [edits |-> 0, faults |-> 0, toggles |-> 0]
    /\ edited = [m \in Machines |-> [seen |-> FALSE, unseen |-> FALSE, uncommitted |-> FALSE]]
    /\ granted = [m \in Machines |->
                    {<<c.name, c.endpoint>> : c \in {d \in Range(Initial[m].connections) : d.trust = "open"}}]
    /\ seed = [m \in Machines |-> None]

-----------------------------------------------------------------------------
\* The user of a machine.

\* Window refocus, closing Preferences, "Sync now".
Trigger(m) ==
    /\ linked[m] /\ ~Busy(m) /\ Room(m)
    /\ BeginTick(m, local[m], linked[m], FALSE)
    /\ UNCHANGED <<remote, checkout, local, disk, stamp, linked, used, granted, seed>>

Edit(m, new, ticks) ==
    /\ m \in Editors /\ used.edits < MaxEdits
    /\ new # local[m]
    /\ Spend("edits")
    /\ local' = [local EXCEPT ![m] = new]
    /\ IF ticks
       THEN BeginTick(m, new, linked[m], TRUE)
       ELSE /\ edited' = [edited EXCEPT ![m].unseen = TRUE]
            /\ UNCHANGED tick
    /\ UNCHANGED <<remote, checkout, stamp, linked, seed>>

\* Saved at once; set_theme_preference ticks, toggle_vim_mode and the agent
\* registry leave it to a later tick.
EditPreferences(m) ==
    /\ \E theme \in Themes, agents \in AgentLists \cup {None}, ticks \in BOOLEAN :
          /\ ticks => agents = local[m].agents
          /\ Edit(m, [local[m] EXCEPT !.theme = theme, !.agents = agents], ticks)
    /\ disk' = [disk EXCEPT ![m].theme = local'[m].theme, ![m].agents = local'[m].agents]
    /\ UNCHANGED granted

EditConnections(m, list) ==
    /\ Edit(m, [local[m] EXCEPT !.connections = list], TRUE)
    /\ disk' = [disk EXCEPT ![m].connections = list]

Granting(m, dropped, c) ==
    granted' = [granted EXCEPT ![m] =
        {g \in @ : g[1] \notin {dropped, c.name}}
        \cup (IF c.trust = "open" THEN {<<c.name, c.endpoint>>} ELSE {})]

\* draft_from_form refuses a name that another connection has.
SaveNewConnection(m) ==
    \E c \in Connection :
        /\ c.name \notin NamesIn(local[m].connections)
        /\ EditConnections(m, Append(local[m].connections, c))
        /\ Granting(m, c.name, c)

SaveConnection(m) ==
    \E i \in DOMAIN local[m].connections, c \in Connection :
        LET old == local[m].connections[i].name IN
        /\ c.name \notin NamesIn(local[m].connections) \ {old}
        /\ EditConnections(m, [local[m].connections EXCEPT ![i] = c])
        /\ Granting(m, old, c)

DeleteConnection(m) ==
    \E i \in DOMAIN local[m].connections :
        LET list == local[m].connections IN
        /\ EditConnections(m, SubSeq(list, 1, i - 1) \o SubSeq(list, i + 1, Len(list)))
        /\ granted' = [granted EXCEPT ![m] = {g \in @ : g[1] # list[i].name}]

\* Mutant of Link: no stamp at Enable.
LinkUnstamped(m) ==
    /\ linked' = [linked EXCEPT ![m] = TRUE]
    /\ seed' = [seed EXCEPT ![m] = local[m]]
    /\ UNCHANGED stamp

\* Link the checkout, stamp the settings as synced so that a fresh machine
\* inherits, and tick, which does nothing while an older worker still runs.
Link(m) ==
    /\ linked' = [linked EXCEPT ![m] = TRUE]
    /\ stamp' = [stamp EXCEPT ![m] = local[m]]
    /\ seed' = [seed EXCEPT ![m] = local[m]]

\* Enable where the clone of an earlier link is still on disk.
EnableAgain(m) ==
    /\ ~linked[m] /\ checkout[m].cloned /\ MayToggle
    /\ Spend("toggles")
    /\ Link(m)
    /\ IF Busy(m)
       THEN UNCHANGED <<tick, edited>>
       ELSE /\ tick' = [tick EXCEPT ![m] = Started(local[m])]
            /\ edited' = [edited EXCEPT ![m].seen = FALSE, ![m].unseen = FALSE]
    /\ UNCHANGED <<remote, checkout, local, disk, granted>>

EnableFirst(m) ==
    /\ ~linked[m] /\ ~checkout[m].cloned /\ ~Busy(m) /\ MayToggle
    /\ Spend("toggles")
    /\ tick' = [tick EXCEPT ![m] = [Idle EXCEPT !.at = "clone"]]
    /\ UNCHANGED <<remote, checkout, local, disk, stamp, linked, edited, granted, seed>>

\* A clone of an empty repository has no upstream ref.
Cloned(m) ==
    /\ tick[m].at = "clone"
    /\ checkout' = [checkout EXCEPT ![m] = [cloned |-> TRUE, upstream |-> remote # <<>>,
                                            history |-> remote, file |-> NewestContent(remote)]]
    /\ Link(m)
    /\ tick' = [tick EXCEPT ![m] = Started(local[m])]
    /\ edited' = [edited EXCEPT ![m].seen = FALSE, ![m].unseen = FALSE]
    /\ UNCHANGED <<remote, local, disk, used, granted>>

CloneFails(m) ==
    /\ tick[m].at = "clone" /\ May("network")
    /\ Spend("faults")
    /\ tick' = [tick EXCEPT ![m] = Idle]
    /\ UNCHANGED <<remote, checkout, local, disk, stamp, linked, edited, granted, seed>>

\* Mutant of Disable: the generation is left as it is.
DisableKeepsGeneration(m) ==
    /\ linked[m] /\ MayToggle
    /\ Spend("toggles")
    /\ linked' = [linked EXCEPT ![m] = FALSE]
    /\ UNCHANGED <<remote, checkout, local, disk, stamp, tick, edited, granted, seed>>

\* Disable, or the unlinking of an account switch: the worker goes on, its
\* result will be dropped.
Disable(m) ==
    /\ linked[m] /\ MayToggle
    /\ Spend("toggles")
    /\ linked' = [linked EXCEPT ![m] = FALSE]
    /\ tick' = [tick EXCEPT ![m].current = ~Busy(m)]
    /\ UNCHANGED <<remote, checkout, local, disk, stamp, edited, granted, seed>>

-----------------------------------------------------------------------------
\* The worker: run_sync_tick.

\* Mutants of Pulled: a merging pull, which puts the local commits on top; a
\* fetch without the merge.
PulledMerging(c) ==
    LET new == SelectSeq(c.history, LAMBDA commit : commit \notin Range(remote))
    IN [ok |-> remote # <<>>,
        checkout |-> [c EXCEPT !.upstream = @ \/ remote # <<>>, !.history = remote \o new,
                               !.file = NewestContent(remote \o new)]]

PulledFetchOnly(c) == [ok |-> remote # <<>>, checkout |-> [c EXCEPT !.upstream = @ \/ remote # <<>>]]

\* git pull --ff-only.  It always fetches; it moves the branch only forwards,
\* and not over an uncommitted payload.
Pulled(c) ==
    LET fetched == [c EXCEPT !.upstream = @ \/ remote # <<>>]
        clean == c.file = NewestContent(c.history)
    IN IF FastForwards(remote, c.history)
       THEN [ok |-> remote # <<>>, checkout |-> fetched]
       ELSE IF FastForwards(c.history, remote) /\ clean
       THEN [ok |-> TRUE, checkout |-> [fetched EXCEPT !.history = remote,
                                                       !.file = NewestContent(remote)]]
       ELSE [ok |-> FALSE, checkout |-> fetched]

WorkerKeeps == UNCHANGED <<local, disk, linked, granted, seed>>

Pull(m) ==
    /\ tick[m].at = "pull"
    /\ \/ /\ ~checkout[m].upstream
          /\ tick' = [tick EXCEPT ![m].at = "reconcile"]
          /\ UNCHANGED <<checkout, used>>
       \/ /\ checkout[m].upstream
          /\ checkout' = [checkout EXCEPT ![m] = Pulled(@).checkout]
          /\ tick' = [tick EXCEPT ![m].at = "reconcile", ![m].online = Pulled(checkout[m]).ok]
          /\ UNCHANGED used
       \/ /\ checkout[m].upstream /\ May("network")
          /\ Spend("faults")
          /\ tick' = [tick EXCEPT ![m].at = "reconcile", ![m].online = FALSE]
          /\ UNCHANGED checkout
    /\ WorkerKeeps
    /\ UNCHANGED <<remote, stamp, edited>>

Decide(m) ==
    LET repo == checkout[m].file
        decision == Reconcile(tick[m].mine, repo, stamp[m])
        read == [tick[m] EXCEPT !.read = Len(checkout[m].history)]
    IN
    /\ tick[m].at = "reconcile"
    /\ tick' = [tick EXCEPT ![m] =
         CASE decision = "uptodate" /\ stamp[m] = tick[m].mine -> Ended(read, "uptodate")
           [] decision = "uptodate" /\ stamp[m] # tick[m].mine ->
                  [read EXCEPT !.at = "stamp", !.result = "uptodate"]
           [] decision = "apply" -> [Ended(read, "applied") EXCEPT !.payload = repo]
           [] decision = "push" /\ ~tick[m].online -> Ended(read, "failed")
           [] OTHER -> [read EXCEPT !.at = "commit"]]
    /\ WorkerKeeps
    /\ UNCHANGED <<remote, checkout, stamp, used, edited>>

\* write_payload and commit_paths; the write, or the commit after it, may fail.
CommitPayload(m) ==
    /\ tick[m].at = "commit"
    /\ \/ /\ checkout' = [checkout EXCEPT ![m].file = tick[m].mine,
                             ![m].history = Append(@, [by |-> m, content |-> tick[m].mine])]
          /\ tick' = [tick EXCEPT ![m].at = "push"]
          /\ UNCHANGED <<used, edited>>
       \/ /\ May("disk")
          /\ Spend("faults")
          /\ checkout' \in {checkout, [checkout EXCEPT ![m].file = tick[m].mine]}
          /\ tick' = [tick EXCEPT ![m] = Ended(@, "failed")]
          /\ edited' = [edited EXCEPT ![m].uncommitted = TRUE]
    /\ WorkerKeeps
    /\ UNCHANGED <<remote, stamp>>

\* push_setting_upstream: git takes a branch only as an extension of its own.
Accepted(m) == FastForwards(remote, checkout[m].history)

PushTo(m, success, failure) ==
    \/ /\ Accepted(m)
       /\ remote' = checkout[m].history
       /\ checkout' = [checkout EXCEPT ![m].upstream = TRUE]
       /\ tick' = [tick EXCEPT ![m] = success]
       /\ UNCHANGED used
    \/ /\ ~Accepted(m)
       /\ tick' = [tick EXCEPT ![m] = failure]
       /\ UNCHANGED <<remote, checkout, used>>
    \/ /\ May("network")
       /\ Spend("faults")
       /\ tick' = [tick EXCEPT ![m] = failure]
       /\ UNCHANGED <<remote, checkout>>
    \/ /\ May("landed") /\ Accepted(m)     \* taken, and the answer lost
       /\ Spend("faults")
       /\ remote' = checkout[m].history
       /\ tick' = [tick EXCEPT ![m] = failure]
       /\ UNCHANGED checkout

Stamping(t) == [t EXCEPT !.at = "stamp", !.result = "pushed"]

Push(m) ==
    /\ tick[m].at = "push"
    /\ PushTo(m, Stamping(tick[m]), [tick[m] EXCEPT !.at = "retry"])
    /\ WorkerKeeps
    /\ UNCHANGED <<stamp, edited>>

PullAgain(m) ==
    /\ tick[m].at = "retry"
    /\ \/ LET result == Pulled(checkout[m]) IN
          /\ checkout' = [checkout EXCEPT ![m] = result.checkout]
          /\ tick' = [tick EXCEPT ![m] = IF result.ok THEN [@ EXCEPT !.at = "repush"]
                                                       ELSE Ended(@, "failed")]
          /\ UNCHANGED used
       \/ /\ May("network")
          /\ Spend("faults")
          /\ tick' = [tick EXCEPT ![m] = Ended(@, "failed")]
          /\ UNCHANGED checkout
    /\ WorkerKeeps
    /\ UNCHANGED <<remote, stamp, edited>>

\* Mutant of PushAgain: the error of the second push is not looked at.
PushAgainUnchecked(m) ==
    /\ tick[m].at = "repush"
    /\ PushTo(m, Stamping(tick[m]), Stamping(tick[m]))
    /\ WorkerKeeps
    /\ UNCHANGED <<stamp, edited>>

PushAgain(m) ==
    /\ tick[m].at = "repush"
    /\ PushTo(m, Stamping(tick[m]), Ended(tick[m], "failed"))
    /\ WorkerKeeps
    /\ UNCHANGED <<stamp, edited>>

SaveStamp(m) ==
    /\ tick[m].at = "stamp"
    /\ stamp' = [stamp EXCEPT ![m] = tick[m].mine]
    /\ tick' = [tick EXCEPT ![m] = Ended(@, @.result)]
    /\ WorkerKeeps
    /\ UNCHANGED <<remote, checkout, used, edited>>

-----------------------------------------------------------------------------
\* The app thread takes the result: settings_sync_apply for a payload.

Applying(m) == tick[m].at = "done" /\ tick[m].current /\ tick[m].result = "applied"

Settled(m) == edited' = [edited EXCEPT ![m].seen = FALSE]

Release(m) == tick' = [tick EXCEPT ![m] = Idle]

Report(m) ==
    /\ tick[m].at = "done" /\ ~Applying(m)
    /\ Release(m)
    /\ IF tick[m].result \in {"uptodate", "pushed"} THEN Settled(m) ELSE UNCHANGED edited
    /\ UNCHANGED <<remote, checkout, local, disk, stamp, linked, used, granted, seed>>

\* What the settings become: the payload is merged into the settings of now,
\* not into those the tick compared.
Preferred(m) == WithPreferences(local[m], tick[m].payload)
Adopted(m) == WithConnections(Preferred(m), tick[m].payload)

Apply(m) ==
    /\ Applying(m)
    /\ local' = [local EXCEPT ![m] = Adopted(m)]
    /\ disk' = [disk EXCEPT ![m] = Adopted(m)]
    /\ stamp' = [stamp EXCEPT ![m] = tick[m].payload]
    /\ Release(m) /\ Settled(m)
    /\ UNCHANGED <<remote, checkout, linked, used, granted, seed>>

\* settings.json cannot be saved: the handler returns before the connections.
ApplyUnsaved(m) ==
    /\ Applying(m) /\ May("save")
    /\ Spend("faults")
    /\ local' = [local EXCEPT ![m] = Preferred(m)]
    /\ Release(m)
    /\ UNCHANGED <<remote, checkout, disk, stamp, linked, edited, granted, seed>>

\* connections.json cannot be saved: the handler returns before the stamp.
ApplyHalfSaved(m) ==
    /\ Applying(m) /\ May("save")
    /\ Spend("faults")
    /\ local' = [local EXCEPT ![m] = Adopted(m)]
    /\ disk' = [disk EXCEPT ![m].theme = Preferred(m).theme, ![m].agents = Preferred(m).agents]
    /\ Release(m)
    /\ UNCHANGED <<remote, checkout, stamp, linked, edited, granted, seed>>

\* The process dies and is launched again, which ticks.  Dying inside
\* settings_sync_apply leaves the files it had already written.
OnDisk(m) ==
    {disk[m]} \cup (IF Applying(m)
                    THEN {[disk[m] EXCEPT !.theme = Preferred(m).theme, !.agents = Preferred(m).agents],
                          Adopted(m)}
                    ELSE {})

Relaunch(m) ==
    /\ tick[m].at # "clone" /\ May("crash")
    /\ Spend("faults")
    /\ \E found \in OnDisk(m) :
          /\ local' = [local EXCEPT ![m] = found]
          /\ disk' = [disk EXCEPT ![m] = found]
          /\ tick' = [tick EXCEPT ![m] = IF linked[m] /\ Room(m) THEN Started(found) ELSE Idle]
    /\ edited' = [edited EXCEPT ![m].seen = @ \/ edited[m].unseen, ![m].unseen = FALSE]
    /\ UNCHANGED <<remote, checkout, stamp, linked, granted, seed>>

-----------------------------------------------------------------------------
ByUser(m) ==
    \/ EditPreferences(m)
    \/ SaveNewConnection(m)
    \/ SaveConnection(m)
    \/ DeleteConnection(m)
    \/ EnableFirst(m)
    \/ EnableAgain(m)
    \/ Disable(m)

ByWorker(m) ==
    \/ Cloned(m)
    \/ Pull(m)
    \/ Decide(m)
    \/ CommitPayload(m)
    \/ Push(m)
    \/ PullAgain(m)
    \/ PushAgain(m)
    \/ SaveStamp(m)

ByApp(m) ==
    \/ Report(m)
    \/ Apply(m)
    \/ ApplyUnsaved(m)
    \/ ApplyHalfSaved(m)

Next ==
    \E m \in Machines :
        \/ ByUser(m)
        \/ Trigger(m)
        \/ ByWorker(m)
        \/ ByApp(m)
        \/ CloneFails(m)
        \/ Relaunch(m)

Spec == Init /\ [][Next]_vars

\* Every git command has a timeout and every result is delivered; each machine
\* is launched or refocused again and again.  Users owe nothing.
Fairness == \A m \in Machines : WF_vars(ByWorker(m)) /\ WF_vars(ByApp(m)) /\ WF_vars(Trigger(m))

LiveSpec == Spec /\ Fairness

-----------------------------------------------------------------------------
\* Properties.

Shared == {remote[i].content : i \in DOMAIN remote}

Stages == {"idle", "clone", "pull", "reconcile", "commit", "push", "retry", "repush", "stamp", "done"}

\* The shape of the state; a payload is handed to the app exactly when a tick
\* ends in ApplyRepo (the expect calls of run_sync_tick).
TypeOK ==
    /\ remote \in Seq(Commit)
    /\ checkout \in [Machines -> [cloned : BOOLEAN, upstream : BOOLEAN,
                                  history : Seq(Commit), file : Content \cup {None}]]
    /\ local \in [Machines -> Content] /\ disk \in [Machines -> Content]
    /\ stamp \in [Machines -> Content \cup {None}] /\ seed \in [Machines -> Content \cup {None}]
    /\ linked \in [Machines -> BOOLEAN]
    /\ tick \in [Machines -> [at : Stages, mine : Content \cup {None}, online : BOOLEAN,
                              payload : Content \cup {None}, read : Nat, current : BOOLEAN,
                              result : Results]]
    /\ \A m \in Machines : (tick[m].payload # None) <=> (tick[m].result = "applied")
    /\ used \in [edits : Nat, faults : Nat, toggles : Nat]
    /\ edited \in [Machines -> [seen : BOOLEAN, unseen : BOOLEAN, uncommitted : BOOLEAN]]
    /\ granted \in [Machines -> SUBSET (Names \X Endpoints)]

\* The settings a payload is about to replace stay reachable: what the tick
\* compared is in the history of the machine's clone, or is what Enable stamped,
\* and so is what the machine shows by now, whatever pushes failed and whenever
\* the process died.  Two exceptions: a commit that failed after its payload
\* file was written, and what the user changed while the tick ran ("unseen"):
\* that edit is replaced and is in no history, against "local pushes; the
\* repo's version stays in git history" (settings/sync.rs:6-7).
Kept(m) == {c.content : c \in Range(checkout[m].history)} \cup {seed[m]}
GivenUpIsInHistory ==
    \A m \in Machines : Applying(m) /\ ~edited[m].uncommitted
        => /\ tick[m].mine \in Kept(m)
           /\ local[m] \in Kept(m) \/ edited[m].unseen

\* A machine that says "Pushed local settings" has its settings in the
\* repository's history: after a first push that was refused or went unheard,
\* a pull that brought other commits or none, and a second push.
PushedIsShared ==
    \A m \in Machines : tick[m].result = "pushed" => tick[m].mine \in Shared

\* A machine pushes only over commits it had when it reconciled: the second
\* attempt after a refused push (run_sync_tick's pull and push) never puts its
\* payload over one that came in between.
PushesOverWhatItRead ==
    [][\A m \in Machines :
          remote' # remote /\ remote'[Len(remote')].by = m => Len(remote) <= tick[m].read]_vars

\* Once Disable has returned, nothing but its user changes a machine's settings,
\* even while the worker that was running then ends (the generation check).
KeepsWhenDisabled(m) ==
    ~linked[m] /\ ~linked'[m] /\ local'[m] # local[m]
        => used'.edits > used.edits \/ used'.faults > used.faults

\* An open connection's endpoint is one the machine's own user opened under
\* that name: no chain of pushes, merges, deletions and relaunches on several
\* machines carries it in (merge_synced_connections: local authority).
AuthorityIsLocal ==
    \A m \in Machines : \A c \in Range(local[m].connections) :
        c.trust = "open" => <<c.name, c.endpoint>> \in granted[m]

\* A synced payload never deletes, reorders or retargets a local connection,
\* and leaves no name twice in the list.
KeepsConnections(m) ==
    LET old == local[m].connections
        new == local'[m].connections
    IN used' = used /\ new # old
          => /\ Len(old) <= Len(new)
             /\ \A i \in DOMAIN old : /\ new[i].name = old[i].name
                                      /\ new[i].endpoint = old[i].endpoint
                                      /\ new[i].trust = old[i].trust
             /\ Unique(new)

\* What a worker brings back takes nothing from its machine: a disabled one
\* keeps its settings, a linked one its connections.
KeepsWhatIsLocal == [][\A m \in Machines : KeepsWhenDisabled(m) /\ KeepsConnections(m)]_vars

\* "Only this machine moved": a tick pushes over an existing payload only on a
\* machine whose user has edited since its last settled tick.  A machine that
\* has just been enabled inherits.
PushesOnlyEdits ==
    \A m \in Machines :
        tick[m].at = "commit" /\ checkout[m].file # None => edited[m].seen

\* Machines that only follow catch up: once the edits stop, every linked
\* machine comes to show the newest payload and stays with it.
FollowersCatchUp ==
    <>[](\A m \in Machines : linked[m] => local[m] = NewestContent(remote))

=============================================================================
