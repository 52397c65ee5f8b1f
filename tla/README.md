# zeDB: a TLA+ model of its protocols

zeDB is a ClickHouse workbench and a migration tool: a library of repository
and settings handling (`zedb-core`), a library that talks to ClickHouse
(`zedb-ch`), a command line (`zedb-cli`), an agent protocol client
(`zedb-acp`) and a desktop application (`zedb-app`).  This directory holds
TLA+ modules of the parts where an order of events can go wrong, TLC
configurations that check them on small instances, and theorems that TLAPS
checks for every instance.  `PROJECT.json` lists components, runs, the source
lines each definition stands for, hazards, findings and theorems.

Run a check with `tlc -config MCRunnerFleet.cfg MCMigrationRunner.tla`, the
proofs with `tlapm MigrationRunnerProofs.tla`.

Contents: 1 the system; 2 the plan; 3 modules and code; 4 runs, bounds and
fairness; 5 proofs; 6 where the code and its words disagree; 7 what is not
modelled.

## 1. The system

| Part | State | Operations | Interacts with |
|---|---|---|---|
| Fleet migration runner (`zedb-ch/src/runner*`) | `zedb_migrations` and `zedb_meta` on the server; per run the operation, the target list, the migrations still to do | `upgrade`, `rollback_to`, `rollback_one`, `stamp`, `apply_targeted`, `import_tracking` | the repository, the server, other operators' runs on the same tables |
| Migration repository (`zedb-core/src/repo`) | the chain, rollback classes, `targeted.toml`, `exclusions.toml` | discover, scaffold, import; git moves it under the tool | read by every run when it starts |
| Settings sync (`zedb-core/src/sync.rs`, `features/settings/sync.rs`) | preferences and connections in memory and on disk, the clone, `sync-state.json` (hash last synced), a busy flag and a generation | tick (pull, compare, push or hand back a payload), apply, enable, disable | other machines through git; the settings views |
| Agent connection (`zedb-acp`) | pending map of 64 requests, two bounded queues, the closed flag, three pumps | request, notify, cancel, shutdown, route | the agent process; the agent pane |
| Agent pane (`features/agent/controller*`) | the thread on show, its queue of permissions, the cache of processes, a generation | start a thread, send, cancel, click a permission, ask about a selection | several agent connections at once |
| Fleet view (`features/fleet/*`) | the checkout, the matrix and its generation, consent, the pending action and its modal | open, pull, refresh, request, acknowledge, execute | connecting and disconnecting; the runner; git |
| Query execution (`features/query/execution*`) | tabs, the run in flight, its queue of events, the pause at a failed statement, debounced reruns | run, cancel, rewrite, resolve; open, close and reorder tabs | HTTP client, the grid |
| Live tail (`features/query/tail*`) | the last key, the rows on show, the push state, stream, live view, a generation and an epoch | poll, upgrade, stream, watch, pause, edit, stop, restart on a node | the server's inserts, the active node, lost connections |
| Saved connections and Cloud services (`features/connections/*`) | the list, `connections.json`, the Keychain, the session's password cache, the form, the session | add, edit, test, save, rename, copy, delete, connect, wake a service, rotate its password | the Cloud control plane; the nodes; everything that runs in a session |
| Native pool (`zedb-ch/src/native/pool.rs`) | state per connection: connecting, ready, failed | acquire, connect, evict | query execution |
| Schema cache (`zedb-ch/src/schema_cache.rs`) | published snapshot of databases, tables and columns | load, refresh, merge columns | completion, views |
| Pinned binary (`zedb-ch/src/pin.rs`) | a directory per version (binary, digest, archive, note of the fallback), a lock in each process | look up, download, install, discard, fall back | other zeDB processes on the same directory; regen, verify, ephemeral servers |
| State store (`zedb-core/src/store.rs`) | files | atomic write, read or quarantine | everything that persists |

The remaining parts (git wrappers, ephemeral servers, row formats, schema
intelligence, MCP, analytics, platform services, user interface) are in
section 7 and in `PROJECT.json`, with the reason they are left out.

### What makes them correct, and what is hard

*Migration runner.*  The tracking table is all that is known about a server.
A run awaits the server between any two of its steps, no lock is held across
them, a call may fail with its effect done or not, a statement may outlive
the call that sent it, and the process may die anywhere.  Wanted: a statement
is announced before it is sent; a success row is never a lie; an unfinished
migration is always visible; at most one is unfinished per run; upgrade does
not repeat; rollback goes from the top; gates, consent, allow lists and
exclusions hold for every database of a walk and not only for the first; a
run that returns `Ok` has done what was asked; a run returns.

*Settings sync.*  Machines edit, pull and push one repository in turns that
overlap with local edits.  A tick compares three things: the settings it was
started with, the payload file of its clone, and the stamp.  All three can
change under it, a push can fail after its commit, and the merge makes a
fourth thing of the first two.  Wanted: what is given up stays in git history;
a retry buries nothing; a machine that only follows comes to show the newest
payload and does not push; no connection gains authority or disappears by a
sync; Disable means disabled.

*Agent connection.*  Five tasks share two bounded queues and a map; the agent
may die, the pane may stop listening, a deadline may pass between any two
steps.  Wanted: every request gets an outcome and gives its place back; no
reply overtakes the updates before it; the end of the agent is noticed even
behind a full queue; a permission request is always answered; no circle of
full queues.

*Agent pane.*  Threads are replaced while handshakes and turns are in flight.
Wanted: a late answer stays out of a thread it was not meant for; at most one
process per agent is cached, and it is the one that lives; a turn whose
process dies ends.

*Fleet view.*  Reads, mutations and git tasks end after the connection, the
checkout or the modal has changed.  Wanted: a mutation rests on consent given
for it in its own session and runs once; what a settled matrix shows is true
of the connected cluster; reading ends; a checkout stays with the connection
it was opened for.

*Query tab.*  A cancelled run still has events in its queue and a task that
may send; one abort handle and one skip button serve all tabs.  Wanted: spinner
and buttons belong to the run they show; a grid holds rows of one result; a
complete result shows all its rows; a run ends.

*Live tail.*  Polls, streams, live views and edits are answered in any order,
told apart by a generation and an epoch.  Wanted: the rows on show are the
newest ones, each once; a live view on the server has an owner; a tail that is
behind catches up.

*Saved connections.*  One name is the key of the list, the file, the Keychain,
the cache and the session; a test, a wait for a sleeping service and a rotation
may be answered after the form has changed, and a save may fail halfway.
Wanted: they agree when the last task has ended; a failed save leaves nothing
half done; "Connecting..." ends.

*Pinned binary.*  Installs are serialised within a process and not between
processes, and a process or the machine may die between any two files.
Wanted: a binary that was handed out is not torn from under its user; what
`zedb pin` has answered holds offline; the debris of a dead install fails
nobody.

## 2. Plan

Most important first.

1. `ChainLedger`, `MigrationRunner`, `MigrationRunnerProofs`: done, with the
   refinement of the one by the other proved.
2. `SettingsSync`, `SettingsSyncProofs`: done.
3. `AgentChannel`, `AcpConnection` and its refinement, `ConnectionProofs`;
   `AgentPane` over `AgentChannel`, `AgentPaneProofs`: done.
4. `FleetView`, `FleetViewProofs`: done.
5. `QueryTab`, `QueryTabProofs`: done.
6. `LiveTail`, `LiveTailProofs`: done.
7. `Connections`, `ConnectionProofs`: done.
8. `PinCache`, `PinCacheProofs`: done.

Left, in the order of their worth: `NativePool` (a late failure against a newer
success, eviction by the user of an old socket); `SchemaCache` (loads against
newer publications); the Cloud account (sign-in, sign-out and a listing in
flight); `Store`.

No module that is proved about uses RECURSIVE operators; parameters are
constants with named assumptions.

## 3. Modules

| Module | Models |
|---|---|
| `ChainLedger` | what the runner promises per database: the applied set grows by its least missing migration and shrinks by its greatest |
| `MigrationRunner` | `runner.rs` and `runner/{actions,execution,tracking,targets}.rs`, several runs on one server; implements `ChainLedger` (`LedgerSpec`) |
| `SettingsSync` | `zedb-core/src/sync.rs`, the git calls it makes, and the app's side of it: several machines, one repository |
| `AgentChannel` | what a connection to an agent promises: each request one outcome, events in order, `Closed` last and never lost |
| `AcpConnection` | `zedb-acp/src/lib.rs`: requests, pumps, queues and the agent process; implements `AgentChannel` |
| `AgentPane` | `features/agent/controller*`: threads over several processes, each an `AgentChannel` |
| `FleetView` | `features/fleet`: consent and mutations, the reads of the matrix, the checkout, and what connecting does to them |
| `QueryTab` | `features/query/execution*` and `tabs.rs`: the runs of the editor's tabs |
| `LiveTail` | `features/query/tail_controller*`: one tail |
| `Connections` | `features/connections`: list, file, Keychain, form, test, wake, rotation |
| `PinCache` | `zedb-ch/src/pin.rs`: the cache of binaries, several processes on one directory |
| `MC...` | instances for TLC |
| `...Proofs` | theorems |

Everywhere, one step is what the code does between two awaits: a handler of
the application's thread is one action, a task is cut where it awaits.
Auxiliary variables are marked in the modules and are read by properties only.

### MigrationRunner and the code

A run is a `Runner` value with one operation.  `pc[r]` is the await it stands
at.

| Variable | Code |
|---|---|
| `rows` | rows of `zedb_migrations` (one repository's), `at` is `recorded_at`, `run` the `run_id` |
| `clock` | `now64(3)` of the server; two inserts may share a millisecond when `ClockSteps` has 0 |
| `seeds` | version rows of `zedb_meta` |
| `schema`, `executed`, `late` | what is really on the server; every statement executed; statements still running after their run lost them |
| `repo`, `checkout[r]` | the checkout on disk and what run `r` read of it |
| `op[r]` | command line and `RunnerOptions` |
| `dbs[r]`, `todo[r]`, `stmt[r]`, `seen[r]` | what is left of the loops over databases, migrations and statements; the first of the two sets `upgrade` reads |

| Action | Code |
|---|---|
| `Start` | `require_write`, the checks before `ensure_tracking`, `rollback_one`'s first gate |
| `EnsureTracking`, `SeedMeta` | `ensure_tracking`: count, then insert |
| `CountRows`, `ImportRows`, `Recount` | `import_tracking` |
| `ResolveTargets` | `target_databases`, after `rollback_one`'s check of `--targeted` |
| `ReadApplied`, `PlanUpgrade` | the two reads of `upgrade` and its pending list |
| `PlanRollbackTo`, `PlanRollbackOne`, `PlanRemoveTargeted`, `PlanStamp`, `PlanApply` | the read and the decision for one database |
| `RecordStarted`, `ExecuteStatement`, `StatementFails`, `DiscoveryFails`, `RecordFailure`, `RecordSuccess`, `DryRun`, `Unrenderable` | `apply_sql` |
| `RecordStamp` | `stamp`'s `record` |
| `QueryFails`, `Crash`, `Pull`, `Land` | environment: a failing query, death of the process, git, a statement that completes on the server after its connection is gone |

`argMax(.., (recorded_at, run_id))` over final rows is `LastStates`; a
`run_id` is random, so `Uuid` gives runs an arbitrary order.

Abstracted: SQL text (a migration has a number of statements; its schema is
absent, partial or present), parameters, audit log, admin routing, replicas
(a statement that ran on some of them is a partial outcome of
`StatementFails`), the identity columns of the tracking table.  A migration
has one text: editing a published file is not modelled.

### SettingsSync and the code

Each machine has an app thread (the user's actions and the delivery of a
result) and at most one worker (`run_sync_tick` or `git clone`).  A worker
step ends where it runs a git command or touches a file that others touch.

| Variable | Code |
|---|---|
| `remote` | the branch on the remote: the sequence of payload commits |
| `checkout[m]` | the clone: does its `.git` exist, has its branch an upstream ref, its commits, its `zedb-settings.json` |
| `local[m]`, `disk[m]` | preferences and connections in `Workspace`; the files they are saved in |
| `stamp[m]` | `sync-state.json`, `last_synced_hash` |
| `linked[m]` | `preferences.settings_sync_repo` is set |
| `tick[m]` | the worker: where it stands, the snapshot it was given (`mine`), `!pull_failed` (`online`), its result; `busy` is `at # "idle"`, `current` says whether `settings_sync.generation` is the one it was started under |
| `edited`, `granted`, `seed`, `tick.read` | auxiliary |

| Action | Code |
|---|---|
| `Trigger` | `focus_recheck`, `close_preferences`, "Sync now" |
| `EditPreferences` | `set_theme_preference` (ticks), `toggle_vim_mode` and the agent registry (do not) |
| `SaveNewConnection`, `SaveConnection`, `DeleteConnection` | `save_form` with `persist_draft`, the confirmed delete |
| `EnableFirst`, `Cloned`, `CloneFails`, `EnableAgain` | `settings_sync_enable_url`: clone, or reuse the clone; stamp; tick |
| `Disable` | `settings_sync_disable`, the unlinking in `settings_sync_identity_changed` |
| `Pull`, `Decide`, `CommitPayload`, `Push`, `PullAgain`, `PushAgain`, `SaveStamp` | `run_sync_tick` |
| `Report`, `Apply`, `ApplyUnsaved`, `ApplyHalfSaved` | the delivery in `settings_sync_tick`, `settings_sync_apply` and its two early returns |
| `Relaunch` | the process dies, also between the files `settings_sync_apply` writes, and the launch tick runs |

`Reconcile`, `Merge` and `WithPreferences` are the pure functions `reconcile`,
`merge_synced_connections` and `apply_preferences`; `Merged` is one turn of the
merge's loop.

Abstracted: contents are compared where the code compares their FNV hashes;
machine-local preferences are left out; `theme` stands for every preference
that follows the payload and `agents` for the two that an empty payload does
not clear; `trust` stands for read-only, tier, driver and Cloud link, which
the merge locks together; `endpoint` for the list of nodes.  Git is modelled by
four facts: a clone of an empty repository has no upstream ref; a pull always
fetches, so that even one that fails makes the ref; `--ff-only` moves the
branch only forwards and not over a dirty payload file; a remote takes only
extensions of its branch.

### AgentChannel, AcpConnection and the code

A request is a value of `Requests`; what is in a queue or a pipe is a frame's
kind and the request it is about.

| Variable | Code |
|---|---|
| `request`, `pending`, `answer` | where `request` stands; the keys of the pending map; what its oneshot holds |
| `closed` | the flag the reader raises before it drains the map |
| `outgoing`, `writing`, `stdin` | the bounded queue to the writer pump, the pump, the pipe to the agent |
| `stdout`, `reader` | the pipe from the agent; the reader pump and the frame in its hand |
| `events`, `listening` | the bounded queue to the pane, and its receiver |
| `ask` | a permission request, from the queue to its answer |
| `cancelled`, `agent`, `got`, `written`, `said` | the cancel notification; the process, and what it has read and written |
| `unposted` | auxiliary: updates written and not yet in the event queue |

| Action | Code (`zedb-acp/src/lib.rs`) |
|---|---|
| `Register`, `CheckClosed`, `SendRequest`, `Receive`, `TimeOut` | `request`: the place in the map, the look at the flag, the send, the answer, the deadline or the broken queue |
| `Cancel` | `notify`, `cancel` |
| `Write`, `Stderr` | the writer and the stderr pumps |
| `Hold`, `ReadReply`, `ReadEvent`, `ReadCall`, `Offer`, `OfferInVain`, `Refuse` | one frame through `read_bounded_line` and `route_message`, with the awaits on full queues |
| `EndOfOutput`, `RaiseFlag`, `Drain`, `Announce` | the end of the reader pump |
| `Take`, `ConsumerStops`, `Decide` | the pane's pump and the user's click |
| `Respond` | the task that waits for a permission's responder |
| `AgentReads`, `AgentWrites`, `AgentEnds` | the agent process; `shutdown` |

Abstracted: the bounds of frames and lines are cases (a frame over the limit, a
line that is no frame), typed payloads are left out.

`AgentChannel` is written with operators that take and return the record of one
channel, so that `AcpConnection` can be shown to implement one and `AgentPane`
can hold many.

### AgentPane and the code

| Variable | Code |
|---|---|
| `chan` | per process, its `AgentChannel` |
| `cache` | `connections`: per agent the process that is reused |
| `started`, `turn` | the tasks `agent_start_thread` and `agent_send_message` spawn |
| `thread` | the thread on show: generation, session, `running`, entries, `pending_permissions`, cards |
| `ask`, `effect` | `pending_ask`, a queued `SendPendingAsk` |
| `session` | auxiliary: the session a permission request was made in |

| Action | Code (`features/agent/controller*`) |
|---|---|
| `StartThread`, `Initialized`, `SessionReady`, `SessionFails` | `agent_start_thread`, before and after each of its two requests |
| `Send`, `AskAbout`, `DrainEffects`, `TurnEnds`, `Cancel`, `Click` | `agent_send_message` and its continuation, `agent_ask_about`, `agent_drain_effects`, `agent_cancel`, `agent_answer_permission` |
| `Pump` | one event of a process through `agent_apply_event_for`; on `Closed` the eviction |
| `Answer`, `Fail`, `Close`, `Says`, `AsksPermission` | the agents, as `AgentChannel` allows |

### FleetView and the code

| Variable | Code |
|---|---|
| `session`, `connected` | how often the application connected, and to which connection |
| `edits`, `path`, `remembered`, `cloning` | the input of the checkout, `fleet_repos` of the preferences, the git task in flight |
| `fleet`, `fetches` | repo, rows, loading, error and `fetch_generation`; the tasks that read the matrix |
| `version` | per cluster, how often its databases were changed |
| `unlock`, `request`, `pending`, `ack`, `typed`, `running`, `result` | `write_unlocked`, the pending action and the state of its modal |
| `job` | the tasks `fleet_execute_action` spawns |

| Action | Code (`features/fleet`) |
|---|---|
| `RefreshPressed`, `FetchReads`, `FetchLands` | `fleet_refresh`, its reads, its answer |
| `OpenPressed`, `TypePath`, `Pull`, `GitEnds` | `fleet_open_repo`, `fleet_open_local`, `fleet_clone_repo`, `fleet_pull` |
| `Connect`, `Lost`, `Disconnect` | `connect` with `fleet_connection_reset`, the health poll, `disconnect` |
| `ToggleUnlock`, `Request`, `Acknowledge`, `Type`, `CloseModal` | the panel and the modal |
| `Execute`, `Withdraw`, `JobChanges`, `JobEnds` | `fleet_execute_action`, its refusals, its task, its end |

Abstracted: what a mutation does to the databases is a new `version`
(`MigrationRunner` has the rest).

### QueryTab and the code

| Variable | Code |
|---|---|
| `query` | tabs in order, the active one, `run_id`, the abort handle, the sender of the skip decision, `rerun_generation` |
| `tab` | outcome, `result_rows`, `displayed_statement`, the pending rows and the grid |
| `task` | per run, the task of `start_statements`, its queue of `RunEvent` and its listener |
| `timers`, `history` | debounced reruns; statements recorded |

| Action | Code (`features/query`) |
|---|---|
| `Run`, `CancelPressed`, `Rewrite`, `RerunFires` | `run_query`, `cancel_query`, `grid_sort_requested` and the timer of `apply_rewritten_statement` |
| `Resolve` | `resolve_statement_failure` |
| `NewTab`, `SelectTab`, `CloseTab`, `CloseTabs`, `ReorderTab` | `tabs.rs` |
| `Stream`, `Succeeds`, `Fails` | the task: a batch, the end of a statement, an error, which skips, stops or waits |
| `Receive`, `Complete` | the listener: an event, the result |

A grid is the set of statements its rows come from; a batch is one row.

### LiveTail and the code

A table is the number of its rows, their keys are 1 to n; a row on show is
named by the query, the node and the key it was read with.

| Variable | Code |
|---|---|
| `server`, `views` | the tables and the live views of the servers |
| `connected` | the active node |
| `tail`, `grid`, `counters` | `TailState`, the rows on show, `next_tail_generation` and `next_stream_epoch` |
| `polls`, `setups`, `edits` | tasks in flight: polls, upgrades, edited queries being validated |
| `strays` | auxiliary: rows landed on a tail that had moved on since it began or was last edited; a live view was left behind |

| Action | Code (`features/query/tail_controller`) |
|---|---|
| `Open`, `Pause`, `Resume`, `Stop` | `start_tail`, `toggle_tail_pause`, `stop_tail` |
| `Tick`, `TickPaused`, `PollLands`, `PollFails` | `start_tail_loop`, `tail_poll_once` and its answer |
| `ProbeLands`, `UpgradePressed`, `ViewCreated`, `SetupLands` | `probe_native_push`, `upgrade_tail_instant` and its answer |
| `StreamDelivers`, `StreamEnds`, `WatchEvent`, `WatchEnds` | `consumers.rs` |
| `EditPressed`, `EditLands` | `update_tail_from_editor` and its answer |
| `SelectNode`, `Connect`, `Disconnect` | `select_node`, `connect`, the health poll and `disconnect`, with `restart_visible_tails` |
| `Insert` | rows that come in |

### Connections and the code

| Variable | Code |
|---|---|
| `list`, `disk`, `keychain`, `cache` | the saved connections in memory, `connections.json`, the Keychain, `password_cache` |
| `actual` | the password each server takes |
| `connected`, `connecting` | the session's connection; the name the toolbar shows as connecting |
| `form` | the open form: the entry it edits, by index and original name, its contents |
| `probes`, `explains`, `wakes`, `rotations` | tasks in flight: `probe_connection`, `cloud_explain_unreachable`, `cloud_wake_then_connect`, `cloud_provision_password` |
| `used` | what is spent of the bounds |
| `spoiled` | auxiliary: something got under a probe in flight, or taking a failed save or deletion back failed in turn |

| Action | Code (`features/connections`) |
|---|---|
| `StartAdd`, `StartEdit`, `CloseForm`, `SaveForm`, `SaveAndConnect`, `Connect`, `Duplicate`, `Delete`, `Disconnect` | the handlers of these names |
| `Persists`, `PersistFails`, `StepsBack` | `persist_draft`: done, failed and taken back, or with a step back (the file, the old item, the new item) that fails too |
| `Restart` | the application is quit or killed between two handlers and started again, with the list of the file |
| `NodesAnswer`, `ProbeFails`, `ProbeConnects`, `ProbeSaves`, `ProbeAborts` | `probe_connection`: the nodes' answer, and its landing with the refusals, saves and failures of `persist_draft` |
| `NotAsleep`, `WakeBegins` | `cloud_explain_unreachable` |
| `WakeAccepted`, `WakeRefused`, `WakeTick`, `StillAsleep`, `Awake` | `cloud_wake_then_connect` |
| `ConfirmRotation`, `Rotates`, `RotationLands` | `cloud_provision_password`, the control plane, the landing |

Abstracted: a connection is a name, a server and a posture; a secret is a
server and the count of its rotations; what the user types is chosen when the
form opens; an edit keeps the server; the application does not die in the
middle of one save.

### PinCache and the code

A file is told apart by what it holds: a binary is `fresh` as downloaded,
`rested` after its first run on macOS, which rewrites it, or `torn`.

| Variable | Code |
|---|---|
| `platform` | macOS, where a release is a binary, or Linux, where it is an archive that is kept |
| `dir` | the directory of each version: `clickhouse`, `clickhouse.tmp`, its `.sha256`, its `.artifact`, `fallback-version` |
| `lock` | `DOWNLOAD_LOCK` of each process |
| `task` | calls of `ensure_binary`: where each stands, the version asked for and the one it works on |
| `used` | what is spent of the bounds |
| `pinned`, `forgotten`, `disturbed`, `smooth` and `got` of a call | auxiliary: the last answer, versions whose last answer is not (or no more) noted or on disk, versions two processes worked on at once, calls nothing got in the way of, binaries handed out |

| Action | Code (`zedb-ch/src/pin.rs`) |
|---|---|
| `Ask`, `Enter` | `ensure_binary`, the lock |
| `Look`, `Probe` | `cached_binary`: integrity, then the run that asks its version |
| `Discard`, `Sweep`, `Clear`, `Fetch`, `Install`, `Keep`, `Prove`, `Hash`, `Record` | `ensure_exact_binary`, cut where another process can come in between |
| `Unalias`, `SaveAlias` | the note of the fallback in `ensure_binary_with_progress` |
| `Consult` | `cached_binary_or_fallback`, which takes no lock |
| `Crash`, `PowerLoss` | a process dies; the machine does, and loses data or names that were not synced, of any of the files |

Abstracted: a download goes to a temporary file of its own, so that it is one
step; release metadata, digests of the manifest and the archive's format decide
between `Downloaded`, `NotPublished` and `DownloadFails`; the clean-up after a
failed first run, of three files, is one step.

## 4. Runs

Twelve runs; no run asks what another asks.  Eleven pass.

### What they ask

`Faults` names what the environment may do.  In the runner: `network` (a query
or record call fails, its insert done or not), `statement`, `late`,
`discovery`, `params`, `crash`.  In settings sync: `network` (a git call
fails), `landed` (a push is taken, its answer lost), `disk` (writing or
committing the payload fails), `save` (one of the settings files cannot be
saved), `crash`.  In the connections: `file` and `secret` (the file or the
Keychain refuses), `rollback` (so does what takes the save or deletion back).

| Run | Question | Instance |
|---|---|---|
| `runner_sequential` | One operator after another: is tracking true of the server (`NewestRowIsTrue`), is the applied set a stack on the chain (`LedgerSpec`)? | one database, chain of three, one file with two statements each way, 3 runs, all faults but `late` |
| `runner_fleet` | A walk over several databases: one in doubt at most (`OneInDoubt`); is a success row ever a lie (`SuccessIsComplete`); nothing executed outside the targets or past the gate (`ExecutionsAllowed`); does `Ok` mean all of them (`OkMeansReached`); does every command return (`RunsReturn`)? | three databases, one excluded; `--all`, `--group`, repeated `--db`; an allow list, an import; every flag given and withheld against every class; a customisation that graduates between runs; 2 runs, failing queries, statements that fail and land late |
| `sync_settings` | Are settings that a tick gives up still reachable (`GivenUpIsInHistory`)? Is what is said to be pushed in the repository (`PushedIsShared`)? Does a retried push bury a commit it has not read (`PushesOverWhatItRead`)? Does a worker that outlives Disable touch the settings or an applied payload take a connection (`KeepsWhatIsLocal`)? Can a chain of syncs open one (`AuthorityIsLocal`)? | two machines with a connection each, the repository empty or not, two endpoints of which one is syncable; an edit, up to 2 faults of all kinds and 3 presses, 3 together |
| `sync_follow` | Does a machine come to show what the other one shares (`FollowersCatchUp`), and does it push over that only what its own user edited (`PushesOnlyEdits`)? | one machine edits (3 times), two are enabled once, no faults |
| `acp_connection` | Is the pending map free of what has ended, and does nobody wait in vain (`PendingMapIsSound`)? Do updates precede the reply (`UpdatesComeFirst`)? Is the end noticed (`DeadAgentIsNoticed`), a permission answered (`DecisionsArrive`)? Is it an `AgentChannel` (`ChannelSpec`, with its liveness)? | all queues and pipes of one frame, a pending map of one, two requests with deadlines, a permission, an unknown request, a line of stderr, cancel, death of agent and pane at any time |
| `agent_pane` | `OneProcessPerAgent`, `ThreadIsItsOwn`, `OneTurnAtATime`, `DeadTurnsEnd` | two threads of one agent or two, two turns, a permission, processes that die |
| `fleet_view` | Is a settled matrix true (`SettledMatrixIsTrue`)? Is consent fresh and spent once (`ConsentIsFresh`, `RunsOnce`)? Does reading end (`LoadingEnds`)? | two connections, one in production, each with a checkout, one of them behind a URL |
| `query_tab` | Do spinner and skip button belong to the run in flight (`ControlsAreLive`)? Is a grid of one result (`GridIsOneResult`), a complete one whole (`CompleteShowsAll`)? Do runs end (`RunsEnd`)? | two tabs, scripts of one and two statements, one batch of each, three runs, one rewrite |
| `live_tail` | Are the rows on show the newest, each once, where no answer came late (`ShownExactly`)? Are live views owned (`ViewsAreOwned`)? Does a tail catch up (`RowsArrive`)? | two nodes, one with an empty table; streams, live views, one edit, one restart |
| `connections` | Do session, list and Keychain agree (`NothingIsLeftBehind`)? Does a failed save that is taken back leave nothing half done (`SavesAreWhole`)? Does "Connecting..." end (`ConnectingEnds`)? | a saved connection to a Cloud service, a server and a name to add; four steps of work, two failing saves, deletions or steps back, restarts |
| `pin_cache` | Does a binary that was handed out stay whole (`HandedOutIsWhole`)? Does the answer of `zedb pin` hold offline until it is forgotten (`PinnedStaysUsable`)? Does debris fail nobody (`DebrisIsHarmless`)? | two processes, one with two calls at once, macOS and Linux, a published release and a build that has none, three calls, two faults of all kinds |
| `fleet_chain` (a violation) | Does a checkout stay with its connection (`ChainFollowsConnection`)? | as `fleet_view` |

`fleet_chain` finds a disagreement.  The comment at `probe.rs:141-142` says the
checkout is remembered per connection "so one cluster's chain never silently
attaches to another".  A clone or pull that was asked for under one connection
and ends under another opens its checkout there: the task compares nothing
when it ends (`features/fleet/actions.rs:202,229`), and opening stores the
checkout under the connection of that moment (`actions.rs:106-110,139-141`).

Six properties are conjunctions of named parts: `ExecutionsAllowed` is
`TargetsRespected` and `GateRespected`; `KeepsWhatIsLocal` is
`KeepsWhenDisabled` and `KeepsConnections` of each machine; `PendingMapIsSound`
is `SlotsAreInFlight` and `NobodyWaitsInVain`; `SettledMatrixIsTrue` is
`RowsAreCurrent` and, while no action runs, `RowsShowActions`;
`ControlsAreLive` is `SpinnerIsLive` and `DecisionIsLive`;
`NothingIsLeftBehind` is `ConnectedIsSaved` and `SecretsStayHome`.

### What the passing runs leave out on purpose

* `runner_sequential`, `runner_fleet`: operators take turns (`MaxActive = 1`)
  and no two rows share a millisecond.  The code takes no lock, and with two at
  once, or with a clock tie, `NewestRowIsTrue` and `OkMeansReached` fail.  Both are
  proved under that restriction, and what does hold with any number of runs at
  once and any clock is proved without it (`SuccessIsComplete`,
  `ExecutionsAllowed`, `OneInDoubt`).
  `runner_sequential` leaves `late` out: a statement that lands after its run recorded `failed` can
  falsify any later row, which no client could prevent.  `GateRespected`
  excepts migration 0, which `gate` lets pass before it looks at the class.
* `GivenUpIsInHistory` excepts a payload file that was written and not
  committed (`edited[m].uncommitted`): it is taken for the repository's,
  stamped, and can be given up later.  Of the settings a machine shows when a
  payload is applied it also excepts what the user changed since the tick began
  (`edited[m].unseen`): that edit is replaced and is in no history.  The run
  reaches both.
* That an edit is shared in the end ("Local wins and is pushed", `sync.rs:227`)
  is no property of any run.  It holds while one machine edits and no call
  fails, and with a second editor it does not (section 6).
* `PushesOnlyEdits` needs that no machine is enabled a second time and that a
  payload is taken as a whole (section 6).  `sync_follow` has no faults and no
  connections, and the proof takes any faults that keep to it (section 5).
* `ShownExactly` excepts a tail on which, since it began or was last edited, an
  answer has landed late (`"rows"` in `strays`): a poll that was in flight when
  a stream claimed the push slot, when another poll moved the last key or when
  the query was edited; a stream of the old query that was still connecting; an
  upgrade that answered a tail which something pushed to, which waited for
  another upgrade, or which was not primed.  The next edit or restart ends the
  exception.  The code repeats or loses rows in each of them, and TLC shows it:
  `MCLiveTailClaim.cfg` states `RowsComeOnce`, the promise of
  `native.rs:84-88` and `CHANGELOG.md:543-544`, and TLC refutes it (section 6).
* `ViewsAreOwned` excepts live views left behind (`"views"` in `strays`) by a
  reconnection, a stop while cut off, or a second upgrade answered with a view.
* `RowsArrive` excepts a tail under a live view.
* `NothingIsLeftBehind` and `SavesAreWhole` except, from then on, histories in
  which something got under a probe in flight, or a step back of a failed save or
  deletion failed in turn (`spoiled`): file and list, or Keychain and list, are
  apart then, and a restart shows what the file has.
* `HandedOutIsWhole` lets a binary be removed, and `PinnedStaysUsable` holds, only
  on the other side of `disturbed`: two processes at one version, or a probe
  that timed out.
* `PinnedStaysUsable` also excepts an answer that is `forgotten`: its note could
  not be written; a second call has taken the note away to replace it, and may
  die there; or the machine has lost a file of either directory.  It lasts until
  the next answer whose note is written.  The second of these needs no failure:
  between `remove_file` and `persist` of a second call an offline lookup finds
  nothing.  `MCPinCacheNote.cfg` states the property without the exception
  (`AnswerIsFound`) and allows no failure, and TLC refutes it (section 6).

Each exception is a history the code does reach; section 6 says which.

### Bounds

`MaxRuns` (2 or 3 runs) and `MaxActive` (1 alive) bound the runner;
nothing else is unbounded there, since a run does each unit of work once.
Three runs are what the sequential questions need: one that leaves a database
in a bad state, one that meets it, one that shows the result.  A file of two
statements has a first, a middle and a last point of failure; a chain of three
has a bottom, a middle and a top; three databases have one before, one at and
one excluded from the failing one.

In `SettingsSync`, `MaxEdits` (1), `MaxFaults` (2) and `MaxToggles` (3) count
over all machines, `MaxTogether` (3) bounds faults and presses together; a
tick starts only on a history shorter than `MaxCommits`, so that a tick once
begun is never cut off.  Two machines are enough for a race and for a stale
clone; three presses are an Enable of each machine and a Disable of one, or
two Enables and a fault between them.  With `MaxTogether` 4, two faults of two
linked machines, the instance has 3.5 million states and passes as well.

In `AcpConnection` one frame per queue (`OutgoingCapacity`, `EventCapacity`,
`PipeCapacity`, `PendingLimit`) makes every queue full as soon as it can be;
`MaxFrames` (2) and `MaxStderr` (1) bound what the agent writes.  The theorems
hold for every capacity.  In `AgentPane`, two threads are an old and a new one
(`MaxThreads`), two turns an open and a refused one (`MaxTurns`); three
permissions or threads add only repetitions.

In `FleetView`, `MaxWork` (4) is one budget for sessions, edits of the input,
reads and requests alike: connect, open, request and connect again is the
shortest history that crosses all of them.  The theorems hold for every
budget.  In `QueryTab`, `MaxTabs` 2, `MaxRunId` 3 (a run, its replacement and
one in the other tab; a cancellation takes a number too), `MaxRewrites` 1 and `MaxBatches` 1: a batch is
the first of its statement, which takes over the grid; with 2 the properties
hold as well, at more than twice the states, and the theorems hold for every
value.

In `LiveTail`, one insert brings `Burst` (2) rows where a poll returns `Limit`
(1) and the grid keeps `Cap` (2): the first poll is never enough and rows fall
off; `MaxRows` (3) leaves one burst after the first row; `MaxPolls` (1) is per
generation, `MaxEpochs` and `MaxGenerations` (2) allow one upgrade and one
restart after the first, `MaxEdits` is 1.  The connection changes only after
the first tail has opened.  `Experimental` is the streaming preference;
`{TRUE}` covers live views too, to which a refused stream falls back.

In `Connections`, `MaxWork` (4) is one budget for forms, copies, connects,
rotations and waits begun; `MaxPolls` (1) stands for the 24 polls of a wait;
`MaxFaults` (2) is a save that fails after another has.  One saved connection to
a Cloud service, and one name to add, rename or copy to.

In `PinCache`, `MaxAsked` (3) is one call that leaves debris, one that meets it
and one that runs beside them; `MaxFaults` (2) counts deaths, power losses and
failing steps.

### Fairness

`RunsReturn` assumes weak fairness of `Step(r)` for each run: the tokio
runtime polls every task, and a request is answered or its connection breaks.
The HTTP client has no timeout for the whole request
(`zedb-ch/src/client.rs:108-113`), so a server that keeps a connection open
without ever answering keeps the run forever; that case is excluded by the
assumption.  `Crash`, `Start`, `Pull` and `Land` are not fair.

`sync_follow` assumes weak fairness of the worker (every git command has a
timeout, `zedb-core/src/git.rs`), of the delivery of its result and of
`Trigger` (a linked machine is focused again and again).

`acp_connection` assumes it of the pumps, of each request's task and each
permission's task, of the pane taking events and of a running agent reading
its input; nothing of deadlines, of users, or of what the agent writes.  A pipe
that the agent never reads is full for good, and so is everything behind it.

`agent_pane` assumes it of handshakes, pumps and the delivery of turns, and of
what `AgentChannel` promises: a closed channel fails its calls.

`fleet_view` assumes it of reads and mutations (they end), not of git.
`query_tab`: a statement in flight ends one way or the other, and the listener
is polled.  A run paused at a failed statement waits for its user.

`live_tail`: weak fairness of the timer, of deliveries and of upgrades taken
together, and strong fairness of a poll that lands, which says that not every
poll fails for ever; nothing of probes, edits, users and tables.

`connections`: weak fairness of all tasks together; every request has a timeout
or an end, and every timer fires.

In all of them stopping is legitimate (a user may stop, all runs may have
ended), so deadlock is not checked: what must not stop is stated as a liveness
property.

## 5. Proofs

Each proof follows the same lines: an inductive invariant, found to hold by TLC
first, is shown to hold initially and to survive each action; the property
follows.  What is needed beyond the property is named below.

`MigrationRunnerProofs` proves, for every server, repository, set of commands
and number of concurrent runs admitted by `ServerAssumption`,
`RepoAssumption` and `OperationAssumption`:

* `TypeCorrect`: `Spec => []TypeOK`.  `TypeOK` is not inductive: that the
  database and the migration of a row exist needs that a run which executes
  still has a database and a migration to do, and that `Entry` admitted it.
  `Placed(r)` says so per run, `Inductive` is `TypeOK` and `Placed` for all.
  Every action is shown to keep the server's half (`ServerTyped`), the runs'
  half (`RunsTyped`), its own `Placed` and all other runs (`Moved`).
* `WriteAheadHolds`: with `Announced`, which adds that a run which executes
  has its row.  Rows are never deleted (`NewRows`), and a statement enters
  `executed` or `late` only from the run that stands before it (`Touched`).
* `SuccessIsCompleteHolds`: with `Completed`, which adds that a run at
  statement *i* has executed all before it.
* `ConsentRequiredHolds`: with `Allowed`, which adds that a run which has left
  a trace is not idle, so that its command line cannot change any more
  (`OperationKept`).

`Advance` says how a run can be executing after a step: because nothing
happened to it, or by one of three actions.  `MinAttained` and `MaxAttained`
show that the least and greatest elements the walks take exist, from the
well-foundedness of `<` on the naturals; the other proofs that need a least
element do the same.

* `ExecutionsAllowedHolds`.  `ExecutionsAllowed` is not inductive: the code asks
  before the first database (the gate of `rollback_one`, `--targeted`) or when
  it plans one (the gate of `rollback_to`, the allow list), and executes later,
  after a failure of another run, a checkout that has moved or a statement that
  lands late.  `Cleared(r)` says what run `r` has been asked by where it stands:
  about `--targeted` once it walks, and `MayDo` of each migration it still has
  to do.  `Vetted` adds that whatever was executed, or may still land, could be
  touched (`MayTouch`), by a run that is not idle, so that its operation and
  checkout are the ones it was asked about.  A step that leaves the walk, goes
  to the next database, starts a walk or stays at its migration each has a
  lemma; `Touched` and `OperationKept` carry the rest.
* `OneInDoubtHolds`.  `OneInDoubt` alone says nothing of where the one
  unfinished migration is, so a step that writes the next `started` row could
  add a second.  `DoubtKept(r)` adds it: before and between migrations the run
  leaves nothing unfinished, while it executes only what it executes is, and
  once it has ended no row of its own is added.  `StepDoubt` goes through the
  run's own steps; `OthersDoubt` shows that the rows of other runs and those a
  group took over carry another run's number.

Three more need hypotheses about how the tool is used, which the code does not
enforce (section 4 says what fails without them):

* `SingleOperator`: one run is alive at a time and `now64(3)` moves between two
  inserts (a statement is a round trip of its own).
* `NoLateStatements`: no statement takes effect after its connection is gone.
* `OneCheckout`: the repository is not pulled between runs and there are no
  legacy rows to take over; the chain of `ChainLedger` is fixed.

Under the first, `CalmNext`: nobody but the run that steps is alive (`Solo`), and
no row is newer than the clock (`Timely`), so that a new row is later than
every other.  `InsertIsFresh`, `NewestWith`, `LastStatesWith` and `SetsWith` say
what such a row does to the newest rows, the last states and the applied set:
one migration of one database changes, as the row says.

* `NewestRowIsTrueHolds` (`SingleOperator`, `NoLateStatements`): with
  `Begun(r)`, that the newest row of what a run executes says `started` from
  before its first statement to its final row, and that after the last
  statement the schema is what the final row will say; and that an import finds
  the table empty, as it did when it counted.
* `OkMeansReachedHolds` (`SingleOperator`): with `Progress(r)`.  `Missing` is what
  an operation has still to do on a database, read off the tracking table.
  While a run works on a database its `todo` is what is missing there; nothing
  is missing on those behind it.  A success row takes out the migration it
  names (`SuccessFills`); nothing else touches what is missing (`GapKept`).
* `RunnerIsLedger` (`SingleOperator`, `OneCheckout`): `Spec => LedgerSpec`, step by
  step.  A success row of an upgrade or a stamp is a push, one of a rollback a
  pop, provided the migration is the least missing or the greatest applied
  (`WhereCurrentStands`, from `Progress`); every other step, failure or crash is
  a stutter.  `Sorted` keeps the chain and the customisations apart.

`LedgerKeepsPrefix` shows that a ledger never has a gap, and with the refinement
`FleetIsPrefix` says it of the runner: the migrations applied to each database
are a prefix of the chain.

`SettingsSyncProofs` proves, for every number of machines, every content of
settings and repository and every mix of faults: `TypeCorrect`,
`AuthorityIsLocalHolds`, `GivenUpIsInHistoryHolds`, `PushedIsSharedHolds`, and
the action properties `KeepsWhatIsLocalHolds` and `PushesOverWhatItReadHolds`.
Three things carry them.

`MergeGrows`: merging a payload keeps every connection of the list with its
name, its place and its trust, and adds only locked ones.  `Merge` is the
source's loop, written as a function from the number of payload entries taken
to the list so far; the library's induction theorems cannot be instantiated
here, so `LoopExists` and `MergedGrows` take the least number for which the
claim fails and find that it did not.  That the names of a list are unique is
needed, and is what `draft_from_form` checks; it is assumed of the settings the
machines start with and proved to stay.

`Sound`, machine by machine: unless a commit of this machine has failed
(`uncommitted`), its payload file is the newest of its clone's history, and
whatever a tick compares with (the stamp), records or gives up is in that
history or is the seed (`RecordedIn`); a worker that pushes has made the
last commit itself, on top of what it had read (`OwnCommit`).  The repository
moves only forwards, and histories that are prefixes of it stay so
(`ForwardsOn`).  Every action is a `SettingsStep` or a `WorkerStep` of one
machine, or both, and `StepKeeps` says once for all of them what that
preserves.  A worker that outlives Disable is why `Sound` speaks of `current`:
only a tick that is still current needs what it was given to be recorded.

`Timely`, worker by worker: the machine shows what its worker started from
unless its user has edited since (`unseen`), and a worker that writes its stamp
or says it has pushed has what it pushed in the repository's history
(`TimelyStep` for the worker's machine, `RemoteGrows` for the others).
`GivenUpIsInHistory` is `Sound` for what the tick compared and `Timely` for what
the machine shows by then.

`PushesOnlyEditsHolds` is proved of the behaviours whose steps satisfy two
conditions, for the code does not keep it otherwise (section 6).  `LinkedOnce`:
no machine is enabled again while an earlier clone is on disk.  `AppliedWhole`:
what a machine ends up with is the payload, connections and agents included,
no save fails and no crash comes between the saves of `settings_sync_apply`.
Any number of machines whose users edit, refused pushes, lost answers, failed
commits and crashes elsewhere are allowed.  `Candid` adds that the stamp is
what the machine shows until its user edits, that a worker compares what is
shown unless there was an edit since, and that a tick which says it has settled
has stamped what it compared; TLC has no counterexample to it on the instance
of `sync_follow` with two editors and all faults.  `ThemesFollow` is the case of
machines that share preferences only and meet neither a failing save nor a
crash: `LinkedOnce` is all they need.

`QueryTabProofs` proves `TypeCorrect`, `ControlsHold`, `OneResult` and
`AllIsShown` for every set of scripts (an empty one does not start) and any number of
tabs, runs, batches and rewrites.  `GridIsOneResult` and `CompleteShowsAll` are
not inductive, for what is in the queue is still to be applied.  `Foretold` says
there is a course of views, the present one first, each made from the one
before by the next event in the queue (`After`), all of them of one statement
(`Whole`), the last one with the rows the task has sent; and that the next batch
will find an empty grid or its own statement's (`Awaits`).  Sending an event
extends the course (`ForetoldGrows`), applying one takes its first view away
(`ForetoldHears`).  `Flight` says it of the run that can be cancelled, which is
the last one started, has a listener and a tab that shows it as going on
(`SpinnerIsLive`); `RunKept` that a run which is the last one and has not ended can
be cancelled, so that what is heard of the current run is heard of that one;
`Asks` that a failure is the last event of a task that waits, so that skipping
and cancelling find nothing queued behind it.  `Strip` says that tabs which were
not opened yet show nothing.  `CancelKeeps`, `StartKeeps`, `TaskKeeps`,
`ShowKeeps`, `LeaveKeeps` and `ArrangedKeeps` each serve several actions.  What
closing and moving tabs leaves in the strip is three lemmas: `RemoveKeeps` and
`InsertKeeps` of the community operators, `KeptIs` of the loop of
`close_query_tab_ids`, by its least counterexample.

`AgentPaneProofs` proves `TypeCorrect`, `OneProcessPerAgentHolds`,
`ThreadIsItsOwnHolds` and `OneTurnAtATimeHolds` for any number of agents,
threads, turns, questions and any queue capacity.  `OneTurnAtATime` is not
inductive: a `Closed` or an answer makes the pane show its thread as stopped,
and the next prompt opens a turn; `Settled` adds that a turn of a thread shown as
stopped can be running only if its process is over.  That rests on what a
`Closed` can mean when the pump takes it: `Tidings` (a `Closed` in a stream is
true, updates and questions are of sessions that were opened), `Lineage` (a
thread's process was spawned for its agent by an earlier thread or by itself)
and `OneProcessPerAgent` (a process whose `Closed` is still to come is the one
in the cache).  `CallsKeepStreams` splits the actions into those that move
calls only and those that move streams (`EmitKeeps`, `PumpKeeps`).

`PinCacheProofs` proves `TypeCorrect`, `HandedOutIsWholeHolds`,
`PinnedStaysUsableHolds` and `DebrisIsHarmlessHolds` for any number of
processes, calls, versions and faults on both platforms.  The one thing asked
of the trust manifest is that it has a newest release, being a finite list.  A
call is followed file by file: `Own` says what it finds of what it has put there,
as long as no other process installs the same version (`Alone`); `Untouched`
says of a version that was never disturbed that its digest is that of a binary
at rest, and that nobody takes it apart once it was `Promised`, that is handed
out, noted beside a version, or about to be, and its answer not `forgotten`; `Untorn` that what a power loss
has torn is looked at before it is used.  Each step inside an installation is
a `LocalStep`: it touches one directory and its own call, and six lemmas say
once what such a step keeps; the steps outside touch no binary (`QuietKeeps`);
`CrashKeeps` and `PowerLossKeeps` are the rest.

`ConnectionProofs` is about the two kinds of connections.  Of the saved ones
(`Connections`) it proves, for every set of names, servers and services and any
number of forms, tests, rotations, waits and faults: `TypeCorrect`,
`NothingIsLeftBehindHolds` and `SavesAreWholeHolds`.  Assumed of the constants
(`ConnectionsAssumption`): self-managed servers and services are apart, the
names of the initial list are unique, and `None` is no name, connection or
password.  Like the run, the last two say nothing of histories that are
`spoiled`; the types hold in those as well.

`NothingIsLeftBehind` is not inductive: a test that is under way will save its
draft into the list of then.  `Inductively` has three parts.  `Typed` is
`TypeOK` with what it rests on: each number of a password was paid for once
when its rotation began (`Counted`), and the form is of a row of the list
(`Placed`).  `Books` holds in all histories: the open form fits the list (`Fits`: its row is there, under the name and the server it was
opened with), a rotation answers for its service, a node that answered took its
own server's password, a test is of its draft.  `Aligned` holds until something
gets under a probe or a step back fails: the file is the list, so that a restart
(`KeepsOfStarting`) shows nothing else, the names of the list are keys, there is one probe, it is about
a row of the list or a draft that can still be saved and the toolbar shows it
(`Aimed`), what is connected is in the list, and every password is under the
name of a connection to its server.  Each group of actions has a `KeepsOf` lemma.
`UpdatedIs`, `StoredIs` and `ItemIs` say what a save writes, `SavedKeeps` what one
that lands leaves, `RolledBackIs` and `FailedKeeps` that one which fails leaves
what it found; `CalmStep` is the steps that leave list and Keychain alone and
start no probe.

Of the agent's (`AcpConnection`, whose names carry the prefix `Acp` there), for
all sets of requests and all capacities (`BoundAssumption`): `AcpTypeCorrect`,
`PendingMapIsSoundHolds`, `UpdatesComeFirstHolds` and `ImplementsChannel`.
`AcpInductive` is `AcpTypeOK` with three parts.  `CallsKept`: the pending map is
exactly what is in flight and has no outcome, and a request that waits after
the drain has one or will see the flag.  `HandKept`: what the reader holds fits
where it stands.  `UpdatesKept`: an update that was written is in the pipe, in
the reader's hand or in the event queue; how appending to a queue and taking
its head change such a count are lemmas of their own.  `ImplementsChannel` maps
each step: `Register` begins a call, `ReadReply` answers it, `Receive` returns
it or fails it, the failing steps fail it, `Offer` and `Stderr` emit,
`Announce` closes, `Take` and `ConsumerStops` take or leave; the rest stutter.
It is the safety part of `ChannelSpec`; its liveness is model-checked.

`FleetViewProofs` proves `TypeCorrect`, `ConsentIsFreshHolds`,
`RunsOnceHolds` and `SettledMatrixIsTrueHolds` for every set of connections,
checkouts and actions and every `MaxWork`.  `Inductive` is `TypeOK`,
`ConsentKept` (an unlock is of the current session, the pending action is of
this session and the last one requested, an acknowledgement and a phrase are of
the last request, a pending action whose job has begun shows it as running or
ended) and `ReadsKept` (generations of reads are no newer than the last one;
the newest read and the rows on show are of the connected cluster and the open
checkout, and know the cluster's version unless an action is under way).

`LiveTailProofs` proves `TypeCorrect`, `ShownExactlyHolds` and
`ViewsAreOwnedHolds` for every number of nodes, rows, polls, upgrades, restarts
and edits and every limit.  `Inductive` is `TypeOK`, the two properties,
`TasksKept` (a task of the current generation is on the active node; no task
has a generation above the counter) and `PushKept` (a stream's boundary is the
last key while it connects and runs, and so are the upgrades in flight and the
live view).  The rows themselves are one lemma: prepending the rows between two
keys to an exact grid gives an exact grid.

What TLAPS does not reach here, and stays with TLC: liveness (`RunsReturn`,
`FollowersCatchUp`, the liveness of `ChannelSpec`,
`DeadAgentIsNoticed`, `DecisionsArrive`, `DeadTurnsEnd`, `LoadingEnds`,
`RunsEnd`, `RowsArrive`, `ConnectingEnds`) and `ENABLED`.  Every safety property
of a passing run is a theorem.

## 6. Where the code and its words disagree

Met while modelling.  One is a run (`fleet_chain`); the others are behaviours
the models reach, or points read in the code next to what is modelled.

### Migration runner

* "rollbacks only peel from the top of the chain" (`runner.rs:8`): a head whose
  rollback failed halfway is no longer the top, and its predecessor is rolled
  back under it (`actions.rs:194`).
* "Refuse before touching anything if the walk cannot complete."
  (`actions.rs:129`): the gate is asked per database, inside the loop
  (`actions.rs:130`); earlier databases have been rolled back by then.
* Migration 0 passes the gate before its class is looked at (`actions.rs:53`).
  A file's text is read again at its turn (`actions.rs:39`).  Two rows of one
  millisecond are ordered by a random id (`tracking.rs:81`).  Two imports both
  see an empty table and both insert (`actions.rs:258`); two first contacts
  both write the version row (`tracking.rs:49`).

### Settings sync

* The stamp is "the content hash both sides agreed on" (`sync.rs:185`): after
  a push and its retry fail, the next tick reads its own unpushed commit as the
  repository's payload, says UpToDate and stamps it.  A later tick may apply
  that commit over a user who has undone the edit.
* "local pushes; the repo's version stays in git history"
  (`features/settings/sync.rs:6-7`): a preference changed between the snapshot
  and the delivery is overwritten by the payload (`sync.rs:147`) and is in no
  history.
* "Local wins and is pushed" (`sync.rs:227`): the loser of a push race, for
  instance two machines that push to an empty repository, has committed
  already; `--ff-only` refuses for good, and each later tick postpones its push
  (`sync.rs:294`).
* A commit that fails after its payload file was written leaves that file to be
  read as the repository's (`sync.rs:290`).  A worker that survived Disable
  reads the stamp of the next Enable and pushes its old snapshot.  Settings
  after a merge do not hash to the stamp, so a machine nobody touched pushes
  its merged list.  A process that dies inside `git clone` leaves a directory
  that counts as a finished clone (`features/settings/sync.rs:249`).

### Agent

* A queued question waits for the next thread's handshake, or is dropped if the
  thread is replaced before the next frame (`controller.rs:38`).  A second
  thread reuses a process whose `initialize` is unfinished or has failed
  (`controller.rs:226`).  Trimming the transcript can drop a card that was not
  answered (`events.rs:89`).  A transcript may be saved before its last chunks
  are in.

### Fleet view

* Cancel on a running action and a new request make two mutations run at once,
  and the end of the first is shown in the modal of the second
  (`execution.rs:69`).  Findings of a verification of the old cluster land
  after the switch (`verification.rs:130`), against the comment at
  `actions.rs:293-296`.  Rows stay under an error when the checkout does not
  parse at connect (`actions.rs:338`).  A path that was typed and not opened
  keeps the old checkout (`probe.rs:145`).  Upgrade-all takes its databases
  from the rows at Confirm (`execution.rs:149`).

### Query tab

* A deferred rerun runs in the tab that is active when its timer fires and
  cancels a newer run (`execution.rs:306`).  History is attributed to the
  connection of the moment a statement ends (`history/actions.rs:152`).
  `displayed_statement` and the grid go apart after a failure or a cancellation
  (`execution.rs:592`).

### Live tail

* "so the poll watchdog cannot deliver rows past that boundary while the stream
  connects; the replay would repeat them" (`native.rs:84-88`), "a poll firing
  during stream connect can no longer duplicate a row" (`CHANGELOG.md:543-544`):
  a poll that was in flight when the stream was requested still lands, and the
  stream repeats its rows.  `MCLiveTailClaim.cfg` shows it in seven states:
  `Open` starts the first poll, the port answers (`ProbeLands`), the user
  upgrades, which claims the slot (`UpgradePressed`), the poll lands with row 1
  (`PollLands`), the stream is adopted (`SetupLands`) and delivers row 1 again
  (`StreamDelivers`): `tlc -config MCLiveTailClaim.cfg MCLiveTail`.
* Two polls in flight start from the same key: rows twice, and the last key
  moves back.  Rows of equal keys cut by the limit are lost (`tail.rs:14-16`
  says "never lost"; the query asks `key > last`).
* Under a live view one event starts one poll: a burst larger than the limit
  waits for the next event.
* "A stream is bound to the old body and cursor" (`polling.rs:432-433`): an
  edited tail still receives an in-flight poll, or a connecting stream, of the
  old query.
* "Get instant updates" pressed twice leaves the first live view on the server,
  and two upgrades in flight mix two transports.  A restart keeps the rows of
  the old node until the new one is primed, on an empty table for good.  A live
  view stays on the server after Stop while disconnected (`probe.rs:113-117`
  accepts that for a reconnection).

### Connections and Cloud

* "Starting any other connect abandons the watch" (`cloud.rs:1175-1177`,
  `CHANGELOG.md:408-409`): the wait for a service looks at `connecting` before
  its fetch only (`cloud.rs:1234-1300`), and the explanation of a failed
  connect takes `connecting` while another probe is in flight (`cloud.rs:1077`)
  and frees it on its way out (`cloud.rs:1222`); the list can then change under
  a test, whose index goes stale: another entry is overwritten, or the
  application aborts (`persistence.rs:33-38`).  A Duplicate can take the name
  of a draft under test.
* A rotation confirmed while Save & Connect is testing ends after the landing
  has closed the form, and the new password is lost; two rotations answered out
  of order store a dead one.
* `password_cache` is keyed by name and touched by connects and deletes only:
  a password replaced by "Save without testing" or by a late rotation is not
  sent until the application restarts, and after a rename a new connection
  under the old name gets the old one's (`persistence.rs:155`), against
  "Passwords are keyed by connection name in macOS Keychain"
  (`devlog.md:352-353`) and the comment at `cloud.rs:1008-1013`.
* A failed save is taken back best effort: if writing the old list fails as well
  (`persistence.rs:61`), the file stays ahead of the list, and after a restart
  the renamed connection has no password; if removing the new item fails (its
  result is dropped, `persistence.rs:68`), the item stays under a name the list
  does not have.  A deletion whose file and whose restored password both fail
  leaves a connection without one (`controller.rs:163-166`).  The first and the
  last are reported to the user, not repaired.
* "its result is discarded by the generation check" (`cloud.rs:282-284`): the
  tokens of a sign-in are stored before the check (`cloud.rs:245-249`).
  Signing out does not count the generation up, so that a listing in flight
  brings its rows back.  A failed start leaves the service shown as starting.

### Pinned binary

* "serialize so a download is not clobbered mid-write" (`pin.rs:619-621`): the
  lock is one per process.  Two processes that install one version at once
  take each other's staging file (one of them fails and the next call repairs
  it) or remove the binary the other has handed out.  A lookup whose probe
  times out has the same effect.
* "so the answer `zedb pin` printed stays true" (`pin.rs:343-345`): the note of
  the fallback is made as well as it can be.  Every call that falls back removes
  it and puts it back (`pin.rs:388-389`), without a lock: a lookup in between
  finds nothing, though nothing has failed, and a call that dies or fails there
  leaves no note (`pin.rs:380-393`).  `MCPinCacheNote.cfg` shows the first: one
  call answers a Cloud build with the published release, a second one asks for
  the same and stands between `Unalias` and `SaveAlias`:
  `tlc -config MCPinCacheNote.cfg MCPinCache`.

### Parts that are not modelled

* The native pool: a connect that fails late overwrites a healthy entry, and
  the user of an old socket evicts a new one (`native/pool.rs:91-165`).

## 7. Not modelled

Of the parts modelled:

* runner: `Runner::status`, the audit file and parameter text (nothing of the
  runner reads them);
* settings sync: the GitHub bootstrap and its probes, a second repository URL,
  an invalid or oversized payload file (a tick that reads one fails and changes
  nothing), a second press of Enable while a clone runs, a crash inside a
  clone, a failing save of the user's own edits;
* agent pane: a failing spawn, the bridge and its tokens, the registry, the
  repository watch, the text of the transcript;
* fleet view: verification and its results, the repository picker, authoring
  and code generation;
* query tab: connecting (a run goes on when the connection changes), which
  connection a tab belongs to, parameters, progress, the advisor;
* live tail: the parsing of the edited query, keys that are not unique, rows
  without the key column, saved views;
* pinned binary: release metadata and digests of the manifest, archive formats,
  the transfer itself, links in place of files;
* connections: the linking of organizations, sign-in, the service list and the
  cost figures, edits that retarget a connection, a list that settings sync
  replaces meanwhile.

Of the parts that are not: the native pool, the schema cache and the Cloud
account have protocols of their own and are next (section 2); a load of the
schema cache reads the snapshot, awaits its queries and publishes a copy, so
that of two loads one publication can be lost until the next refresh.  The rest
has none.  Most of the code is the user interface: views that render a state and
handlers that set a field.  The catalogue, the schema intelligence, the SQL
analysis, the row formats, the decoders and the explain layout are pure
functions of text and bytes, for which a model would be a second
implementation.  The HTTP client, the git wrappers, the store, the Cloud and
OAuth clients and the updater are single calls to the outside; where one of
them can fail under a protocol that is modelled, its failure is an action
there.  Replay, regen, verify and the checks drive one ephemeral server from
start to end in one task.
