-------------------------- MODULE MigrationRunner --------------------------
(***************************************************************************)
(* The fleet migration runner (crates/zedb-ch/src/runner.rs and            *)
(* runner/{actions,execution,tracking,targets,status}.rs).                 *)
(*                                                                         *)
(* A run is one Runner value: one operation (upgrade, rollback, stamp,     *)
(* apply, import-tracking) walked over its target databases.  Every await  *)
(* of the source is a step boundary, so runs of several operators          *)
(* interleave, and a run may fail or be killed at each of them.            *)
(***************************************************************************)
EXTENDS Naturals, SequencesExt

CONSTANTS
    Databases,      \* the databases of the server that may be migrated
    Registry,       \* answer of the registry query: sorted, no duplicates
    Group,          \* databases of the exclusion group, as exclusions.toml lists them
    MaxNumber,      \* the greatest five-digit number
    Migrations,     \* every migration number of any version of the repository
    RepoVersions,   \* checkouts a run may open: [chain, targeted]
    Class,          \* rollback class of each migration, "none" without rollback.sql
    AllowList,      \* databases a targeted migration is restricted to; {}: any
    Length,         \* statements of <<migration, "up">> and <<migration, "down">>
    SystemFirst,    \* <<migration, direction, i>>: i is the file's first SYSTEM statement
    AncestorRows,   \* rows of the legacy table import-tracking reads
    Operations,     \* the command lines operators may issue
    MaxRuns,        \* bound: number of runs
    MaxActive,      \* bound: runs alive at the same time
    Uuid,           \* run_id of each run: random, so unrelated to start order
                    \* (run 0 stands for the runs of the legacy tool)
    ClockSteps,     \* how far now64(3) may move between two inserts (0: same ms)
    Faults          \* what the environment may do to a run

Runs == 1..MaxRuns

Kinds == {"upgrade", "rollback_to", "rollback_one", "stamp", "apply", "import"}

Statuses == {"started", "success", "failed"}

Row == [db : Databases, migration : Migrations, action : {"upgrade", "rollback", "stamp", "apply"},
        status : Statuses, at : Nat, run : 0..MaxRuns]

Statement == [run : Runs, db : Databases, migration : Migrations,
              action : {"upgrade", "rollback", "apply"}, statement : Nat]

Repo == [chain : SUBSET Migrations, targeted : SUBSET Migrations]

Targets == [by : {"all", "group", "list"}, list : Seq(Databases)]

Operation == [kind : Kinds, targets : Targets, number : Nat, bounded : BOOLEAN,
              ackIrreversible : BOOLEAN, ackTargeted : BOOLEAN,
              readOnly : BOOLEAN, write : BOOLEAN, dryRun : BOOLEAN]

\* What the runner relies on when it is started: discover_chain has accepted
\* the repository (numbers have five digits), and every migration file holds at
\* least one statement.
ASSUME ServerAssumption ==
    /\ Registry \in Seq(Databases)
    /\ Group \in Seq(Databases)
    /\ MaxRuns \in Nat
    /\ \A row \in AncestorRows : row \in Row /\ row.run = 0 /\ row.at = 0
    /\ Uuid \in [0..MaxRuns -> Nat]
    /\ ClockSteps \subseteq Nat

ASSUME RepoAssumption ==
    /\ MaxNumber \in Nat /\ Migrations \subseteq 0..MaxNumber
    /\ RepoVersions # {} /\ RepoVersions \subseteq Repo
    /\ \A v \in RepoVersions : v.targeted \subseteq v.chain
    /\ Class \in [Migrations -> {"none", "clean", "structural", "irreversible"}]
    /\ AllowList \in [Migrations -> SUBSET Databases]
    /\ Length \in [Migrations \X {"up", "down"} -> Nat \ {0}]

ASSUME OperationAssumption ==
    Operations # {} /\ Operations \subseteq Operation

VARIABLES
    rows,       \* zedb_migrations, the tracking table
    clock,      \* recorded_at of the newest row: now64(3) of the server
    seeds,      \* tracking_version rows of zedb_meta
    schema,     \* what is really on the server, per database and migration
    executed,   \* auxiliary: every statement a run has executed
    late,       \* statements a server still runs although their run has lost them
    repo,       \* the checkout as it is on disk
    pc, op, checkout, \* per run: await it stands at, its command line, its copy of repo
    dbs,        \* per run: positions of the target list still to do, current first
    seen,       \* per run: the applied set read before the customisations
    todo,       \* per run: migrations of the current database still to do
    stmt        \* per run: statement of the current migration to execute next

server == <<rows, clock, seeds, schema, executed, late>>
local == <<dbs, seen, todo, stmt>>
vars == <<server, repo, pc, op, checkout, local>>

Ended == {"ok", "refused", "repo", "server", "crashed"}
Waiting == {"ensure", "seed", "count", "import", "recount", "resolve", "database",
            "customised", "migration", "execute", "failure", "success"}

Active(r) == pc[r] \in Waiting

-----------------------------------------------------------------------------
(* Reading the tracking table (runner/tracking.rs). *)

Later(a, b) == a.at > b.at \/ (a.at = b.at /\ Uuid[a.run] > Uuid[b.run])

\* argMax(.., (recorded_at, run_id)) over the rows that are not 'started'.
LastStates(d) ==
    LET final == {row \in rows : row.db = d /\ row.status # "started"}
    IN  {row \in final : \A o \in final : o.migration = row.migration => ~Later(o, row)}

Successful(d, actions) ==
    {row.migration : row \in {s \in LastStates(d) : s.status = "success" /\ s.action \in actions}}

Applied(d) == Successful(d, {"upgrade", "stamp"})
Customised(d) == Successful(d, {"apply"})

-----------------------------------------------------------------------------
(* The repository and the targets (chain.rs, runner/targets.rs). *)

Fleet(v) == v.chain \ v.targeted

Excluded == ToSet(Group)

Listed(t) == CASE t.by = "all"   -> Registry
               [] t.by = "group" -> Group
               [] OTHER          -> t.list

\* Mutant of Positions: --all forgets the exclusion group.
PositionsOfAll(t) ==
    LET list == Listed(t)
    IN  {i \in DOMAIN list : t.by = "list" => \A j \in 1..(i-1) : list[j] # list[i]}

\* --all drops the excluded databases, --db the repeated ones, --group nothing.
Positions(t) ==
    LET list == Listed(t)
    IN  {i \in DOMAIN list : /\ t.by = "all" => list[i] \notin Excluded
                             /\ t.by = "list" => \A j \in 1..(i-1) : list[j] # list[i]}

TargetDatabases(o) == {Listed(o.targets)[i] : i \in Positions(o.targets)}

Db(r) == Listed(op[r].targets)[Min(dbs[r])]

Consented(o) == o.write /\ ~o.readOnly

\* Mutant of Gate: the acknowledgement is not asked for.
GateUnasked(m, acknowledged) == IF m # 0 /\ Class[m] = "none" THEN "repo" ELSE "pass"

\* Where Runner::gate sends a rollback of m: on, or to an error.
Gate(m, acknowledged) ==
    CASE m = 0                                          -> "pass"
      [] m # 0 /\ Class[m] = "none"                     -> "repo"
      [] m # 0 /\ Class[m] = "irreversible" /\ ~acknowledged -> "refused"
      [] OTHER                                          -> "pass"

ActionOf(o) == CASE o.kind \in {"rollback_to", "rollback_one"} -> "rollback"
                 [] o.kind = "stamp" -> "stamp"
                 [] o.kind = "apply" -> "apply"
                 [] OTHER            -> "upgrade"

Direction(action) == IF action = "rollback" THEN "down" ELSE "up"

\* The allow list of a targeted migration leaves the current database out.
Barred(r) == LET m == op[r].number IN AllowList[m] # {} /\ Db(r) \notin AllowList[m]

RemovesTargeted(o, v) == o.kind = "rollback_one" /\ o.number \in v.targeted

\* The walk goes down the chain for --to, up it otherwise.
Current(r) == IF op[r].kind = "rollback_to" THEN Max(todo[r]) ELSE Min(todo[r])

-----------------------------------------------------------------------------
(* Control: where a run goes next. *)

Init ==
    /\ rows = {} /\ clock = 0 /\ seeds = 0 /\ executed = {} /\ late = {}
    /\ schema = [d \in Databases |-> [m \in Migrations |-> "absent"]]
    /\ repo \in RepoVersions
    /\ pc = [r \in Runs |-> "idle"]
    /\ op = [r \in Runs |-> CHOOSE o \in Operations : TRUE]
    /\ checkout = [r \in Runs |-> repo]
    /\ dbs = [r \in Runs |-> {}]
    /\ seen = [r \in Runs |-> {}]
    /\ todo = [r \in Runs |-> {}]
    /\ stmt = [r \in Runs |-> 0]

\* The run returns; its Runner value and what it had read are dropped.
Stop(r, outcome) ==
    /\ pc' = [pc EXCEPT ![r] = outcome]
    /\ dbs' = [dbs EXCEPT ![r] = {}]
    /\ seen' = [seen EXCEPT ![r] = {}]
    /\ todo' = [todo EXCEPT ![r] = {}]
    /\ stmt' = [stmt EXCEPT ![r] = 0]

Goto(r, step) == pc' = [pc EXCEPT ![r] = step] /\ UNCHANGED local

\* Mutant of NextDatabase: the loop stays at its database.
NextDatabaseStays(r) ==
    /\ pc' = [pc EXCEPT ![r] = "database"]
    /\ seen' = [seen EXCEPT ![r] = {}]
    /\ todo' = [todo EXCEPT ![r] = {}]
    /\ stmt' = [stmt EXCEPT ![r] = 0]
    /\ UNCHANGED dbs

\* `continue` to the next database of the loop.
NextDatabase(r) ==
    /\ pc' = [pc EXCEPT ![r] = "database"]
    /\ dbs' = [dbs EXCEPT ![r] = @ \ {Min(@)}]
    /\ seen' = [seen EXCEPT ![r] = {}]
    /\ todo' = [todo EXCEPT ![r] = {}]
    /\ stmt' = [stmt EXCEPT ![r] = 0]

\* Mutant of Walk: `return Ok(())` where the code says `continue`.
WalkReturns(r, migrations) ==
    IF migrations = {} THEN Stop(r, "ok")
    ELSE /\ pc' = [pc EXCEPT ![r] = "migration"]
         /\ todo' = [todo EXCEPT ![r] = migrations]
         /\ seen' = [seen EXCEPT ![r] = {}]
         /\ stmt' = [stmt EXCEPT ![r] = 0]
         /\ UNCHANGED dbs

\* The migrations of the current database are known: walk them.
Walk(r, migrations) ==
    IF migrations = {} THEN NextDatabase(r)
    ELSE /\ pc' = [pc EXCEPT ![r] = "migration"]
         /\ todo' = [todo EXCEPT ![r] = migrations]
         /\ seen' = [seen EXCEPT ![r] = {}]
         /\ stmt' = [stmt EXCEPT ![r] = 0]
         /\ UNCHANGED dbs

\* The current migration is done.
NextMigration(r) == Walk(r, todo[r] \ {Current(r)})

-----------------------------------------------------------------------------
(* Starting a run: what the entry points check before their first await. *)

Entry(o, v) ==
    CASE ~Consented(o) -> "refused"
      [] Consented(o) /\ o.kind = "import" -> IF o.dryRun THEN "ok" ELSE "ensure"
      [] Consented(o) /\ o.kind = "upgrade" ->
            IF o.bounded => o.number \in Fleet(v) THEN "ensure" ELSE "repo"
      [] Consented(o) /\ o.kind \in {"rollback_to", "stamp"} ->
            IF o.number \in Fleet(v) THEN "ensure" ELSE "repo"
      [] Consented(o) /\ o.kind = "rollback_one" ->
            IF o.number \notin v.chain THEN "repo"
            ELSE IF Gate(o.number, o.ackIrreversible) = "pass" THEN "ensure"
            ELSE Gate(o.number, o.ackIrreversible)
      [] OTHER -> IF o.number \in v.targeted THEN "ensure" ELSE "repo"

Start(r, o) ==
    /\ pc[r] = "idle"
    /\ \A q \in Runs : q < r => pc[q] # "idle"
    /\ Cardinality({q \in Runs : Active(q)}) < MaxActive
    /\ op' = [op EXCEPT ![r] = o]
    /\ checkout' = [checkout EXCEPT ![r] = repo]
    /\ LET entry == Entry(o, repo)
       IN  IF entry = "ensure" THEN Goto(r, "ensure") ELSE Stop(r, entry)
    /\ UNCHANGED <<server, repo>>

\* The checkout is pulled, or another one is opened.
Pull ==
    /\ repo' \in RepoVersions \ {repo}
    /\ UNCHANGED <<server, pc, op, checkout, local>>

-----------------------------------------------------------------------------
(* The tracking tables: ensure_tracking, import_tracking. *)

Ready(r) == IF op[r].kind = "import" THEN "count" ELSE "resolve"

\* The CREATE .. IF NOT EXISTS statements, then the count of version rows;
\* a dry run returns at once.
EnsureTracking(r) ==
    /\ pc[r] = "ensure"
    /\ Goto(r, IF seeds = 0 /\ ~op[r].dryRun THEN "seed" ELSE Ready(r))
    /\ UNCHANGED <<server, repo, op, checkout>>

\* The INSERT may have reached the server although the call fails.
SeedMeta(r) ==
    /\ pc[r] = "seed"
    /\ seeds' = seeds + 1
    /\ \/ Goto(r, Ready(r))
       \/ "network" \in Faults /\ Stop(r, "server")
    /\ UNCHANGED <<rows, clock, schema, executed, late, repo, op, checkout>>

CountRows(r) ==
    /\ pc[r] = "count"
    /\ IF rows = {} THEN Goto(r, "import") ELSE Stop(r, "refused")
    /\ UNCHANGED <<server, repo, op, checkout>>

\* The rows keep their own recorded_at.
ImportRows(r) ==
    /\ pc[r] = "import"
    /\ rows' = rows \cup AncestorRows
    /\ \/ Goto(r, "recount")
       \/ "network" \in Faults /\ Stop(r, "server")
    /\ UNCHANGED <<clock, seeds, schema, executed, late, repo, op, checkout>>

Recount(r) ==
    /\ pc[r] = "recount"
    /\ Stop(r, "ok")
    /\ UNCHANGED <<server, repo, op, checkout>>

-----------------------------------------------------------------------------
(* Choosing the work (runner/actions.rs). *)

\* Removing a customisation without --targeted.
Unconfirmed(r) == RemovesTargeted(op[r], checkout[r]) /\ ~op[r].ackTargeted

\* rollback_one checks --targeted between the bootstrap and the targets.
ResolveTargets(r) ==
    /\ pc[r] = "resolve"
    /\ LET o == op[r]
           found == Positions(o.targets)
       IN  IF Unconfirmed(r) THEN Stop(r, "refused")
           ELSE IF o.targets.by = "all" /\ found = {} THEN Stop(r, "repo")
           ELSE /\ pc' = [pc EXCEPT ![r] = "database"]
                /\ dbs' = [dbs EXCEPT ![r] = found]
                /\ UNCHANGED <<seen, todo, stmt>>
    /\ UNCHANGED <<server, repo, op, checkout>>

\* The loop over the databases is over.
Finish(r) ==
    /\ pc[r] = "database" /\ dbs[r] = {}
    /\ Stop(r, "ok")
    /\ UNCHANGED <<server, repo, op, checkout>>

AtDatabase(r, kind) == pc[r] = "database" /\ dbs[r] # {} /\ op[r].kind = kind

ReadApplied(r) ==
    /\ AtDatabase(r, "upgrade")
    /\ seen' = [seen EXCEPT ![r] = Applied(Db(r))]
    /\ pc' = [pc EXCEPT ![r] = "customised"]
    /\ UNCHANGED <<server, repo, op, checkout, dbs, todo, stmt>>

PlanUpgrade(r) ==
    /\ pc[r] = "customised"
    /\ LET applied == seen[r] \cup Customised(Db(r))
       IN  Walk(r, {m \in Fleet(checkout[r]) :
                        m \notin applied /\ (op[r].bounded => m <= op[r].number)})
    /\ UNCHANGED <<server, repo, op, checkout>>

\* Every gate of this database is asked before its first rollback; the
\* databases walked before it have been rolled back by then.
PlanRollbackTo(r) ==
    /\ AtDatabase(r, "rollback_to")
    /\ LET walk == {m \in Applied(Db(r)) : m > op[r].number /\ m \in Fleet(checkout[r])}
           stopped == {m \in walk : Gate(m, op[r].ackIrreversible) # "pass"}
       IN  IF stopped = {} THEN Walk(r, walk)
           ELSE Stop(r, Gate(Max(stopped), op[r].ackIrreversible))
    /\ UNCHANGED <<server, repo, op, checkout>>

\* Mutant of PlanRollbackOne: any applied migration may go.
PlanRollbackAnyOne(r) ==
    /\ AtDatabase(r, "rollback_one")
    /\ ~RemovesTargeted(op[r], checkout[r])
    /\ Walk(r, {op[r].number} \cap Applied(Db(r)))
    /\ UNCHANGED <<server, repo, op, checkout>>

PlanRollbackOne(r) ==
    /\ AtDatabase(r, "rollback_one")
    /\ ~RemovesTargeted(op[r], checkout[r])
    /\ LET applied == Applied(Db(r))
           m == op[r].number
       IN  \/ m \notin applied /\ NextDatabase(r)
           \/ m \in applied /\ m # Max(applied) /\ Stop(r, "refused")
           \/ m \in applied /\ m = Max(applied) /\ Walk(r, {m})
    /\ UNCHANGED <<server, repo, op, checkout>>

PlanRemoveTargeted(r) ==
    /\ AtDatabase(r, "rollback_one")
    /\ RemovesTargeted(op[r], checkout[r])
    /\ Walk(r, {op[r].number} \cap Customised(Db(r)))
    /\ UNCHANGED <<server, repo, op, checkout>>

PlanStamp(r) ==
    /\ AtDatabase(r, "stamp")
    /\ IF op[r].dryRun THEN NextDatabase(r)
       ELSE Walk(r, {m \in Fleet(checkout[r]) : m <= op[r].number /\ m \notin Applied(Db(r))})
    /\ UNCHANGED <<server, repo, op, checkout>>

PlanApply(r) ==
    /\ AtDatabase(r, "apply")
    /\ IF Barred(r) THEN Stop(r, "refused")
       ELSE Walk(r, {op[r].number} \ Customised(Db(r)))
    /\ UNCHANGED <<server, repo, op, checkout>>

-----------------------------------------------------------------------------
(* Executing one migration: Runner::apply_sql (runner/execution.rs). *)

\* INSERT INTO zedb_migrations: the server stamps recorded_at.
Insert(r, status) ==
    \E step \in ClockSteps :
        /\ clock' = clock + step
        /\ rows' = rows \cup {[db |-> Db(r), migration |-> Current(r),
                               action |-> ActionOf(op[r]), status |-> status,
                               at |-> clock + step, run |-> r]}

\* record(..).await?: the insert succeeds, or the run ends with an error,
\* whether or not the row was written.
Recorded(r, status) == Insert(r, status) /\ UNCHANGED <<seeds, schema, executed, late, repo, op, checkout>>

RecordFails(r, status) ==
    /\ "network" \in Faults
    /\ Insert(r, status) \/ UNCHANGED <<rows, clock>>
    /\ Stop(r, "server")
    /\ UNCHANGED <<seeds, schema, executed, late, repo, op, checkout>>

\* Only migration 0 passes the gate without a rollback.sql.
NoRollbackFile(r) == ActionOf(op[r]) = "rollback" /\ Class[Current(r)] = "none"

AtMigration(r) == pc[r] = "migration" /\ op[r].kind # "stamp"

RecordStamp(r) ==
    /\ pc[r] = "migration" /\ op[r].kind = "stamp"
    /\ \/ Recorded(r, "success") /\ NextMigration(r)
       \/ RecordFails(r, "success")

\* The file is missing, or a template parameter has no value: nothing has
\* been recorded yet.
Unrenderable(r) ==
    /\ AtMigration(r)
    /\ NoRollbackFile(r) \/ "params" \in Faults
    /\ Stop(r, "repo")
    /\ UNCHANGED <<server, repo, op, checkout>>

DryRun(r) ==
    /\ AtMigration(r) /\ ~NoRollbackFile(r) /\ op[r].dryRun
    /\ NextMigration(r)
    /\ UNCHANGED <<server, repo, op, checkout>>

\* Mutant of RecordStarted: the 'started' row is not written.
RecordNothing(r) ==
    /\ AtMigration(r) /\ ~NoRollbackFile(r) /\ ~op[r].dryRun
    /\ pc' = [pc EXCEPT ![r] = "execute"]
    /\ stmt' = [stmt EXCEPT ![r] = 1]
    /\ UNCHANGED <<server, repo, op, checkout, dbs, seen, todo>>

RecordStarted(r) ==
    /\ AtMigration(r) /\ ~NoRollbackFile(r) /\ ~op[r].dryRun
    /\ \/ /\ Recorded(r, "started")
          /\ pc' = [pc EXCEPT ![r] = "execute"]
          /\ stmt' = [stmt EXCEPT ![r] = 1]
          /\ UNCHANGED <<dbs, seen, todo>>
       \/ RecordFails(r, "started")

File(r) == <<Current(r), Direction(ActionOf(op[r]))>>

Execution(r) == [run |-> r, db |-> Db(r), migration |-> Current(r),
                 action |-> ActionOf(op[r]), statement |-> stmt[r]]

\* What the schema of the migration looks like after statement e.
Outcome(e) == IF e.statement < Length[<<e.migration, Direction(e.action)>>] THEN "partial"
              ELSE IF e.action = "rollback" THEN "absent" ELSE "present"

Execute(e, result) ==
    /\ schema' = [schema EXCEPT ![e.db][e.migration] = result]
    /\ executed' = executed \cup {e}

\* Mutant of ExecuteStatement: the last of several statements is left out.
ExecuteAllButLast(r) ==
    /\ pc[r] = "execute"
    /\ Execute(Execution(r), Outcome(Execution(r)))
    /\ IF stmt[r] + 1 < Length[File(r)]
       THEN stmt' = [stmt EXCEPT ![r] = @ + 1] /\ UNCHANGED <<pc, dbs, seen, todo>>
       ELSE Goto(r, "success")
    /\ UNCHANGED <<rows, clock, seeds, late, repo, op, checkout>>

ExecuteStatement(r) ==
    /\ pc[r] = "execute"
    /\ Execute(Execution(r), Outcome(Execution(r)))
    /\ IF stmt[r] < Length[File(r)]
       THEN stmt' = [stmt EXCEPT ![r] = @ + 1] /\ UNCHANGED <<pc, dbs, seen, todo>>
       ELSE Goto(r, "success")
    /\ UNCHANGED <<rows, clock, seeds, late, repo, op, checkout>>

\* The connection is gone, the server goes on with the statement.
Abandon(r) == late' = late \cup {Execution(r)} /\ UNCHANGED <<schema, executed>>

\* The server refuses the statement; or some replica has executed it, or only
\* its reply is lost; or it is still running (ON CLUSTER, a broken connection).
StatementFails(r) ==
    /\ pc[r] = "execute" /\ "statement" \in Faults
    /\ \/ UNCHANGED <<schema, executed, late>>
       \/ /\ \E result \in {"partial", Outcome(Execution(r))} : Execute(Execution(r), result)
          /\ UNCHANGED late
       \/ "late" \in Faults /\ Abandon(r)
    /\ Goto(r, "failure")
    /\ UNCHANGED <<rows, clock, seeds, repo, op, checkout>>

\* A statement its run has given up takes effect after all.
Land(e) ==
    /\ Execute(e, Outcome(e))
    /\ late' = late \ {e}
    /\ UNCHANGED <<rows, clock, seeds, repo, pc, op, checkout, local>>

\* system_executors(..).await? leaves apply_sql without a final row.
DiscoveryFails(r) ==
    /\ pc[r] = "execute" /\ "discovery" \in Faults
    /\ <<Current(r), Direction(ActionOf(op[r])), stmt[r]>> \in SystemFirst
    /\ Stop(r, "server")
    /\ UNCHANGED <<server, repo, op, checkout>>

\* Mutant of RecordFailure: the walk goes on after a failure.
RecordFailureAndGoOn(r) ==
    /\ pc[r] = "failure"
    /\ \/ Recorded(r, "failed") /\ NextMigration(r)
       \/ RecordFails(r, "failed")

RecordFailure(r) ==
    /\ pc[r] = "failure"
    /\ \/ Recorded(r, "failed") /\ Stop(r, "server")
       \/ RecordFails(r, "failed")

RecordSuccess(r) ==
    /\ pc[r] = "success"
    /\ \/ Recorded(r, "success") /\ NextMigration(r)
       \/ RecordFails(r, "success")

-----------------------------------------------------------------------------
(* Failures at the other awaits, and the death of the process. *)

Querying(r) ==
    \/ pc[r] \in {"seed", "count", "import", "recount", "customised"}
    \/ pc[r] = "ensure" /\ ~op[r].dryRun
    \/ pc[r] = "resolve" /\ op[r].targets.by = "all" /\ ~Unconfirmed(r)
    \/ /\ pc[r] = "database" /\ dbs[r] # {}
       /\ op[r].kind = "stamp" => ~op[r].dryRun
       /\ op[r].kind = "apply" => ~Barred(r)

QueryFails(r) ==
    /\ Querying(r) /\ "network" \in Faults
    /\ Stop(r, "server")
    /\ UNCHANGED <<server, repo, op, checkout>>

\* Ctrl-C, a killed process, an aborted task.
Crash(r) ==
    /\ Active(r) /\ "crash" \in Faults
    /\ Stop(r, "crashed")
    /\ \/ UNCHANGED <<schema, executed, late>>
       \/ pc[r] = "execute" /\ "late" \in Faults /\ Abandon(r)
    /\ UNCHANGED <<rows, clock, seeds, repo, op, checkout>>

Bookkeep(r) == EnsureTracking(r) \/ SeedMeta(r) \/ CountRows(r) \/ ImportRows(r) \/ Recount(r)

Plan(r) ==
    \/ ResolveTargets(r) \/ Finish(r)
    \/ ReadApplied(r) \/ PlanUpgrade(r)
    \/ PlanRollbackTo(r) \/ PlanRollbackOne(r) \/ PlanRemoveTargeted(r)
    \/ PlanStamp(r) \/ PlanApply(r)

ApplySql(r) ==
    \/ RecordStamp(r) \/ Unrenderable(r) \/ DryRun(r) \/ RecordStarted(r)
    \/ ExecuteStatement(r) \/ StatementFails(r) \/ DiscoveryFails(r)
    \/ RecordFailure(r) \/ RecordSuccess(r)

Step(r) == Bookkeep(r) \/ Plan(r) \/ ApplySql(r) \/ QueryFails(r)

Next ==
    \/ \E r \in Runs : Step(r) \/ Crash(r) \/ \E o \in Operations : Start(r, o)
    \/ \E e \in late : Land(e)
    \/ Pull

Spec == Init /\ [][Next]_vars

\* The runtime polls every run, and the server answers or the connection breaks.
FairSpec == Spec /\ \A r \in Runs : WF_vars(Step(r))

-----------------------------------------------------------------------------
(* Properties. *)

\* The state of a runner and of the tables is always of the expected shape
\* (runner.rs:58-64, the tracking schema of runner/tracking.rs:33-40).
TypeOK ==
    /\ rows \subseteq Row
    /\ clock \in Nat /\ seeds \in Nat
    /\ schema \in [Databases -> [Migrations -> {"absent", "partial", "present"}]]
    /\ repo \in RepoVersions
    /\ pc \in [Runs -> {"idle"} \cup Waiting \cup Ended]
    /\ op \in [Runs -> Operations]
    /\ checkout \in [Runs -> RepoVersions]
    /\ dbs \in [Runs -> SUBSET Nat]
    /\ seen \in [Runs -> SUBSET Migrations]
    /\ todo \in [Runs -> SUBSET Migrations]
    /\ stmt \in [Runs -> Nat]
    /\ executed \subseteq Statement /\ late \subseteq Statement

Rows(e, status) ==
    {row \in rows : /\ row.run = e.run /\ row.db = e.db
                    /\ row.migration = e.migration /\ row.action = e.action
                    /\ row.status = status}

\* No statement reaches a server before the run has written its 'started'
\* row for that database and migration, whatever fails or interleaves: every
\* touched schema can be traced (execution.rs:169-178 before 185-244).
WriteAhead == \A e \in executed : Rows(e, "started") # {}

\* A run records 'success' only for a migration of which it has itself
\* executed every statement of the file (execution.rs:185-254).
SuccessIsComplete ==
    \A row \in rows :
        row.status = "success" /\ row.action # "stamp" /\ row.run \in Runs =>
            \A i \in 1..Length[<<row.migration, Direction(row.action)>>] :
                [run |-> row.run, db |-> row.db, migration |-> row.migration,
                 action |-> row.action, statement |-> i] \in executed

Unfinished(r) == {row \in rows : row.run = r /\ row.status = "started" /\ Rows(row, "success") = {}}

\* However a run over many databases is cut short, it leaves at most one
\* migration of one database begun and not completed (the `?` after every
\* apply_sql, actions.rs:37-42, 131-133).
OneInDoubt ==
    \A r \in Runs : \A a, b \in Unfinished(r) : a.db = b.db /\ a.migration = b.migration

\* A statement reaches a server only under a run whose operator consented to
\* writes on a connection that is not read-only, and never under a dry run;
\* the same holds of every tracking row (targets.rs:40-49, execution.rs:158).
ConsentRequired ==
    \A e \in executed \cup {row \in rows : row.run \in Runs} :
        op[e.run].write /\ ~op[e.run].readOnly /\ ~op[e.run].dryRun

\* Whatever the walk, a run touches only the databases it was pointed at:
\* --all never an excluded one, apply never one outside the allow list
\* (targets.rs:69-146, actions.rs:341-345).
TargetsRespected ==
    /\ \A e \in executed :
          LET t == op[e.run].targets
          IN  e.db \in ToSet(Listed(t)) /\ (t.by = "all" => e.db \notin Excluded)
    /\ \A e \in executed :
          e.action = "apply" => AllowList[e.migration] = {} \/ e.db \in AllowList[e.migration]

\* A rollback executes only where its class allows: never without a declared
\* class, irreversible ones only acknowledged, customisations only with
\* --targeted, judged by the checkout the run has opened (actions.rs:48-71,
\* 153-163).  Migration 0 passes the gate unasked.
GateRespected ==
    \A e \in executed :
        e.action = "rollback" /\ e.migration # 0 =>
            /\ Class[e.migration] # "none"
            /\ Class[e.migration] = "irreversible" => op[e.run].ackIrreversible
            /\ e.migration \in checkout[e.run].targeted => op[e.run].ackTargeted

\* Nothing is executed that the command line, the exclusions, the allow lists
\* or the gate keep it from (TargetsRespected, GateRespected).
ExecutionsAllowed == TargetsRespected /\ GateRespected

Newest(d, m) ==
    LET all == {row \in rows : row.db = d /\ row.migration = m}
    IN  {row \in all : \A o \in all : ~Later(o, row)}

\* With one operator at a time, the newest row of a migration, 'started' rows
\* included, tells the truth when it says success, and no rows at all means
\* nothing was touched: whatever crashes or fails, tracking and schema differ
\* only where an unfinished or failed row shows it (tracking.rs:74-170).
NewestRowIsTrue ==
    \A d \in Databases, m \in Migrations :
        /\ Newest(d, m) = {} => schema[d][m] = "absent"
        /\ \A row \in Newest(d, m) :
              row.status = "success" /\ row.action # "stamp" /\ row.run \in Runs =>
                  schema[d][m] = IF row.action = "rollback" THEN "absent" ELSE "present"

\* What the operator asked for, according to the tracking table.
Reached(o, v) ==
    \A d \in TargetDatabases(o) :
        CASE o.kind = "upgrade" -> \A m \in Fleet(v) :
                  (o.bounded => m <= o.number) => m \in Applied(d) \cup Customised(d)
          [] o.kind = "rollback_to" -> \A m \in Applied(d) \cap Fleet(v) : m <= o.number
          [] o.kind = "stamp" -> \A m \in Fleet(v) : m <= o.number => m \in Applied(d)
          [] o.kind = "apply" -> o.number \in Customised(d)
          [] o.kind = "rollback_one" -> o.number \notin
                  (IF RemovesTargeted(o, v) THEN Customised(d) ELSE Applied(d))
          [] OTHER -> TRUE

\* With one operator at a time, a run that returns Ok has brought every target
\* database where it was asked to (the loops of actions.rs:17-44, 115-136,
\* 165-203, 215-239, 341-363).
OkMeansReached ==
    [][\A r \in Runs :
          pc[r] \in Waiting /\ pc'[r] = "ok" /\ ~op[r].dryRun => Reached(op[r], checkout[r])]_vars

\* With one operator at a time and one checkout, the fleet is a ChainLedger:
\* whatever fails, upgrade and stamp push the least missing migration of a
\* database, the rollbacks pop its greatest applied one, and nothing else
\* touches its applied set (actions.rs:17-44, 115-136, 165-203, 215-239).
FleetChain == UNION {Fleet(v) : v \in RepoVersions}
AppliedSets == [d \in Databases |-> Applied(d)]
Ledger == INSTANCE ChainLedger WITH Chain <- FleetChain, applied <- AppliedSets
LedgerSpec == Ledger!Spec

\* Every run that has begun returns, provided the server answers: no walk
\* over databases and migrations revisits its own work (actions.rs).
RunsReturn == \A r \in Runs : (pc[r] \in Waiting) ~> (pc[r] \in Ended)
=============================================================================
