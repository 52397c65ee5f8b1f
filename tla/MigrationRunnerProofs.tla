------------------------ MODULE MigrationRunnerProofs ------------------------
(***************************************************************************)
(* Theorems about MigrationRunner, for every server, repository, set of    *)
(* command lines and number of runs that its assumptions admit.            *)
(*                                                                         *)
(* TypeOK is not inductive: a run that is at a migration must have one to  *)
(* do, and must have been admitted by Entry.  Placed says so per run.      *)
(***************************************************************************)
EXTENDS MigrationRunner, FiniteSetTheorems, WellFoundedInduction, TLAPS

Walking == {"customised", "migration", "execute", "failure", "success"}
Applying == {"migration", "execute", "failure", "success"}
Executing == {"execute", "failure", "success"}

\* Where a run stands fits what it has still to do.
Placed(r) ==
    /\ dbs[r] \subseteq Positions(op[r].targets)
    /\ pc[r] \notin Walking \cup {"database"} => dbs[r] = {}
    /\ pc[r] \in Walking => dbs[r] # {}
    /\ pc[r] = "customised" => op[r].kind = "upgrade"
    /\ pc[r] \in Applying => todo[r] # {}
    /\ pc[r] \in Applying /\ op[r].kind = "stamp" => ~op[r].dryRun
    /\ pc[r] \in Executing => /\ stmt[r] \in 1..Length[File(r)]
                              /\ op[r].kind # "stamp"
                              /\ ~op[r].dryRun
    /\ pc[r] = "success" => stmt[r] = Length[File(r)]
    /\ pc[r] \in Waiting => Entry(op[r], checkout[r]) = "ensure"

Inductive == TypeOK /\ \A r \in Runs : Placed(r)

-----------------------------------------------------------------------------
(* The operators the steps are built from. *)

\* Min of FiniteSetsExt is attained: some relation that contains < is
\* well-founded on Nat.
LEMMA MinAttained ==
    ASSUME NEW S, S \subseteq Nat, S # {}
    PROVE  Min(S) \in S /\ \A y \in S : Min(S) =< y
<1> DEFINE R == OpToRel(<, Nat)
<1>1. \A y, x \in Nat : y < x => <<y, x>> \in R
  BY Zenon DEF OpToRel
<1>2. IsWellFoundedOn(R, Nat)
  BY NatLessThanWellFounded, Zenon
<1> HIDE DEF R
<1>3. \E x \in S : \A y \in S : ~ (<<y, x>> \in R)
  BY <1>2, WFMin, Zenon
<1>4. PICK x \in S : \A y \in S : ~ (<<y, x>> \in R)
  BY <1>3
<1>5. ASSUME NEW y \in S PROVE x =< y
  <2>1. x \in Nat /\ y \in Nat
    OBVIOUS
  <2>2. ~ (y < x)
    BY <1>1, <1>4, <2>1, Zenon
  <2>3. QED
    BY <2>1, <2>2
<1>6. QED
  BY <1>5, Zenon DEF Min

\* Max of FiniteSetsExt is attained, in a bounded set.
LEMMA MaxAttained ==
    ASSUME NEW N \in Nat, NEW S, S \subseteq 0..N, S # {}
    PROVE  Max(S) \in S /\ \A y \in S : Max(S) >= y
<1> DEFINE Mirror == {N - y : y \in S}
<1>1. Mirror \subseteq Nat /\ Mirror # {}
  <2>1. \A y \in S : N - y \in Nat
    OBVIOUS
  <2>2. PICK z : z \in S
    OBVIOUS
  <2>3. N - z \in Mirror
    BY <2>2
  <2>4. QED
    BY <2>1, <2>3, Zenon
<1>2. Min(Mirror) \in Mirror /\ \A z \in Mirror : Min(Mirror) =< z
  BY <1>1, MinAttained, Zenon
<1> HIDE DEF Mirror
<1>3. PICK x \in S : Min(Mirror) = N - x
  BY <1>2 DEF Mirror
<1>4. ASSUME NEW y \in S PROVE x >= y
  <2>1. N - y \in Mirror
    BY DEF Mirror
  <2>2. N - x =< N - y
    BY <1>2, <1>3, <2>1
  <2>3. QED
    BY <2>2
<1>5. \E z \in S : \A y \in S : z >= y
  BY <1>4
<1>6. QED
  BY <1>5, Zenon DEF Max

\* An index of the target list names a database (targets.rs:69-146).
LEMMA PositionsType ==
    ASSUME NEW t \in Targets, NEW i \in Positions(t)
    PROVE  i \in Nat /\ Listed(t)[i] \in Databases
<1>1. Listed(t) \in Seq(Databases)
  BY ServerAssumption DEF Listed, Targets
<1>2. i \in DOMAIN Listed(t)
  BY DEF Positions
<1>3. QED
  BY <1>1, <1>2

\* The operation of a run is a well-formed command line (runner.rs:40-80).
LEMMA OperationType ==
    ASSUME TypeOK, NEW r \in Runs
    PROVE  /\ op[r] \in Operations /\ op[r] \in Operation
           /\ op[r].targets \in Targets /\ op[r].kind \in Kinds /\ op[r].number \in Nat
           /\ checkout[r] \in RepoVersions
           /\ checkout[r].chain \subseteq Migrations /\ checkout[r].targeted \subseteq Migrations
<1>1. op[r] \in Operation
  BY OperationAssumption DEF TypeOK
<1>2. checkout[r] \in Repo
  BY RepoAssumption DEF TypeOK
<1>3. QED
  BY <1>1, <1>2 DEF TypeOK, Operation, Repo

\* A run that still has databases to do is at one of its targets.
LEMMA DbType ==
    ASSUME TypeOK, NEW r \in Runs, Placed(r), dbs[r] # {}
    PROVE  /\ Min(dbs[r]) \in dbs[r]
           /\ Db(r) \in Databases
           /\ Db(r) \in TargetDatabases(op[r])
<1>1. op[r].targets \in Targets
  BY OperationType
<1>2. dbs[r] \subseteq Positions(op[r].targets)
  BY DEF Placed
<1>3. dbs[r] \subseteq Nat
  BY DEF TypeOK
<1>4. Min(dbs[r]) \in dbs[r]
  BY <1>3, MinAttained, Zenon
<1>5. Min(dbs[r]) \in Positions(op[r].targets)
  BY <1>2, <1>4
<1>6. Db(r) \in Databases
  BY <1>1, <1>5, PositionsType DEF Db
<1>7. Db(r) \in TargetDatabases(op[r])
  BY <1>5 DEF Db, TargetDatabases
<1>8. QED
  BY <1>4, <1>6, <1>7

\* A run that still has migrations to do is at one of them.
LEMMA CurrentType ==
    ASSUME TypeOK, NEW r \in Runs, todo[r] # {}
    PROVE  Current(r) \in todo[r] /\ Current(r) \in Migrations
<1>1. todo[r] \subseteq Migrations
  BY DEF TypeOK
<1>2. todo[r] \subseteq 0..MaxNumber /\ MaxNumber \in Nat
  BY <1>1, RepoAssumption
<1>3. todo[r] \subseteq Nat
  BY <1>2
<1>4. Max(todo[r]) \in todo[r]
  BY <1>2, MaxAttained, Zenon
<1>5. Min(todo[r]) \in todo[r]
  BY <1>3, MinAttained, Zenon
<1>6. Current(r) \in todo[r]
  BY <1>4, <1>5 DEF Current
<1>7. QED
  BY <1>1, <1>6

\* What the tracking table says is about known migrations.
LEMMA AppliedType ==
    ASSUME TypeOK, NEW d
    PROVE  Applied(d) \subseteq Migrations /\ Customised(d) \subseteq Migrations
<1>1. LastStates(d) \subseteq Row
  BY DEF LastStates, TypeOK
<1>2. \A row \in Row : row.migration \in Migrations
  BY DEF Row
<1>3. QED
  BY <1>1, <1>2 DEF Applied, Customised, Successful

LEMMA ActionType ==
    ASSUME NEW o \in Operation
    PROVE  /\ ActionOf(o) \in {"upgrade", "rollback", "stamp", "apply"}
           /\ o.kind # "stamp" => ActionOf(o) \in {"upgrade", "rollback", "apply"}
BY DEF ActionOf, Operation, Kinds

\* What the entry points have checked of a run that got past them.
LEMMA Admitted ==
    ASSUME NEW o \in Operation, NEW v, Entry(o, v) = "ensure"
    PROVE  Consented(o) /\ (o.kind = "apply" => o.number \in v.targeted)
<1>1. Consented(o)
  BY DEF Entry
<1>2. CASE o.kind = "apply"
  BY <1>1, <1>2 DEF Entry
<1>3. QED
  BY <1>1, <1>2

-----------------------------------------------------------------------------
(* What the control operators do to the state of the runs. *)

\* The runs' half of TypeOK.
RunsTyped ==
    /\ pc \in [Runs -> {"idle"} \cup Waiting \cup Ended]
    /\ op \in [Runs -> Operations]
    /\ checkout \in [Runs -> RepoVersions]
    /\ dbs \in [Runs -> SUBSET Nat]
    /\ seen \in [Runs -> SUBSET Migrations]
    /\ todo \in [Runs -> SUBSET Migrations]
    /\ stmt \in [Runs -> Nat]

\* The run has moved, and nothing changes of the others.
Moved(r) ==
    /\ pc'[r] # "idle"
    /\ \A q \in Runs \ {r} :
          /\ pc'[q] = pc[q] /\ op'[q] = op[q] /\ checkout'[q] = checkout[q]
          /\ dbs'[q] = dbs[q] /\ seen'[q] = seen[q] /\ todo'[q] = todo[q] /\ stmt'[q] = stmt[q]

LEMMA OthersPlaced ==
    ASSUME NEW r \in Runs, Moved(r), NEW q \in Runs \ {r}, Placed(q)
    PROVE  Placed(q)'
BY DEF Moved, Placed, File, Current

LEMMA StopEffect ==
    ASSUME RunsTyped, NEW r \in Runs, NEW outcome \in Ended, Stop(r, outcome),
           op' \in [Runs -> Operations], checkout' \in [Runs -> RepoVersions],
           \A q \in Runs \ {r} : op'[q] = op[q] /\ checkout'[q] = checkout[q]
    PROVE  RunsTyped' /\ Moved(r) /\ Placed(r)'
<1>1. RunsTyped'
  BY DEF RunsTyped, Stop
<1>2. Moved(r)
  BY DEF RunsTyped, Stop, Moved, Ended
<1>3. pc'[r] = outcome /\ dbs'[r] = {}
  BY DEF RunsTyped, Stop
<1>4. Placed(r)'
  BY <1>3 DEF Placed, Ended, Waiting, Walking, Applying, Executing
<1>5. QED
  BY <1>1, <1>2, <1>4

LEMMA NextDatabaseEffect ==
    ASSUME RunsTyped, NEW r \in Runs, Placed(r), pc[r] \in Waiting, NextDatabase(r),
           UNCHANGED <<op, checkout>>
    PROVE  RunsTyped' /\ Moved(r) /\ Placed(r)'
<1>1. RunsTyped'
  BY DEF RunsTyped, NextDatabase, Waiting
<1>2. Moved(r)
  BY DEF RunsTyped, NextDatabase, Moved
<1>3. pc'[r] = "database" /\ dbs'[r] \subseteq dbs[r]
  BY DEF RunsTyped, NextDatabase
<1>4. Placed(r)'
  BY <1>3 DEF Placed, Walking, Applying, Executing
<1>5. QED
  BY <1>1, <1>2, <1>4

LEMMA WalkEffect ==
    ASSUME RunsTyped, NEW r \in Runs, Placed(r), pc[r] \in Waiting,
           NEW migrations \in SUBSET Migrations, Walk(r, migrations),
           op[r].kind = "stamp" => ~op[r].dryRun,
           dbs[r] # {},
           UNCHANGED <<op, checkout>>
    PROVE  RunsTyped' /\ Moved(r) /\ Placed(r)'
<1>1. CASE migrations = {}
  BY <1>1, NextDatabaseEffect DEF Walk
<1>2. CASE migrations # {}
  <2>1. RunsTyped'
    BY <1>2 DEF RunsTyped, Walk, Waiting
  <2>2. Moved(r)
    BY <1>2 DEF RunsTyped, Walk, Moved
  <2>3. pc'[r] = "migration" /\ dbs'[r] = dbs[r] /\ todo'[r] = migrations
    BY <1>2 DEF RunsTyped, Walk
  <2>4. Placed(r)'
    BY <1>2, <2>3 DEF Placed, Walking, Applying, Executing
  <2>5. QED
    BY <2>1, <2>2, <2>4
<1>3. QED
  BY <1>1, <1>2

\* The server's half of TypeOK.
ServerTyped ==
    /\ rows \subseteq Row
    /\ clock \in Nat /\ seeds \in Nat
    /\ schema \in [Databases -> [Migrations -> {"absent", "partial", "present"}]]
    /\ repo \in RepoVersions
    /\ executed \subseteq Statement /\ late \subseteq Statement

\* One run has taken a step and is still where it should be.
Preserved(r) == ServerTyped' /\ RunsTyped' /\ Moved(r) /\ Placed(r)'

LEMMA PreservedInductive ==
    ASSUME Inductive, NEW r \in Runs, Preserved(r)
    PROVE  Inductive'
<1>1. TypeOK'
  BY DEF Preserved, ServerTyped, RunsTyped, TypeOK
<1>2. ASSUME NEW q \in Runs PROVE Placed(q)'
  <2>1. CASE q = r
    BY <2>1 DEF Preserved
  <2>2. CASE q # r
    BY <2>2, OthersPlaced DEF Preserved, Inductive
  <2>3. QED
    BY <2>1, <2>2
<1>3. QED
  BY <1>1, <1>2 DEF Inductive

LEMMA GotoEffect ==
    ASSUME RunsTyped, NEW r \in Runs, NEW step \in Waiting, Goto(r, step),
           op' \in [Runs -> Operations], checkout' \in [Runs -> RepoVersions],
           \A q \in Runs \ {r} : op'[q] = op[q] /\ checkout'[q] = checkout[q]
    PROVE  RunsTyped' /\ Moved(r) /\ pc'[r] = step /\ UNCHANGED local
BY DEF RunsTyped, Goto, Moved, local, Waiting

\* From one step before the walk to another.
LEMMA PreludeEffect ==
    ASSUME RunsTyped, NEW r \in Runs, Placed(r),
           pc[r] \in {"ensure", "seed", "count", "import"},
           NEW step \in {"seed", "count", "import", "recount", "resolve"}, Goto(r, step),
           UNCHANGED <<op, checkout>>
    PROVE  RunsTyped' /\ Moved(r) /\ Placed(r)'
<1>1. step \in Waiting
  BY DEF Waiting
<1>2. op' \in [Runs -> Operations] /\ checkout' \in [Runs -> RepoVersions]
  BY DEF RunsTyped
<1>3. RunsTyped' /\ Moved(r) /\ pc'[r] = step /\ UNCHANGED local
  BY <1>1, <1>2, GotoEffect
<1>4. dbs[r] = {} /\ Entry(op[r], checkout[r]) = "ensure"
  BY DEF Placed, Walking, Waiting
<1>5. Placed(r)'
  BY <1>3, <1>4 DEF local, Placed, Walking, Applying, Executing
<1>6. QED
  BY <1>3, <1>5

\* A run returns and leaves the command lines and the checkouts alone.
LEMMA StopPreserves ==
    ASSUME RunsTyped, NEW r \in Runs, NEW outcome \in Ended, Stop(r, outcome),
           UNCHANGED <<op, checkout>>
    PROVE  RunsTyped' /\ Moved(r) /\ Placed(r)'
<1>1. op' \in [Runs -> Operations] /\ checkout' \in [Runs -> RepoVersions]
  BY DEF RunsTyped
<1>2. QED
  BY <1>1, StopEffect

-----------------------------------------------------------------------------
(* The steps before the walk. *)

LEMMA StartPreserves ==
    ASSUME Inductive, NEW r \in Runs, NEW o \in Operations, Start(r, o)
    PROVE  Preserved(r)
<1>1. RunsTyped /\ ServerTyped /\ Placed(r) /\ pc[r] = "idle"
  BY DEF Inductive, TypeOK, RunsTyped, ServerTyped, Start
<1>2. ServerTyped'
  BY <1>1 DEF Start, server, ServerTyped
<1>3. /\ op' \in [Runs -> Operations] /\ checkout' \in [Runs -> RepoVersions]
      /\ \A q \in Runs \ {r} : op'[q] = op[q] /\ checkout'[q] = checkout[q]
      /\ op'[r] = o /\ checkout'[r] = repo
  BY <1>1 DEF Start, RunsTyped, ServerTyped
<1>4. CASE Entry(o, repo) = "ensure"
  <2>1. Goto(r, "ensure") /\ "ensure" \in Waiting
    BY <1>4 DEF Start, Waiting
  <2>2. RunsTyped' /\ Moved(r) /\ pc'[r] = "ensure" /\ UNCHANGED local
    BY <1>1, <1>3, <2>1, GotoEffect
  <2>3. dbs[r] = {}
    BY <1>1 DEF Placed, Walking
  <2>4. Placed(r)'
    BY <1>3, <1>4, <2>2, <2>3 DEF local, Placed, Walking, Applying, Executing
  <2>5. QED
    BY <1>2, <2>2, <2>4 DEF Preserved
<1>5. CASE Entry(o, repo) # "ensure"
  <2>1. Stop(r, Entry(o, repo))
    BY <1>5 DEF Start
  <2>2. Entry(o, repo) \in Ended
    BY <1>5, Zenon DEF Entry, Gate, Ended
  <2>3. QED
    BY <1>1, <1>2, <1>3, <2>1, <2>2, StopEffect DEF Preserved
<1>6. QED
  BY <1>4, <1>5

\* Steps that only read the server.
LEMMA ServerKept ==
    ASSUME Inductive, UNCHANGED <<server, repo>>
    PROVE  ServerTyped'
BY DEF Inductive, TypeOK, ServerTyped, server

LEMMA BookkeepPreserves ==
    ASSUME Inductive, NEW r \in Runs, Bookkeep(r)
    PROVE  Preserved(r)
<1> USE DEF Preserved
<1>1. RunsTyped /\ ServerTyped /\ Placed(r)
  BY DEF Inductive, TypeOK, RunsTyped, ServerTyped
<1>2. Ready(r) \in {"count", "resolve"}
  BY DEF Ready
<1>3. "server" \in Ended /\ "refused" \in Ended /\ "ok" \in Ended
  BY DEF Ended
<1>4. CASE EnsureTracking(r)
  <2>1. ServerTyped' /\ UNCHANGED <<op, checkout>>
    BY <1>4, ServerKept DEF EnsureTracking
  <2>2. PICK step \in {"seed", "count", "resolve"} : Goto(r, step) /\ pc[r] = "ensure"
    BY <1>2, <1>4 DEF EnsureTracking
  <2>3. QED
    BY <1>1, <2>1, <2>2, PreludeEffect
<1>5. CASE SeedMeta(r)
  <2>1. ServerTyped' /\ UNCHANGED <<op, checkout>> /\ pc[r] = "seed"
    BY <1>1, <1>5 DEF SeedMeta, ServerTyped
  <2>2. CASE Goto(r, Ready(r))
    BY <1>1, <1>2, <2>1, <2>2, PreludeEffect
  <2>3. CASE Stop(r, "server")
    BY <1>1, <1>3, <2>1, <2>3, StopPreserves
  <2>4. QED
    BY <1>5, <2>2, <2>3 DEF SeedMeta
<1>6. CASE CountRows(r)
  <2>1. ServerTyped' /\ UNCHANGED <<op, checkout>> /\ pc[r] = "count"
    BY <1>6, ServerKept DEF CountRows
  <2>2. CASE Goto(r, "import")
    BY <1>1, <2>1, <2>2, PreludeEffect
  <2>3. CASE Stop(r, "refused")
    BY <1>1, <1>3, <2>1, <2>3, StopPreserves
  <2>4. QED
    BY <1>6, <2>2, <2>3 DEF CountRows
<1>7. CASE ImportRows(r)
  <2>1. AncestorRows \subseteq Row
    BY ServerAssumption
  <2>2. ServerTyped' /\ UNCHANGED <<op, checkout>> /\ pc[r] = "import"
    BY <1>1, <1>7, <2>1 DEF ImportRows, ServerTyped
  <2>3. CASE Goto(r, "recount")
    BY <1>1, <2>2, <2>3, PreludeEffect
  <2>4. CASE Stop(r, "server")
    BY <1>1, <1>3, <2>2, <2>4, StopPreserves
  <2>5. QED
    BY <1>7, <2>3, <2>4 DEF ImportRows
<1>8. CASE Recount(r)
  <2>1. ServerTyped' /\ UNCHANGED <<op, checkout>> /\ Stop(r, "ok")
    BY <1>8, ServerKept DEF Recount
  <2>2. QED
    BY <1>1, <1>3, <2>1, StopPreserves
<1>9. QED
  BY <1>4, <1>5, <1>6, <1>7, <1>8 DEF Bookkeep

-----------------------------------------------------------------------------
(* Choosing the work. *)

LEMMA PlanPreserves ==
    ASSUME Inductive, NEW r \in Runs, Plan(r)
    PROVE  Preserved(r)
<1> USE DEF Preserved
<1>1. RunsTyped /\ ServerTyped /\ Placed(r) /\ TypeOK
  BY DEF Inductive, TypeOK, RunsTyped, ServerTyped
<1>2. ServerTyped' /\ UNCHANGED <<op, checkout>>
  <2>1. UNCHANGED <<server, repo>> /\ UNCHANGED <<op, checkout>>
    BY DEF Plan, ResolveTargets, Finish, ReadApplied, PlanUpgrade, PlanRollbackTo,
           PlanRollbackOne, PlanRemoveTargeted, PlanStamp, PlanApply
  <2>2. QED
    BY <2>1, ServerKept
<1>3. "repo" \in Ended /\ "refused" \in Ended /\ "ok" \in Ended
  BY DEF Ended
<1>4. /\ op[r] \in Operation /\ op[r].targets \in Targets /\ op[r].number \in Nat
      /\ checkout[r].chain \subseteq Migrations /\ checkout[r].targeted \subseteq Migrations
  BY <1>1, OperationType
<1>5. /\ Applied(Db(r)) \subseteq Migrations /\ Customised(Db(r)) \subseteq Migrations
      /\ Fleet(checkout[r]) \subseteq Migrations
  BY <1>1, <1>4, AppliedType DEF Fleet
<1>6. \A kind \in Kinds : AtDatabase(r, kind) => pc[r] \in Waiting /\ dbs[r] # {} /\ op[r].kind = kind
  BY DEF AtDatabase, Waiting
<1>7. CASE ResolveTargets(r)
  <2>1. CASE Stop(r, "refused")
    BY <1>1, <1>2, <1>3, <2>1, StopPreserves
  <2>2. CASE Stop(r, "repo")
    BY <1>1, <1>2, <1>3, <2>2, StopPreserves
  <2>3. CASE /\ pc' = [pc EXCEPT ![r] = "database"]
             /\ dbs' = [dbs EXCEPT ![r] = Positions(op[r].targets)]
             /\ UNCHANGED <<seen, todo, stmt>>
    <3>1. Positions(op[r].targets) \subseteq Nat
      BY <1>4, PositionsType
    <3>2. RunsTyped' /\ Moved(r)
      BY <1>1, <1>2, <2>3, <3>1 DEF RunsTyped, Waiting, Moved
    <3>3. pc'[r] = "database" /\ dbs'[r] = Positions(op[r].targets)
      BY <1>1, <2>3 DEF RunsTyped
    <3>4. Entry(op[r], checkout[r]) = "ensure"
      BY <1>1, <1>7 DEF Placed, ResolveTargets, Waiting
    <3>5. Placed(r)'
      BY <1>2, <3>3, <3>4 DEF Placed, Walking, Applying, Executing
    <3>6. QED
      BY <1>2, <3>2, <3>5
  <2>4. QED
    BY <1>7, <2>1, <2>2, <2>3 DEF ResolveTargets
<1>8. CASE Finish(r)
  BY <1>1, <1>2, <1>3, <1>8, StopPreserves DEF Finish
<1>9. CASE ReadApplied(r)
  <2>1. pc[r] = "database" /\ dbs[r] # {} /\ op[r].kind = "upgrade"
    BY <1>9 DEF ReadApplied, AtDatabase
  <2>2. RunsTyped' /\ Moved(r)
    BY <1>1, <1>2, <1>5, <1>9 DEF ReadApplied, RunsTyped, Waiting, Moved
  <2>3. pc'[r] = "customised" /\ dbs'[r] = dbs[r]
    BY <1>1, <1>9 DEF ReadApplied, RunsTyped
  <2>4. Placed(r)'
    BY <1>1, <1>2, <2>1, <2>3 DEF Placed, Walking, Applying, Executing, Waiting
  <2>5. QED
    BY <1>2, <2>2, <2>4
<1>10. CASE PlanUpgrade(r)
  <2>1. pc[r] = "customised" /\ pc[r] \in Waiting
    BY <1>10 DEF PlanUpgrade, Waiting
  <2>2. op[r].kind # "stamp" /\ dbs[r] # {}
    BY <1>1, <2>1 DEF Placed, Walking
  <2>3. \E migrations \in SUBSET Migrations : Walk(r, migrations)
    BY <1>5, <1>10 DEF PlanUpgrade
  <2>4. QED
    BY <1>1, <1>2, <2>1, <2>2, <2>3, WalkEffect
<1>11. CASE PlanRollbackTo(r)
  <2>1. pc[r] \in Waiting /\ op[r].kind # "stamp" /\ dbs[r] # {}
    BY <1>6, <1>11 DEF PlanRollbackTo, Kinds
  <2> DEFINE walk == {m \in Applied(Db(r)) : m > op[r].number /\ m \in Fleet(checkout[r])}
             stopped == {m \in walk : Gate(m, op[r].ackIrreversible) # "pass"}
  <2>2. CASE Walk(r, walk)
    <3>1. walk \in SUBSET Migrations
      BY <1>5
    <3>2. QED
      BY <1>1, <1>2, <2>1, <2>2, <3>1, WalkEffect
  <2>3. CASE stopped # {} /\ Stop(r, Gate(Max(stopped), op[r].ackIrreversible))
    <3>1. stopped \subseteq 0..MaxNumber /\ MaxNumber \in Nat
      BY <1>5, RepoAssumption
    <3>2. Max(stopped) \in stopped
      BY <2>3, <3>1, MaxAttained, Zenon
    <3>3. Gate(Max(stopped), op[r].ackIrreversible) # "pass"
      BY <3>2
    <3>4. Gate(Max(stopped), op[r].ackIrreversible) \in Ended
      BY <3>3, Zenon DEF Gate, Ended
    <3>5. QED
      BY <1>1, <1>2, <2>3, <3>4, StopPreserves
  <2>4. QED
    BY <1>11, <2>2, <2>3, Zenon DEF PlanRollbackTo
<1>12. CASE PlanRollbackOne(r)
  <2>1. pc[r] \in Waiting /\ op[r].kind # "stamp" /\ dbs[r] # {}
    BY <1>6, <1>12 DEF PlanRollbackOne, Kinds
  <2>2. CASE NextDatabase(r)
    BY <1>1, <1>2, <2>1, <2>2, NextDatabaseEffect
  <2>3. CASE Stop(r, "refused")
    BY <1>1, <1>2, <1>3, <2>3, StopPreserves
  <2>4. CASE op[r].number \in Applied(Db(r)) /\ Walk(r, {op[r].number})
    <3>1. {op[r].number} \in SUBSET Migrations
      BY <1>5, <2>4
    <3>2. QED
      BY <1>1, <1>2, <2>1, <2>4, <3>1, WalkEffect
  <2>5. QED
    BY <1>12, <2>2, <2>3, <2>4 DEF PlanRollbackOne
<1>13. CASE PlanRemoveTargeted(r)
  <2>1. pc[r] \in Waiting /\ op[r].kind # "stamp" /\ dbs[r] # {}
    BY <1>6, <1>13 DEF PlanRemoveTargeted, Kinds
  <2>2. \E migrations \in SUBSET Migrations : Walk(r, migrations)
    BY <1>5, <1>13 DEF PlanRemoveTargeted
  <2>3. QED
    BY <1>1, <1>2, <2>1, <2>2, WalkEffect
<1>14. CASE PlanStamp(r)
  <2>1. pc[r] \in Waiting /\ dbs[r] # {}
    BY <1>6, <1>14 DEF PlanStamp, Kinds
  <2>2. CASE NextDatabase(r)
    BY <1>1, <1>2, <2>1, <2>2, NextDatabaseEffect
  <2>3. CASE ~op[r].dryRun /\ \E migrations \in SUBSET Migrations : Walk(r, migrations)
    BY <1>1, <1>2, <2>1, <2>3, WalkEffect
  <2>4. QED
    BY <1>5, <1>14, <2>2, <2>3 DEF PlanStamp
<1>15. CASE PlanApply(r)
  <2>1. pc[r] \in Waiting /\ op[r].kind = "apply" /\ dbs[r] # {}
    BY <1>6, <1>15 DEF PlanApply, Kinds
  <2>2. op[r].number \in Migrations
    BY <1>1, <1>4, <2>1, Admitted DEF Placed
  <2>3. CASE Stop(r, "refused")
    BY <1>1, <1>2, <1>3, <2>3, StopPreserves
  <2>4. CASE Walk(r, {op[r].number} \ Customised(Db(r)))
    <3>1. {op[r].number} \ Customised(Db(r)) \in SUBSET Migrations
      BY <2>2
    <3>2. QED
      BY <1>1, <1>2, <2>1, <2>4, <3>1, WalkEffect
  <2>5. QED
    BY <1>15, <2>3, <2>4 DEF PlanApply
<1>16. QED
  BY <1>7, <1>8, <1>9, <1>10, <1>11, <1>12, <1>13, <1>14, <1>15 DEF Plan

-----------------------------------------------------------------------------
(* Executing one migration. *)

\* A tracking row is well-formed whatever its status.
LEMMA InsertTyped ==
    ASSUME TypeOK, NEW r \in Runs, Placed(r), pc[r] \in Applying,
           NEW status \in Statuses, Insert(r, status)
    PROVE  rows' \subseteq Row /\ clock' \in Nat
<1>1. Db(r) \in Databases /\ Current(r) \in Migrations
  BY DbType, CurrentType DEF Placed, Walking, Applying
<1>2. ActionOf(op[r]) \in {"upgrade", "rollback", "stamp", "apply"}
  BY OperationType, ActionType
<1>3. r \in 0..MaxRuns
  BY ServerAssumption DEF Runs
<1>4. PICK step \in ClockSteps :
        /\ clock' = clock + step
        /\ rows' = rows \cup {[db |-> Db(r), migration |-> Current(r),
                               action |-> ActionOf(op[r]), status |-> status,
                               at |-> clock + step, run |-> r]}
  BY DEF Insert
<1>5. clock + step \in Nat
  BY ServerAssumption DEF TypeOK
<1>6. [db |-> Db(r), migration |-> Current(r), action |-> ActionOf(op[r]),
       status |-> status, at |-> clock + step, run |-> r] \in Row
  BY <1>1, <1>2, <1>3, <1>5 DEF Row
<1>7. QED
  BY <1>4, <1>5, <1>6 DEF TypeOK

LEMMA RecordedTyped ==
    ASSUME TypeOK, NEW r \in Runs, Placed(r), pc[r] \in Applying,
           NEW status \in Statuses, Recorded(r, status)
    PROVE  ServerTyped' /\ UNCHANGED <<op, checkout>>
BY InsertTyped DEF Recorded, TypeOK, ServerTyped

LEMMA RecordFailsPreserves ==
    ASSUME Inductive, NEW r \in Runs, pc[r] \in Applying,
           NEW status \in Statuses, RecordFails(r, status)
    PROVE  Preserved(r)
<1>1. TypeOK /\ Placed(r) /\ RunsTyped /\ "server" \in Ended
  BY DEF Inductive, TypeOK, RunsTyped, Ended
<1>2. ServerTyped'
  BY <1>1, InsertTyped DEF RecordFails, TypeOK, ServerTyped
<1>3. Stop(r, "server") /\ UNCHANGED <<op, checkout>>
  BY DEF RecordFails
<1>4. QED
  BY <1>1, <1>2, <1>3, StopPreserves DEF Preserved

LEMMA NextMigrationEffect ==
    ASSUME Inductive, NEW r \in Runs, pc[r] \in Applying, NextMigration(r),
           UNCHANGED <<op, checkout>>
    PROVE  RunsTyped' /\ Moved(r) /\ Placed(r)'
<1>1. RunsTyped /\ Placed(r)
  BY DEF Inductive, TypeOK, RunsTyped
<1>2. /\ pc[r] \in Waiting /\ dbs[r] # {}
      /\ op[r].kind = "stamp" => ~op[r].dryRun
  BY <1>1 DEF Placed, Applying, Walking, Waiting
<1>3. todo[r] \ {Current(r)} \in SUBSET Migrations
  BY <1>1 DEF RunsTyped
<1>4. QED
  BY <1>1, <1>2, <1>3, WalkEffect DEF NextMigration

LEMMA ExecutionType ==
    ASSUME Inductive, NEW r \in Runs, pc[r] = "execute"
    PROVE  /\ Execution(r) \in Statement
           /\ \A result : schema' = [schema EXCEPT ![Execution(r).db][Execution(r).migration] = result]
                  /\ result \in {"absent", "partial", "present"}
                => schema' \in [Databases -> [Migrations -> {"absent", "partial", "present"}]]
<1>1. TypeOK /\ Placed(r)
  BY DEF Inductive
<1>2. Db(r) \in Databases /\ Current(r) \in Migrations
  BY <1>1, DbType, CurrentType DEF Placed, Walking, Applying
<1>3. ActionOf(op[r]) \in {"upgrade", "rollback", "apply"}
  BY <1>1, OperationType, ActionType DEF Placed, Executing
<1>4. Execution(r) \in Statement
  BY <1>1, <1>2, <1>3 DEF Execution, Statement, TypeOK
<1>5. ASSUME NEW result \in {"absent", "partial", "present"},
             schema' = [schema EXCEPT ![Execution(r).db][Execution(r).migration] = result]
      PROVE  schema' \in [Databases -> [Migrations -> {"absent", "partial", "present"}]]
  BY <1>1, <1>5 DEF TypeOK
<1>6. QED
  BY <1>4, <1>5

LEMMA OutcomeType ==
    ASSUME NEW e
    PROVE  Outcome(e) \in {"absent", "partial", "present"}
BY DEF Outcome

LEMMA ExecuteStatementPreserves ==
    ASSUME Inductive, NEW r \in Runs, ExecuteStatement(r)
    PROVE  Preserved(r)
<1>1. TypeOK /\ Placed(r) /\ RunsTyped /\ ServerTyped /\ pc[r] = "execute"
  BY DEF Inductive, TypeOK, RunsTyped, ServerTyped, ExecuteStatement
<1>2. ServerTyped'
  BY <1>1, ExecutionType, OutcomeType DEF ExecuteStatement, Execute, ServerTyped
<1>3. UNCHANGED <<op, checkout>>
  BY DEF ExecuteStatement
<1>4. stmt[r] \in 1..Length[File(r)] /\ stmt[r] \in Nat /\ Length[File(r)] \in Nat
  <2>1. todo[r] # {}
    BY <1>1 DEF Placed, Applying
  <2>2. Current(r) \in Migrations
    BY <1>1, <2>1, CurrentType
  <2>3. Length[File(r)] \in Nat
    BY <2>2, RepoAssumption DEF File, Direction
  <2>4. QED
    BY <1>1, <2>3 DEF Placed, Executing, RunsTyped
<1>5. CASE stmt[r] < Length[File(r)]
  <2>1. stmt' = [stmt EXCEPT ![r] = @ + 1] /\ UNCHANGED <<pc, dbs, seen, todo>>
    BY <1>5 DEF ExecuteStatement
  <2>2. RunsTyped' /\ Moved(r)
    BY <1>1, <1>3, <1>4, <2>1 DEF RunsTyped, Moved
  <2>3. stmt'[r] = stmt[r] + 1
    BY <1>1, <2>1 DEF RunsTyped
  <2>4. stmt'[r] \in 1..Length[File(r)] /\ File(r)' = File(r)
    BY <1>3, <1>4, <1>5, <2>1, <2>3 DEF File, Current
  <2>5. Placed(r)'
    BY <1>1, <1>3, <2>1, <2>4 DEF Placed
  <2>6. QED
    BY <1>2, <2>2, <2>5 DEF Preserved
<1>6. CASE ~(stmt[r] < Length[File(r)])
  <2>1. Goto(r, "success") /\ "success" \in Waiting
    BY <1>6 DEF ExecuteStatement, Waiting
  <2>2. op' \in [Runs -> Operations] /\ checkout' \in [Runs -> RepoVersions]
    BY <1>1, <1>3 DEF RunsTyped
  <2>3. RunsTyped' /\ Moved(r) /\ pc'[r] = "success" /\ UNCHANGED local
    BY <1>1, <1>3, <2>1, <2>2, GotoEffect
  <2>4. stmt[r] = Length[File(r)] /\ File(r)' = File(r)
    BY <1>3, <1>4, <1>6, <2>3 DEF File, Current, local
  <2>5. Placed(r)'
    BY <1>1, <1>3, <2>3, <2>4 DEF Placed, local, Walking, Applying, Executing, Waiting
  <2>6. QED
    BY <1>2, <2>3, <2>5 DEF Preserved
<1>7. QED
  BY <1>5, <1>6

LEMMA StatementFailsPreserves ==
    ASSUME Inductive, NEW r \in Runs, StatementFails(r)
    PROVE  Preserved(r)
<1>1. TypeOK /\ Placed(r) /\ RunsTyped /\ ServerTyped /\ pc[r] = "execute"
  BY DEF Inductive, TypeOK, RunsTyped, ServerTyped, StatementFails
<1>2. ServerTyped'
  <2>1. UNCHANGED <<rows, clock, seeds, repo>>
    BY DEF StatementFails
  <2>2. CASE UNCHANGED <<schema, executed, late>>
    BY <1>1, <2>1, <2>2 DEF ServerTyped
  <2>3. CASE /\ \E result \in {"partial", Outcome(Execution(r))} : Execute(Execution(r), result)
             /\ UNCHANGED late
    <3>1. PICK result \in {"absent", "partial", "present"} : Execute(Execution(r), result)
      BY <2>3, OutcomeType
    <3>2. QED
      BY <1>1, <2>1, <2>3, <3>1, ExecutionType DEF Execute, ServerTyped
  <2>4. CASE Abandon(r)
    BY <1>1, <2>1, <2>4, ExecutionType DEF Abandon, ServerTyped
  <2>5. QED
    BY <2>2, <2>3, <2>4 DEF StatementFails
<1>3. UNCHANGED <<op, checkout>> /\ Goto(r, "failure") /\ "failure" \in Waiting
  BY DEF StatementFails, Waiting
<1>4. op' \in [Runs -> Operations] /\ checkout' \in [Runs -> RepoVersions]
  BY <1>1, <1>3 DEF RunsTyped
<1>5. RunsTyped' /\ Moved(r) /\ pc'[r] = "failure" /\ UNCHANGED local
  BY <1>1, <1>3, <1>4, GotoEffect
<1>6. File(r)' = File(r)
  BY <1>3, <1>5 DEF File, Current, local
<1>7. Placed(r)'
  BY <1>1, <1>3, <1>5, <1>6 DEF Placed, local, Walking, Applying, Executing, Waiting
<1>8. QED
  BY <1>2, <1>5, <1>7 DEF Preserved

LEMMA RecordStartedPreserves ==
    ASSUME Inductive, NEW r \in Runs, RecordStarted(r)
    PROVE  Preserved(r)
<1>1. /\ TypeOK /\ Placed(r) /\ RunsTyped
      /\ pc[r] = "migration" /\ pc[r] \in Applying /\ "started" \in Statuses
      /\ op[r].kind # "stamp" /\ ~op[r].dryRun
  BY DEF Inductive, TypeOK, RunsTyped, RecordStarted, AtMigration, Applying, Statuses
<1>2. CASE /\ Recorded(r, "started")
           /\ pc' = [pc EXCEPT ![r] = "execute"]
           /\ stmt' = [stmt EXCEPT ![r] = 1]
           /\ UNCHANGED <<dbs, seen, todo>>
  <2>1. ServerTyped' /\ UNCHANGED <<op, checkout>>
    BY <1>1, <1>2, RecordedTyped
  <2>2. RunsTyped' /\ Moved(r)
    BY <1>1, <1>2, <2>1 DEF RunsTyped, Moved, Waiting
  <2>3. pc'[r] = "execute" /\ stmt'[r] = 1
    BY <1>1, <1>2 DEF RunsTyped
  <2>4. todo[r] # {}
    BY <1>1 DEF Placed
  <2>5. Length[File(r)] \in Nat \ {0}
    BY <1>1, <2>4, CurrentType, RepoAssumption DEF File, Direction
  <2>6. File(r)' = File(r)
    BY <1>2, <2>1 DEF File, Current
  <2>7. stmt'[r] \in 1..Length[File(r)]'
    BY <2>3, <2>5, <2>6
  <2>8. Placed(r)'
    BY <1>1, <1>2, <2>1, <2>3, <2>7 DEF Placed, Walking, Applying, Executing, Waiting
  <2>9. QED
    BY <2>1, <2>2, <2>8 DEF Preserved
<1>3. CASE RecordFails(r, "started")
  BY <1>1, <1>3, RecordFailsPreserves
<1>4. QED
  BY <1>2, <1>3 DEF RecordStarted

LEMMA ApplySqlPreserves ==
    ASSUME Inductive, NEW r \in Runs, ApplySql(r)
    PROVE  Preserved(r)
<1>1. TypeOK /\ RunsTyped /\ Placed(r)
  BY DEF Inductive, TypeOK, RunsTyped
<1>2. "server" \in Ended /\ "repo" \in Ended /\ "success" \in Statuses /\ "failed" \in Statuses
  BY DEF Ended, Statuses
<1>3. CASE RecordStamp(r)
  <2>1. pc[r] \in Applying
    BY <1>3 DEF RecordStamp, Applying
  <2>2. CASE Recorded(r, "success") /\ NextMigration(r)
    BY <1>1, <1>2, <2>1, <2>2, RecordedTyped, NextMigrationEffect DEF Preserved
  <2>3. CASE RecordFails(r, "success")
    BY <1>2, <2>1, <2>3, RecordFailsPreserves
  <2>4. QED
    BY <1>3, <2>2, <2>3 DEF RecordStamp
<1>4. CASE Unrenderable(r)
  BY <1>1, <1>2, <1>4, ServerKept, StopPreserves DEF Unrenderable, Preserved
<1>5. CASE DryRun(r)
  <2>1. pc[r] \in Applying
    BY <1>5 DEF DryRun, AtMigration, Applying
  <2>2. QED
    BY <1>5, <2>1, ServerKept, NextMigrationEffect DEF DryRun, Preserved
<1>6. CASE DiscoveryFails(r)
  BY <1>1, <1>2, <1>6, ServerKept, StopPreserves DEF DiscoveryFails, Preserved
<1>7. CASE RecordFailure(r)
  <2>1. pc[r] \in Applying
    BY <1>7 DEF RecordFailure, Applying
  <2>2. CASE Recorded(r, "failed") /\ Stop(r, "server")
    BY <1>1, <1>2, <2>1, <2>2, RecordedTyped, StopPreserves DEF Preserved
  <2>3. CASE RecordFails(r, "failed")
    BY <1>2, <2>1, <2>3, RecordFailsPreserves
  <2>4. QED
    BY <1>7, <2>2, <2>3 DEF RecordFailure
<1>8. CASE RecordSuccess(r)
  <2>1. pc[r] \in Applying
    BY <1>8 DEF RecordSuccess, Applying
  <2>2. CASE Recorded(r, "success") /\ NextMigration(r)
    BY <1>1, <1>2, <2>1, <2>2, RecordedTyped, NextMigrationEffect DEF Preserved
  <2>3. CASE RecordFails(r, "success")
    BY <1>2, <2>1, <2>3, RecordFailsPreserves
  <2>4. QED
    BY <1>8, <2>2, <2>3 DEF RecordSuccess
<1>9. QED
  BY <1>3, <1>4, <1>5, <1>6, <1>7, <1>8, RecordStartedPreserves,
     ExecuteStatementPreserves, StatementFailsPreserves DEF ApplySql

-----------------------------------------------------------------------------
(* The whole system. *)

LEMMA CrashPreserves ==
    ASSUME Inductive, NEW r \in Runs, Crash(r)
    PROVE  Preserved(r)
<1>1. TypeOK /\ RunsTyped /\ ServerTyped /\ "crashed" \in Ended
  BY DEF Inductive, TypeOK, RunsTyped, ServerTyped, Ended
<1>2. UNCHANGED <<rows, clock, seeds, repo, op, checkout>> /\ Stop(r, "crashed")
  BY DEF Crash
<1>3. CASE UNCHANGED <<schema, executed, late>>
  BY <1>1, <1>2, <1>3, StopPreserves DEF ServerTyped, Preserved
<1>4. CASE pc[r] = "execute" /\ Abandon(r)
  <2>1. ServerTyped'
    BY <1>1, <1>2, <1>4, ExecutionType DEF Abandon, ServerTyped
  <2>2. QED
    BY <1>1, <1>2, <2>1, StopPreserves DEF Preserved
<1>5. QED
  BY <1>3, <1>4 DEF Crash

LEMMA StepPreserves ==
    ASSUME Inductive, NEW r \in Runs, Step(r)
    PROVE  Preserved(r)
<1>1. CASE QueryFails(r)
  <2>1. RunsTyped /\ "server" \in Ended
    BY DEF Inductive, TypeOK, RunsTyped, Ended
  <2>2. QED
    BY <1>1, <2>1, ServerKept, StopPreserves DEF QueryFails, Preserved
<1>2. QED
  BY <1>1, BookkeepPreserves, PlanPreserves, ApplySqlPreserves DEF Step

\* Nothing of a run changes.
LEMMA StandingStill ==
    ASSUME Inductive, ServerTyped', UNCHANGED <<pc, op, checkout, local>>
    PROVE  Inductive'
<1>1. TypeOK'
  BY DEF Inductive, TypeOK, ServerTyped, local
<1>2. ASSUME NEW r \in Runs PROVE Placed(r)'
  <2>1. Placed(r)
    BY DEF Inductive
  <2>2. QED
    BY <2>1 DEF Placed, File, Current, local
<1>3. QED
  BY <1>1, <1>2 DEF Inductive

LEMMA InductiveInit == Init => Inductive
<1> SUFFICES ASSUME Init PROVE Inductive
  OBVIOUS
<1>1. (CHOOSE o \in Operations : TRUE) \in Operations
  BY OperationAssumption
<1>2. TypeOK
  BY <1>1 DEF Init, TypeOK
<1>3. ASSUME NEW r \in Runs PROVE Placed(r)
  <2>1. pc[r] = "idle" /\ dbs[r] = {}
    BY DEF Init
  <2>2. QED
    BY <2>1 DEF Placed, Waiting, Walking, Applying, Executing
<1>4. QED
  BY <1>2, <1>3 DEF Inductive

LEMMA InductiveNext == Inductive /\ [Next]_vars => Inductive'
<1> SUFFICES ASSUME Inductive, [Next]_vars PROVE Inductive'
  OBVIOUS
<1>1. TypeOK /\ ServerTyped
  BY DEF Inductive, TypeOK, ServerTyped
<1>2. ASSUME NEW r \in Runs, Step(r) PROVE Inductive'
  BY <1>2, StepPreserves, PreservedInductive
<1>3. ASSUME NEW r \in Runs, Crash(r) PROVE Inductive'
  BY <1>3, CrashPreserves, PreservedInductive
<1>4. ASSUME NEW r \in Runs, NEW o \in Operations, Start(r, o) PROVE Inductive'
  BY <1>4, StartPreserves, PreservedInductive
<1>5. ASSUME NEW e \in late, Land(e) PROVE Inductive'
  <2>1. e \in Statement
    BY <1>1 DEF ServerTyped
  <2>2. ServerTyped'
    BY <1>1, <1>5, <2>1, OutcomeType DEF Land, Execute, ServerTyped, Statement
  <2>3. QED
    BY <1>5, <2>2, StandingStill DEF Land
<1>6. CASE Pull
  <2>1. ServerTyped'
    BY <1>1, <1>6 DEF Pull, server, ServerTyped
  <2>2. QED
    BY <1>6, <2>1, StandingStill DEF Pull
<1>7. CASE UNCHANGED vars
  <2>1. ServerTyped'
    BY <1>1, <1>7 DEF vars, server, ServerTyped
  <2>2. QED
    BY <1>7, <2>1, StandingStill DEF vars
<1>8. QED
  BY <1>2, <1>3, <1>4, <1>5, <1>6, <1>7 DEF Next

\* Whatever the operators order, the runs and the tracking tables keep the
\* shape the code relies on (runner.rs:58-64, tracking.rs:33-40), and a run is
\* always at one of its targets and at a migration of its repository.
THEOREM TypeCorrect == Spec => []TypeOK
<1>1. Inductive => TypeOK
  BY DEF Inductive
<1>2. QED
  BY <1>1, InductiveInit, InductiveNext, PTL DEF Spec

-----------------------------------------------------------------------------
(* What a step adds to the server, and how a run comes to execute. *)

THEOREM InductiveInvariant == Spec => []Inductive
BY InductiveInit, InductiveNext, PTL DEF Spec

\* Nothing of the run changes but what it has read.
Held(q) ==
    /\ pc'[q] = pc[q] /\ op'[q] = op[q] /\ checkout'[q] = checkout[q]
    /\ dbs'[q] = dbs[q] /\ todo'[q] = todo[q] /\ stmt'[q] = stmt[q]

\* The control operators that leave the execution of a migration.
LEMMA Leaving ==
    ASSUME RunsTyped, NEW q \in Runs,
           \/ \E outcome \in Ended : Stop(q, outcome)
           \/ NextDatabase(q)
           \/ \E migrations : Walk(q, migrations)
           \/ \E step \in Waiting \ Executing : Goto(q, step)
    PROVE  pc'[q] \notin Executing
<1>1. CASE \E outcome \in Ended : Stop(q, outcome)
  BY <1>1 DEF Stop, Ended, Executing, RunsTyped
<1>2. CASE NextDatabase(q)
  BY <1>2 DEF NextDatabase, Executing, RunsTyped
<1>3. CASE \E migrations : Walk(q, migrations)
  BY <1>3 DEF Walk, NextDatabase, Executing, RunsTyped
<1>4. CASE \E step \in Waiting \ Executing : Goto(q, step)
  BY <1>4 DEF Goto, RunsTyped
<1>5. QED
  BY <1>1, <1>2, <1>3, <1>4

\* A run is executing after its own step only by one of three actions.
LEMMA OwnStep ==
    ASSUME Inductive, NEW q \in Runs, Step(q), pc'[q] \in Executing
    PROVE  RecordStarted(q) \/ ExecuteStatement(q) \/ StatementFails(q)
<1>1. RunsTyped /\ Placed(q) /\ TypeOK
  BY DEF Inductive, TypeOK, RunsTyped
<1>2. /\ {"ok", "refused", "repo", "server"} \subseteq Ended
      /\ {"seed", "count", "import", "recount", "resolve"} \subseteq Waiting \ Executing
  BY DEF Ended, Waiting, Executing
<1>3. CASE Bookkeep(q)
  <2>1. \/ \E outcome \in Ended : Stop(q, outcome)
        \/ \E step \in Waiting \ Executing : Goto(q, step)
    BY <1>2, <1>3 DEF Bookkeep, EnsureTracking, SeedMeta, CountRows, ImportRows, Recount, Ready
  <2>2. QED
    BY <1>1, <2>1, Leaving
<1>4. CASE Plan(q)
  <2>1. CASE ResolveTargets(q)
    <3>1. \/ \E outcome \in Ended : Stop(q, outcome)
          \/ pc' = [pc EXCEPT ![q] = "database"]
      BY <1>2, <2>1 DEF ResolveTargets
    <3>2. QED
      BY <1>1, <3>1, Leaving DEF RunsTyped, Executing
  <2>2. CASE Finish(q)
    BY <1>1, <1>2, <2>2, Leaving DEF Finish
  <2>3. CASE ReadApplied(q)
    BY <1>1, <2>3 DEF ReadApplied, RunsTyped, Executing
  <2>4. CASE PlanRollbackTo(q)
    <3> DEFINE walk == {m \in Applied(Db(q)) : m > op[q].number /\ m \in Fleet(checkout[q])}
               stopped == {m \in walk : Gate(m, op[q].ackIrreversible) # "pass"}
    <3>1. CASE Walk(q, walk)
      BY <1>1, <3>1, Leaving
    <3>2. CASE stopped # {} /\ Stop(q, Gate(Max(stopped), op[q].ackIrreversible))
      <4>1. Gate(Max(stopped), op[q].ackIrreversible) \notin Executing
        BY Zenon DEF Gate, Executing
      <4>2. QED
        BY <1>1, <3>2, <4>1 DEF Stop, RunsTyped
    <3>3. QED
      BY <2>4, <3>1, <3>2, Zenon DEF PlanRollbackTo
  <2>5. CASE PlanUpgrade(q) \/ PlanRollbackOne(q) \/ PlanRemoveTargeted(q) \/ PlanStamp(q) \/ PlanApply(q)
    <3>1. \/ \E outcome \in Ended : Stop(q, outcome)
          \/ NextDatabase(q)
          \/ \E migrations : Walk(q, migrations)
      BY <1>2, <2>5 DEF PlanUpgrade, PlanRollbackOne, PlanRemoveTargeted, PlanStamp, PlanApply
    <3>2. QED
      BY <1>1, <3>1, Leaving
  <2>6. QED
    BY <1>4, <2>1, <2>2, <2>3, <2>4, <2>5 DEF Plan
<1>5. CASE RecordStamp(q) \/ Unrenderable(q) \/ DryRun(q) \/ DiscoveryFails(q)
           \/ RecordFailure(q) \/ RecordSuccess(q) \/ QueryFails(q)
  <2>1. \/ \E outcome \in Ended : Stop(q, outcome)
        \/ \E migrations : Walk(q, migrations)
    BY <1>2, <1>5 DEF RecordStamp, Unrenderable, DryRun, DiscoveryFails, RecordFailure,
                      RecordSuccess, QueryFails, RecordFails, NextMigration
  <2>2. QED
    BY <1>1, <2>1, Leaving
<1>6. QED
  BY <1>3, <1>4, <1>5 DEF Step, ApplySql

LEMMA Advance ==
    ASSUME Inductive, [Next]_vars, NEW q \in Runs, pc'[q] \in Executing
    PROVE  Held(q) \/ RecordStarted(q) \/ ExecuteStatement(q) \/ StatementFails(q)
<1>1. RunsTyped
  BY DEF Inductive, TypeOK, RunsTyped
<1>2. ASSUME NEW r \in Runs, Preserved(r), r # q PROVE Held(q)
  BY <1>2 DEF Preserved, Moved, Held
<1>3. ASSUME NEW r \in Runs, Step(r)
      PROVE Held(q) \/ RecordStarted(q) \/ ExecuteStatement(q) \/ StatementFails(q)
  BY <1>2, <1>3, StepPreserves, OwnStep
<1>4. ASSUME NEW r \in Runs, Crash(r) PROVE Held(q)
  <2>1. r # q
    BY <1>1, <1>4 DEF Crash, Stop, RunsTyped, Executing
  <2>2. QED
    BY <1>2, <1>4, <2>1, CrashPreserves
<1>5. ASSUME NEW r \in Runs, NEW o \in Operations, Start(r, o) PROVE Held(q)
  <2>1. r # q
    <3>1. Entry(o, repo) \notin Executing /\ "ensure" \notin Executing
      BY Zenon DEF Entry, Gate, Executing
    <3>2. pc'[r] \notin Executing
      BY <1>1, <1>5, <3>1 DEF Start, Goto, Stop, RunsTyped
    <3>3. QED
      BY <3>2
  <2>2. QED
    BY <1>2, <1>5, <2>1, StartPreserves
<1>6. CASE UNCHANGED <<pc, op, checkout, local>>
  BY <1>6 DEF Held, local
<1>7. QED
  BY <1>3, <1>4, <1>5, <1>6 DEF Next, Land, Pull, vars

\* A statement reaches the server only from the run that stands before it.
LEMMA Touched ==
    ASSUME [Next]_vars
    PROVE  /\ executed \subseteq executed'
           /\ \A e \in executed' \cup late' :
                 \/ e \in executed \cup late
                 \/ \E r \in Runs : pc[r] = "execute" /\ e = Execution(r)
<1>1. CASE UNCHANGED <<executed, late>>
  BY <1>1
<1>2. ASSUME NEW r \in Runs, Bookkeep(r) \/ Plan(r) \/ QueryFails(r)
      PROVE  UNCHANGED <<executed, late>>
  BY <1>2 DEF Bookkeep, Plan, QueryFails, EnsureTracking, SeedMeta, CountRows, ImportRows, Recount,
              ResolveTargets, Finish, ReadApplied, PlanUpgrade, PlanRollbackTo, PlanRollbackOne,
              PlanRemoveTargeted, PlanStamp, PlanApply, server
<1>3. ASSUME NEW r \in Runs, RecordStamp(r) \/ Unrenderable(r) \/ DryRun(r) \/ RecordStarted(r)
                             \/ DiscoveryFails(r) \/ RecordFailure(r) \/ RecordSuccess(r)
      PROVE  UNCHANGED <<executed, late>>
  BY <1>3 DEF RecordStamp, Unrenderable, DryRun, RecordStarted, DiscoveryFails, RecordFailure,
              RecordSuccess, Recorded, RecordFails, server
<1>4. ASSUME NEW r \in Runs, ExecuteStatement(r) \/ StatementFails(r) \/ Crash(r)
      PROVE  \/ UNCHANGED <<executed, late>>
             \/ pc[r] = "execute" /\ executed' = executed \cup {Execution(r)} /\ late' = late
             \/ pc[r] = "execute" /\ executed' = executed /\ late' = late \cup {Execution(r)}
  BY <1>4 DEF ExecuteStatement, StatementFails, Crash, Execute, Abandon
<1>5. ASSUME NEW e \in late, Land(e)
      PROVE  executed' = executed \cup {e} /\ late' \subseteq late
  BY <1>5 DEF Land, Execute
<1>6. CASE Pull \/ UNCHANGED vars \/ \E r \in Runs, o \in Operations : Start(r, o)
  BY <1>1, <1>6 DEF Pull, Start, vars, server
<1>7. QED
  BY <1>1, <1>2, <1>3, <1>4, <1>5, <1>6 DEF Next, Step, ApplySql

\* A tracking row is written once and says what its run is doing.
LEMMA NewRows ==
    ASSUME Inductive, [Next]_vars
    PROVE  /\ rows \subseteq rows'
           /\ \A row \in rows' \ rows :
                 \/ row \in AncestorRows
                 \/ \E r \in Runs :
                       /\ pc[r] \in Applying /\ ~op[r].dryRun
                       /\ row.run = r /\ row.db = Db(r) /\ row.migration = Current(r)
                       /\ row.action = ActionOf(op[r])
                       /\ row.status = "success" => op[r].kind = "stamp" \/ pc[r] = "success"
<1>1. CASE UNCHANGED rows
  BY <1>1
<1>2. ASSUME NEW r \in Runs, Bookkeep(r)
      PROVE  rows' = rows \/ rows' = rows \cup AncestorRows
  BY <1>2 DEF Bookkeep, EnsureTracking, SeedMeta, CountRows, ImportRows, Recount, server
<1>3. ASSUME NEW r \in Runs, Plan(r) \/ QueryFails(r) \/ Crash(r)
      PROVE  UNCHANGED rows
  BY <1>3 DEF Plan, QueryFails, Crash, ResolveTargets, Finish, ReadApplied, PlanUpgrade,
              PlanRollbackTo, PlanRollbackOne, PlanRemoveTargeted, PlanStamp, PlanApply, server
<1>4. ASSUME NEW r \in Runs, Unrenderable(r) \/ DryRun(r) \/ DiscoveryFails(r)
                             \/ ExecuteStatement(r) \/ StatementFails(r)
      PROVE  UNCHANGED rows
  BY <1>4 DEF Unrenderable, DryRun, DiscoveryFails, ExecuteStatement, StatementFails, server
<1>5. ASSUME NEW r \in Runs,
             RecordStamp(r) \/ RecordStarted(r) \/ RecordFailure(r) \/ RecordSuccess(r)
      PROVE  \/ UNCHANGED rows
             \/ /\ pc[r] \in Applying /\ ~op[r].dryRun
                /\ \E status, at :
                      /\ rows' = rows \cup {[db |-> Db(r), migration |-> Current(r),
                                            action |-> ActionOf(op[r]), status |-> status,
                                            at |-> at, run |-> r]}
                      /\ status = "success" => op[r].kind = "stamp" \/ pc[r] = "success"
  <2>1. Placed(r)
    BY DEF Inductive
  <2>2. pc[r] \in Applying /\ ~op[r].dryRun
    BY <1>5, <2>1 DEF RecordStamp, RecordStarted, RecordFailure, RecordSuccess, AtMigration,
                      Applying, Executing, Placed
  <2>3. PICK status \in Statuses :
          /\ UNCHANGED rows \/ Insert(r, status)
          /\ status = "success" => op[r].kind = "stamp" \/ pc[r] = "success"
    BY <1>5 DEF RecordStamp, RecordStarted, RecordFailure, RecordSuccess, Recorded, RecordFails,
                Statuses
  <2>4. QED
    BY <2>2, <2>3 DEF Insert
<1>6. ASSUME NEW e \in late, Land(e) PROVE UNCHANGED rows
  BY <1>6 DEF Land
<1>7. CASE Pull \/ UNCHANGED vars \/ \E r \in Runs, o \in Operations : Start(r, o)
  BY <1>1, <1>7 DEF Pull, Start, vars, server
<1>8. QED
  BY <1>1, <1>2, <1>3, <1>4, <1>5, <1>6, <1>7 DEF Next, Step, ApplySql

\* A command line is never exchanged under a run.
LEMMA OperationKept ==
    ASSUME Inductive, [Next]_vars, NEW r \in Runs, pc[r] # "idle"
    PROVE  op'[r] = op[r] /\ checkout'[r] = checkout[r] /\ pc'[r] # "idle"
<1>1. RunsTyped
  BY DEF Inductive, TypeOK, RunsTyped
<1>2. ASSUME NEW q \in Runs, Preserved(q) PROVE pc'[r] # "idle"
  BY <1>2 DEF Preserved, Moved
<1>3. ASSUME NEW q \in Runs, Step(q) PROVE UNCHANGED <<op, checkout>>
  <2>1. Bookkeep(q) => UNCHANGED <<op, checkout>>
    BY DEF Bookkeep, EnsureTracking, SeedMeta, CountRows, ImportRows, Recount
  <2>2. Plan(q) => UNCHANGED <<op, checkout>>
    BY DEF Plan, ResolveTargets, Finish, ReadApplied, PlanUpgrade, PlanRollbackTo,
           PlanRollbackOne, PlanRemoveTargeted, PlanStamp, PlanApply
  <2>3. ApplySql(q) \/ QueryFails(q) => UNCHANGED <<op, checkout>>
    BY DEF ApplySql, RecordStamp, Unrenderable, DryRun, RecordStarted, ExecuteStatement,
           StatementFails, DiscoveryFails, RecordFailure, RecordSuccess, QueryFails,
           Recorded, RecordFails
  <2>4. QED
    BY <1>3, <2>1, <2>2, <2>3 DEF Step
<1>4. ASSUME NEW q \in Runs, NEW o \in Operations, Start(q, o)
      PROVE  op'[r] = op[r] /\ checkout'[r] = checkout[r]
  BY <1>1, <1>4 DEF Start, RunsTyped
<1>5. ASSUME NEW q \in Runs, Crash(q) PROVE UNCHANGED <<op, checkout>>
  BY <1>5 DEF Crash
<1>6. CASE UNCHANGED <<pc, op, checkout, local>>
  BY <1>6
<1>7. QED
  BY <1>2, <1>3, <1>4, <1>5, <1>6, StepPreserves, CrashPreserves, StartPreserves
     DEF Next, Land, Pull, vars

-----------------------------------------------------------------------------
(* Write-ahead: a statement has its 'started' row, in every interleaving. *)

\* A run that executes has announced what it executes.
Announced ==
    /\ \A e \in executed \cup late : Rows(e, "started") # {}
    /\ \A r \in Runs : pc[r] \in Executing => Rows(Execution(r), "started") # {}

LEMMA RowsKept ==
    ASSUME rows \subseteq rows', NEW e, NEW status, Rows(e, status) # {}
    PROVE  Rows(e, status)' # {}
BY DEF Rows

LEMMA AnnouncedInit == Init => Announced
BY DEF Init, Announced, Executing

LEMMA AnnouncedNext == Inductive /\ Announced /\ [Next]_vars => Announced'
<1> SUFFICES ASSUME Inductive, Announced, [Next]_vars PROVE Announced'
  OBVIOUS
<1>1. rows \subseteq rows'
  BY NewRows
<1>2. ASSUME NEW e \in executed' \cup late' PROVE Rows(e, "started")' # {}
  <2>1. Rows(e, "started") # {}
    BY Touched DEF Announced, Executing
  <2>2. QED
    BY <1>1, <2>1, RowsKept
<1>3. ASSUME NEW r \in Runs, pc'[r] \in Executing
      PROVE  Rows(Execution(r), "started")' # {}
  <2>1. CASE \/ Held(r) /\ pc[r] \in Executing
             \/ ExecuteStatement(r)
             \/ StatementFails(r)
    <3>1. pc[r] \in Executing
      BY <2>1 DEF ExecuteStatement, StatementFails, Executing
    <3>2. op'[r] = op[r] /\ dbs'[r] = dbs[r] /\ todo'[r] = todo[r]
      BY <2>1 DEF Held, ExecuteStatement, StatementFails, Goto, local
    <3>3. /\ Execution(r)'.run = Execution(r).run /\ Execution(r)'.db = Execution(r).db
          /\ Execution(r)'.migration = Execution(r).migration
          /\ Execution(r)'.action = Execution(r).action
      BY <3>2 DEF Execution, Db, Current
    <3>4. Rows(Execution(r), "started") # {}
      BY <3>1 DEF Announced
    <3>5. QED
      BY <1>1, <3>3, <3>4 DEF Rows
  <2>2. CASE RecordStarted(r)
    <3>1. RunsTyped
      BY DEF Inductive, TypeOK, RunsTyped
    <3>2. ~ Stop(r, "server")
      BY <1>3, <3>1 DEF Stop, RunsTyped, Executing
    <3>3. Insert(r, "started") /\ UNCHANGED <<op, dbs, todo>>
      BY <2>2, <3>2 DEF RecordStarted, RecordFails, Recorded
    <3>4. \E at : [db |-> Db(r), migration |-> Current(r), action |-> ActionOf(op[r]),
                   status |-> "started", at |-> at, run |-> r] \in rows'
      BY <3>3 DEF Insert
    <3>5. Db(r)' = Db(r) /\ Current(r)' = Current(r) /\ ActionOf(op[r])' = ActionOf(op[r])
      BY <3>3 DEF Db, Current
    <3>6. QED
      BY <3>4, <3>5 DEF Rows, Execution
  <2>3. QED
    BY <1>3, <2>1, <2>2, Advance DEF Held
<1>4. QED
  BY <1>2, <1>3 DEF Announced

\* Every statement that ever reaches a server was announced by a 'started' row
\* of its run (execution.rs:169-178 before 185-244).
THEOREM WriteAheadHolds == Spec => []WriteAhead
<1>1. Announced => WriteAhead
  BY DEF Announced, WriteAhead
<1>2. QED
  BY <1>1, InductiveInvariant, AnnouncedInit, AnnouncedNext, PTL DEF Spec

-----------------------------------------------------------------------------
(* Success: the row is written after the last statement. *)

\* A run has executed every statement before the one it stands at.
Completed ==
    /\ SuccessIsComplete
    /\ \A r \in Runs : pc[r] \in {"execute", "success"} =>
          \A i \in 1..stmt[r] : i < stmt[r] \/ pc[r] = "success" =>
              [Execution(r) EXCEPT !.statement = i] \in executed

LEMMA CompletedInit == Init => Completed
BY DEF Init, Completed, SuccessIsComplete

LEMMA CompletedNext == Inductive /\ Completed /\ [Next]_vars => Completed'
<1> SUFFICES ASSUME Inductive, Completed, [Next]_vars PROVE Completed'
  OBVIOUS
<1>1. executed \subseteq executed'
  BY Touched
<1>2. RunsTyped /\ TypeOK /\ \A r \in Runs : Placed(r)
  BY DEF Inductive, TypeOK, RunsTyped
<1>3. ASSUME NEW r \in Runs, pc'[r] \in {"execute", "success"}, NEW i \in 1..stmt'[r],
             i < stmt'[r] \/ pc'[r] = "success"
      PROVE  [Execution(r)' EXCEPT !.statement = i] \in executed'
  <2>1. CASE Held(r)
    <3>1. [Execution(r) EXCEPT !.statement = i] \in executed
      BY <1>3, <2>1 DEF Completed, Held
    <3>2. Execution(r)' = Execution(r)
      BY <2>1 DEF Held, Execution, Db, Current
    <3>3. QED
      BY <1>1, <3>1, <3>2
  <2>2. CASE RecordStarted(r)
    <3>1. ~ Stop(r, "server")
      BY <1>2, <1>3 DEF Stop, RunsTyped
    <3>2. pc'[r] = "execute" /\ stmt'[r] = 1
      BY <1>2, <2>2, <3>1 DEF RecordStarted, RecordFails, RunsTyped
    <3>3. QED
      BY <1>3, <3>2
  <2>3. CASE ExecuteStatement(r)
    <3>1. /\ pc[r] = "execute" /\ executed' = executed \cup {Execution(r)}
          /\ UNCHANGED <<op, dbs, todo>>
      BY <2>3 DEF ExecuteStatement, Execute, Goto, local
    <3>2. [Execution(r)' EXCEPT !.statement = i] = [Execution(r) EXCEPT !.statement = i]
      BY <3>1 DEF Execution, Db, Current
    <3>3. stmt[r] \in Nat /\ i \in 1..stmt[r]
      <4>1. CASE stmt' = [stmt EXCEPT ![r] = @ + 1] /\ UNCHANGED pc
        BY <1>2, <1>3, <3>1, <4>1 DEF RunsTyped
      <4>2. CASE Goto(r, "success")
        BY <1>2, <1>3, <4>2 DEF Goto, local, RunsTyped
      <4>3. QED
        BY <2>3, <4>1, <4>2 DEF ExecuteStatement
    <3>4. CASE i = stmt[r]
      BY <3>1, <3>2, <3>4 DEF Execution
    <3>5. CASE i # stmt[r]
      <4>1. [Execution(r) EXCEPT !.statement = i] \in executed
        BY <3>1, <3>3, <3>5 DEF Completed
      <4>2. QED
        BY <1>1, <3>2, <4>1
    <3>6. QED
      BY <3>4, <3>5
  <2>4. CASE StatementFails(r)
    BY <1>2, <1>3, <2>4 DEF StatementFails, Goto, RunsTyped
  <2>5. QED
    BY <1>3, <2>1, <2>2, <2>3, <2>4, Advance DEF Executing
<1>4. ASSUME NEW row \in rows', row.status = "success", row.action # "stamp", row.run \in Runs,
             NEW i \in 1..Length[<<row.migration, Direction(row.action)>>]
      PROVE  [run |-> row.run, db |-> row.db, migration |-> row.migration,
              action |-> row.action, statement |-> i] \in executed'
  <2>1. CASE row \in rows
    BY <1>1, <1>4, <2>1 DEF Completed, SuccessIsComplete
  <2>2. CASE row \in AncestorRows
    BY <1>4, <2>2, ServerAssumption DEF Runs
  <2>3. CASE row \notin rows /\ row \notin AncestorRows
    <3>1. PICK r \in Runs :
            /\ row.run = r /\ row.db = Db(r) /\ row.migration = Current(r)
            /\ row.action = ActionOf(op[r])
            /\ op[r].kind = "stamp" \/ pc[r] = "success"
      BY <1>4, <2>3, NewRows
    <3>2. op[r].kind # "stamp"
      BY <1>4, <3>1, Zenon DEF ActionOf
    <3>3. pc[r] = "success" /\ stmt[r] = Length[File(r)]
      BY <1>2, <3>1, <3>2 DEF Placed
    <3>4. i \in 1..stmt[r]
      BY <3>1, <3>3 DEF File
    <3>5. [Execution(r) EXCEPT !.statement = i] \in executed
      BY <3>3, <3>4 DEF Completed
    <3>6. QED
      BY <1>1, <3>1, <3>5 DEF Execution
  <2>4. QED
    BY <2>1, <2>2, <2>3
<1>5. QED
  BY <1>3, <1>4 DEF Completed, SuccessIsComplete

\* A 'success' row means that its own run has executed the whole file, however
\* many runs interleave and whatever fails (execution.rs:185-254).
THEOREM SuccessIsCompleteHolds == Spec => []SuccessIsComplete
<1>1. Completed => SuccessIsComplete
  BY DEF Completed
<1>2. QED
  BY <1>1, InductiveInvariant, CompletedInit, CompletedNext, PTL DEF Spec

-----------------------------------------------------------------------------
(* Consent: no statement and no row without it. *)

\* What a run has written, it was allowed to write; and it is not idle.
Allowed ==
    \A e \in executed \cup late \cup {row \in rows : row.run \in Runs} :
        pc[e.run] # "idle" /\ Consented(op[e.run]) /\ ~op[e.run].dryRun

LEMMA AllowedInit == Init => Allowed
BY DEF Init, Allowed

LEMMA AllowedNext == Inductive /\ Allowed /\ [Next]_vars => Allowed'
<1> SUFFICES ASSUME Inductive, Allowed, [Next]_vars PROVE Allowed'
  OBVIOUS
<1>1. TypeOK /\ \A r \in Runs : Placed(r)
  BY DEF Inductive
<1>2. ASSUME NEW r \in Runs, pc[r] \in Applying
      PROVE  pc[r] # "idle" /\ Consented(op[r])
  <2>1. op[r] \in Operation /\ Entry(op[r], checkout[r]) = "ensure"
    BY <1>1, <1>2, OperationType DEF Placed, Applying, Waiting
  <2>2. QED
    BY <1>2, <2>1, Admitted DEF Applying
<1>3. ASSUME NEW r \in Runs, pc[r] # "idle", Consented(op[r]), ~op[r].dryRun
      PROVE  pc'[r] # "idle" /\ Consented(op[r])' /\ ~op'[r].dryRun
  BY <1>3, OperationKept DEF Consented
<1>4. ASSUME NEW e \in executed' \cup late'
      PROVE  e.run \in Runs /\ pc[e.run] # "idle" /\ Consented(op[e.run]) /\ ~op[e.run].dryRun
  <2>1. CASE e \in executed \cup late
    BY <1>1, <2>1 DEF Allowed, TypeOK, Statement
  <2>2. CASE \E r \in Runs : pc[r] = "execute" /\ e = Execution(r)
    BY <1>1, <1>2, <2>2 DEF Execution, Placed, Executing, Applying
  <2>3. QED
    BY <2>1, <2>2, Touched
<1>5. ASSUME NEW row \in rows', row.run \in Runs
      PROVE  pc[row.run] # "idle" /\ Consented(op[row.run]) /\ ~op[row.run].dryRun
  <2>1. CASE row \in rows
    BY <1>5, <2>1 DEF Allowed
  <2>2. CASE row \in AncestorRows
    BY <1>5, <2>2, ServerAssumption DEF Runs
  <2>3. CASE row \notin rows /\ row \notin AncestorRows
    BY <1>2, <2>3, NewRows
  <2>4. QED
    BY <2>1, <2>2, <2>3
<1>6. QED
  BY <1>3, <1>4, <1>5 DEF Allowed

\* Nothing is executed and nothing is recorded on behalf of a run without
\* consent, on a read-only connection, or under a dry run (targets.rs:40-49,
\* execution.rs:158-167).
THEOREM ConsentRequiredHolds == Spec => []ConsentRequired
<1>1. Allowed => ConsentRequired
  BY DEF Allowed, ConsentRequired, Consented
<1>2. QED
  BY <1>1, InductiveInvariant, AllowedInit, AllowedNext, PTL DEF Spec

-----------------------------------------------------------------------------
(***************************************************************************)
(* Whatever the walk, MigrationRunner executes only what the command line, *)
(* the exclusions, the allow lists and the gate let it: ExecutionsAllowed. *)
(*                                                                         *)
(* ExecutionsAllowed is not inductive: the code asks when it plans a       *)
(* database, or before the first one, and executes later.  Cleared says    *)
(* what a run has been asked by the time it stands where it does.          *)
(*                                                                         *)
(* However the walk ends, it leaves at most one migration begun and not    *)
(* completed: OneInDoubt, from DoubtKept, which says where that one can be *)
(* while the run still goes on.                                            *)
(***************************************************************************)

\* What a run may do to migration m of its current database
MayDo(r, m) ==
    /\ op[r].kind = "apply" => m = op[r].number /\ ~Barred(r)
    /\ op[r].kind = "rollback_to" =>
          m \in Fleet(checkout[r]) /\ Gate(m, op[r].ackIrreversible) = "pass"
    /\ op[r].kind = "rollback_one" => m = op[r].number

Cleared(r) ==
    /\ pc[r] \in Walking \cup {"database"} => ~Unconfirmed(r)
    /\ pc[r] \in Applying => \A m \in todo[r] : MayDo(r, m)

MayTouch(e) ==
    /\ e.db \in TargetDatabases(op[e.run])
    /\ e.action = "apply" => AllowList[e.migration] = {} \/ e.db \in AllowList[e.migration]
    /\ e.action = "rollback" /\ e.migration # 0 =>
          /\ Class[e.migration] # "none"
          /\ Class[e.migration] = "irreversible" => op[e.run].ackIrreversible
          /\ e.migration \in checkout[e.run].targeted => op[e.run].ackTargeted

\* Every run has been asked, and what was touched could be touched.
Vetted ==
    /\ \A r \in Runs : Cleared(r)
    /\ \A e \in executed \cup late : pc[e.run] # "idle" /\ MayTouch(e)

-----------------------------------------------------------------------------
(* What the control operators do to a run that has been asked. *)

\* A step that leaves the walk, or has not come to it
LEMMA AwayIsCleared ==
    ASSUME RunsTyped, NEW r \in Runs,
           \/ \E outcome \in Ended : Stop(r, outcome)
           \/ \E step \in Waiting \ (Walking \cup {"database"}) : Goto(r, step)
    PROVE  Cleared(r)'
<1>1. CASE \E outcome \in Ended : Stop(r, outcome)
  <2>1. pc'[r] \in Ended
    BY <1>1 DEF Stop, RunsTyped
  <2>2. QED
    BY <2>1 DEF Cleared, Ended, Walking, Applying
<1>2. CASE \E step \in Waiting \ (Walking \cup {"database"}) : Goto(r, step)
  <2>1. pc'[r] \notin Walking \cup {"database"}
    BY <1>2 DEF Goto, RunsTyped
  <2>2. QED
    BY <2>1 DEF Cleared, Walking, Applying
<1>3. QED
  BY <1>1, <1>2

\* A run that goes on to its next database has still been asked about --targeted.
LEMMA NextDatabaseIsCleared ==
    ASSUME RunsTyped, NEW r \in Runs, Cleared(r), pc[r] \in Walking \cup {"database"},
           NextDatabase(r), UNCHANGED <<op, checkout>>
    PROVE  Cleared(r)'
<1>1. pc'[r] = "database" /\ ~Unconfirmed(r)
  BY DEF RunsTyped, NextDatabase, Cleared
<1>2. QED
  BY <1>1 DEF Cleared, Unconfirmed, Applying

\* A walk over migrations the run may touch is cleared, and so is skipping it.
LEMMA WalkIsCleared ==
    ASSUME RunsTyped, NEW r \in Runs, Cleared(r), pc[r] \in Walking \cup {"database"},
           NEW migrations, \A m \in migrations : MayDo(r, m),
           Walk(r, migrations), UNCHANGED <<op, checkout>>
    PROVE  Cleared(r)'
<1>1. CASE migrations = {}
  BY <1>1, NextDatabaseIsCleared DEF Walk
<1>2. CASE migrations # {}
  <2>1. todo'[r] = migrations /\ UNCHANGED dbs /\ ~Unconfirmed(r)
    BY <1>2 DEF RunsTyped, Walk, Cleared
  <2>2. ASSUME NEW m \in todo'[r] PROVE MayDo(r, m)'
    BY <2>1, <2>2 DEF MayDo, Barred, Db
  <2>3. QED
    BY <2>1, <2>2 DEF Cleared, Unconfirmed
<1>3. QED
  BY <1>1, <1>2

\* A run stays at its migration, or begins to execute it.
LEMMA StayingIsCleared ==
    ASSUME NEW r \in Runs, Cleared(r), pc[r] \in Applying, UNCHANGED <<op, checkout, dbs, todo>>
    PROVE  Cleared(r)'
<1>1. ~Unconfirmed(r) /\ \A m \in todo[r] : MayDo(r, m)
  BY DEF Cleared, Applying, Walking
<1>2. ASSUME NEW m \in todo'[r] PROVE MayDo(r, m)'
  BY <1>1 DEF MayDo, Barred, Db
<1>3. QED
  BY <1>1, <1>2 DEF Cleared, Unconfirmed

-----------------------------------------------------------------------------
(* Every step of a run leaves it asked. *)

\* Planning a database asks about every migration it puts on the list.
LEMMA PlanIsCleared ==
    ASSUME Inductive, NEW r \in Runs, Cleared(r), Plan(r)
    PROVE  Cleared(r)'
<1>1. RunsTyped /\ {"ok", "refused", "repo"} \subseteq Ended
  BY DEF Inductive, TypeOK, RunsTyped, Ended
<1>2. UNCHANGED <<op, checkout>>
  BY DEF Plan, ResolveTargets, Finish, ReadApplied, PlanUpgrade, PlanRollbackTo,
         PlanRollbackOne, PlanRemoveTargeted, PlanStamp, PlanApply
<1>3. CASE ResolveTargets(r)
  <2>1. CASE \E outcome \in {"refused", "repo"} : Stop(r, outcome)
    BY <1>1, <2>1, AwayIsCleared
  <2>2. CASE ~Unconfirmed(r) /\ pc' = [pc EXCEPT ![r] = "database"]
    <3>1. pc'[r] = "database"
      BY <1>1, <2>2 DEF RunsTyped
    <3>2. QED
      BY <1>2, <2>2, <3>1 DEF Cleared, Unconfirmed, Applying
  <2>3. QED
    BY <1>3, <2>1, <2>2 DEF ResolveTargets
<1>4. CASE Finish(r)
  BY <1>1, <1>4, AwayIsCleared DEF Finish
<1>5. CASE ReadApplied(r)
  <2>1. pc'[r] = "customised" /\ ~Unconfirmed(r)
    BY <1>1, <1>5 DEF ReadApplied, AtDatabase, RunsTyped, Cleared
  <2>2. QED
    BY <1>2, <2>1 DEF Cleared, Unconfirmed, Applying
<1>6. CASE PlanUpgrade(r) \/ PlanStamp(r)
  <2>1. pc[r] \in Walking \cup {"database"} /\ op[r].kind \in {"upgrade", "stamp"}
    BY <1>6 DEF PlanUpgrade, PlanStamp, AtDatabase, Walking, Inductive, Placed
  <2>2. \A m : MayDo(r, m)
    BY <2>1 DEF MayDo
  <2>3. NextDatabase(r) \/ \E migrations : Walk(r, migrations)
    BY <1>6 DEF PlanUpgrade, PlanStamp
  <2>4. QED
    BY <1>1, <1>2, <2>1, <2>2, <2>3, NextDatabaseIsCleared, WalkIsCleared
<1>7. CASE PlanRollbackTo(r)
  <2> DEFINE walk == {m \in Applied(Db(r)) : m > op[r].number /\ m \in Fleet(checkout[r])}
             stopped == {m \in walk : Gate(m, op[r].ackIrreversible) # "pass"}
  <2>1. pc[r] = "database" /\ op[r].kind = "rollback_to"
    BY <1>7 DEF PlanRollbackTo, AtDatabase
  <2>2. CASE stopped = {} /\ Walk(r, walk)
    <3>1. \A m \in walk : MayDo(r, m)
      BY <2>1, <2>2 DEF MayDo
    <3>2. QED
      BY <1>1, <1>2, <2>1, <2>2, <3>1, WalkIsCleared
  <2>3. CASE Stop(r, Gate(Max(stopped), op[r].ackIrreversible))
    <3>1. Gate(Max(stopped), op[r].ackIrreversible) \in {"pass", "repo", "refused"}
      BY Zenon DEF Gate
    <3>2. pc'[r] \notin Walking \cup {"database"}
      BY <1>1, <2>3, <3>1 DEF Stop, RunsTyped, Walking
    <3>3. QED
      BY <3>2 DEF Cleared, Walking, Applying
  <2>4. QED
    BY <1>7, <2>2, <2>3, Zenon DEF PlanRollbackTo
<1>8. CASE PlanRollbackOne(r) \/ PlanRemoveTargeted(r)
  <2>1. pc[r] \in Walking \cup {"database"} /\ op[r].kind = "rollback_one"
    BY <1>8 DEF PlanRollbackOne, PlanRemoveTargeted, AtDatabase
  <2>2. MayDo(r, op[r].number)
    BY <2>1 DEF MayDo
  <2>3. \/ NextDatabase(r) \/ Stop(r, "refused")
        \/ \E migrations \in SUBSET {op[r].number} : Walk(r, migrations)
    BY <1>8 DEF PlanRollbackOne, PlanRemoveTargeted
  <2>4. QED
    BY <1>1, <1>2, <2>1, <2>2, <2>3, AwayIsCleared, NextDatabaseIsCleared, WalkIsCleared
<1>9. CASE PlanApply(r)
  <2>1. pc[r] \in Walking \cup {"database"} /\ op[r].kind = "apply"
    BY <1>9 DEF PlanApply, AtDatabase
  <2>2. CASE Stop(r, "refused")
    BY <1>1, <2>2, AwayIsCleared
  <2>3. CASE ~Barred(r) /\ Walk(r, {op[r].number} \ Customised(Db(r)))
    <3>1. \A m \in {op[r].number} \ Customised(Db(r)) : MayDo(r, m)
      BY <2>1, <2>3 DEF MayDo
    <3>2. QED
      BY <1>1, <1>2, <2>1, <2>3, <3>1, WalkIsCleared
  <2>4. QED
    BY <1>9, <2>2, <2>3 DEF PlanApply
<1>10. QED
  BY <1>3, <1>4, <1>5, <1>6, <1>7, <1>8, <1>9 DEF Plan

\* Inside apply_sql a run stays where it has been asked to be, or ends.
LEMMA ApplySqlIsCleared ==
    ASSUME Inductive, NEW r \in Runs, Cleared(r), ApplySql(r)
    PROVE  Cleared(r)'
<1>1. RunsTyped /\ {"repo", "server"} \subseteq Ended
  BY DEF Inductive, TypeOK, RunsTyped, Ended
<1>2. UNCHANGED <<op, checkout>> /\ pc[r] \in Applying
  BY DEF ApplySql, RecordStamp, Unrenderable, DryRun, RecordStarted, ExecuteStatement,
         StatementFails, DiscoveryFails, RecordFailure, RecordSuccess, Recorded, RecordFails,
         AtMigration, Applying
<1>3. \/ \E outcome \in Ended : Stop(r, outcome)
      \/ NextMigration(r)
      \/ UNCHANGED <<dbs, todo>>
  BY <1>1 DEF ApplySql, RecordStamp, Unrenderable, DryRun, RecordStarted, ExecuteStatement,
         StatementFails, DiscoveryFails, RecordFailure, RecordSuccess, RecordFails, Goto, local
<1>4. CASE NextMigration(r)
  <2>1. \A m \in todo[r] \ {Current(r)} : MayDo(r, m)
    BY <1>2 DEF Cleared
  <2>2. pc[r] \in Walking \cup {"database"}
    BY <1>2 DEF Applying, Walking
  <2>3. QED
    BY <1>1, <1>2, <1>4, <2>1, <2>2, WalkIsCleared DEF NextMigration
<1>5. QED
  BY <1>1, <1>2, <1>3, <1>4, AwayIsCleared, StayingIsCleared

\* Whatever a run does next, it has been asked first.
LEMMA StepIsCleared ==
    ASSUME Inductive, NEW r \in Runs, Cleared(r), Step(r)
    PROVE  Cleared(r)'
<1>1. /\ RunsTyped /\ {"ok", "refused", "server"} \subseteq Ended
      /\ {"seed", "count", "import", "recount", "resolve"}
           \subseteq Waiting \ (Walking \cup {"database"})
  BY DEF Inductive, TypeOK, RunsTyped, Ended, Waiting, Walking
<1>2. CASE Bookkeep(r) \/ QueryFails(r)
  <2>1. \/ \E outcome \in Ended : Stop(r, outcome)
        \/ \E step \in Waiting \ (Walking \cup {"database"}) : Goto(r, step)
    BY <1>1, <1>2 DEF Bookkeep, EnsureTracking, SeedMeta, CountRows, ImportRows, Recount, Ready,
                      QueryFails
  <2>2. QED
    BY <1>1, <2>1, AwayIsCleared
<1>3. QED
  BY <1>2, PlanIsCleared, ApplySqlIsCleared DEF Step

\* A step of another run changes nothing of this one.
LEMMA OthersCleared ==
    ASSUME NEW q \in Runs, Moved(q), NEW r \in Runs \ {q}, Cleared(r)
    PROVE  Cleared(r)'
<1>1. /\ pc'[r] = pc[r] /\ op'[r] = op[r] /\ checkout'[r] = checkout[r]
      /\ dbs'[r] = dbs[r] /\ todo'[r] = todo[r]
  BY DEF Moved
<1>2. ASSUME NEW m PROVE MayDo(r, m)' <=> MayDo(r, m)
  BY <1>1 DEF MayDo, Barred, Db
<1>3. Unconfirmed(r)' <=> Unconfirmed(r)
  BY <1>1 DEF Unconfirmed
<1>4. QED
  BY <1>1, <1>2, <1>3 DEF Cleared

\* No other run, and nothing that happens to the checkout, changes what a run
\* has been asked.
LEMMA ClearedNext ==
    ASSUME Inductive, \A r \in Runs : Cleared(r), [Next]_vars, NEW r \in Runs
    PROVE  Cleared(r)'
<1>1. RunsTyped /\ "crashed" \in Ended
  BY DEF Inductive, TypeOK, RunsTyped, Ended
<1>2. ASSUME NEW q \in Runs, Preserved(q), q = r => Cleared(r)' PROVE Cleared(r)'
  BY <1>2, OthersCleared DEF Preserved
<1>3. ASSUME NEW q \in Runs, Step(q) PROVE Cleared(r)'
  BY <1>2, <1>3, StepPreserves, StepIsCleared
<1>4. ASSUME NEW q \in Runs, Crash(q) PROVE Cleared(r)'
  BY <1>1, <1>2, <1>4, CrashPreserves, AwayIsCleared DEF Crash
<1>5. ASSUME NEW q \in Runs, NEW o \in Operations, Start(q, o) PROVE Cleared(r)'
  <2>1. pc'[q] \notin Walking \cup {"database"}
    <3>1. Entry(o, repo) \notin Walking \cup {"database"} /\ "ensure" \notin Walking \cup {"database"}
      BY Zenon DEF Entry, Gate, Walking
    <3>2. QED
      BY <1>1, <1>5, <3>1 DEF Start, Goto, Stop, RunsTyped
  <2>2. q = r => Cleared(r)'
    BY <2>1 DEF Cleared, Walking, Applying
  <2>3. QED
    BY <1>2, <1>5, <2>2, StartPreserves
<1>6. CASE UNCHANGED <<pc, op, checkout, local>>
  <2>1. ASSUME NEW m PROVE MayDo(r, m)' <=> MayDo(r, m)
    BY <1>6 DEF MayDo, Barred, Db, local
  <2>2. QED
    BY <1>6, <2>1 DEF Cleared, Unconfirmed, local
<1>7. QED
  BY <1>3, <1>4, <1>5, <1>6 DEF Next, Land, Pull, vars

-----------------------------------------------------------------------------
(* What a cleared run executes, it may execute. *)

\* What the gate means for a migration it lets pass
LEMMA PassedGate ==
    ASSUME NEW m, NEW acknowledged, Gate(m, acknowledged) = "pass", m # 0
    PROVE  Class[m] # "none" /\ (Class[m] = "irreversible" => acknowledged)
BY Zenon DEF Gate

\* rollback_one has asked the gate before anything else.
LEMMA AdmittedByGate ==
    ASSUME NEW o \in Operation, NEW v, o.kind = "rollback_one", Entry(o, v) = "ensure"
    PROVE  Gate(o.number, o.ackIrreversible) = "pass"
<1>1. Consented(o)
  BY Admitted
<1>2. SUFFICES ASSUME Gate(o.number, o.ackIrreversible) # "pass" PROVE FALSE
  OBVIOUS
<1>3. Gate(o.number, o.ackIrreversible) \in {"repo", "refused"}
  BY <1>2, Zenon DEF Gate
<1>4. Entry(o, v) = IF o.number \notin v.chain THEN "repo" ELSE Gate(o.number, o.ackIrreversible)
  BY <1>1, <1>2 DEF Entry
<1>5. QED
  BY <1>3, <1>4

\* The next statement of a cleared run is one it may execute.
LEMMA ExecutionMayTouch ==
    ASSUME Inductive, NEW r \in Runs, Cleared(r), pc[r] = "execute"
    PROVE  MayTouch(Execution(r))
<1>1. TypeOK /\ Placed(r) /\ dbs[r] # {} /\ todo[r] # {} /\ Entry(op[r], checkout[r]) = "ensure"
  BY DEF Inductive, Placed, Walking, Applying, Waiting
<1>2. Db(r) \in TargetDatabases(op[r]) /\ Current(r) \in todo[r]
  BY <1>1, DbType, CurrentType
<1>3. MayDo(r, Current(r)) /\ ~Unconfirmed(r)
  BY <1>2 DEF Cleared, Applying, Walking
<1>4. /\ Execution(r).run = r /\ Execution(r).db = Db(r)
      /\ Execution(r).migration = Current(r) /\ Execution(r).action = ActionOf(op[r])
  BY DEF Execution
<1>5. CASE ActionOf(op[r]) = "apply"
  <2>1. op[r].kind = "apply"
    BY <1>5, Zenon DEF ActionOf
  <2>2. AllowList[Current(r)] = {} \/ Db(r) \in AllowList[Current(r)]
    BY <1>3, <2>1 DEF MayDo, Barred
  <2>3. QED
    BY <1>2, <1>4, <1>5, <2>2 DEF MayTouch
<1>6. CASE ActionOf(op[r]) = "rollback"
  <2> DEFINE m == Current(r)
  <2>1. op[r].kind \in {"rollback_to", "rollback_one"}
    BY <1>6, Zenon DEF ActionOf
  <2>2. Gate(m, op[r].ackIrreversible) = "pass"
    <3>1. CASE op[r].kind = "rollback_to"
      BY <1>3, <3>1 DEF MayDo
    <3>2. CASE op[r].kind = "rollback_one"
      <4>1. Gate(op[r].number, op[r].ackIrreversible) = "pass"
        BY <1>1, <3>2, OperationType, AdmittedByGate
      <4>2. QED
        BY <1>3, <3>2, <4>1 DEF MayDo
    <3>3. QED
      BY <2>1, <3>1, <3>2
  <2>3. m \in checkout[r].targeted => op[r].ackTargeted
    <3>1. CASE op[r].kind = "rollback_to"
      BY <1>3, <3>1 DEF MayDo, Fleet
    <3>2. CASE op[r].kind = "rollback_one"
      BY <1>3, <3>2 DEF MayDo, Unconfirmed, RemovesTargeted
    <3>3. QED
      BY <2>1, <3>1, <3>2
  <2>4. QED
    BY <1>2, <1>4, <1>6, <2>2, <2>3, PassedGate DEF MayTouch
<1>7. CASE ActionOf(op[r]) \notin {"apply", "rollback"}
  BY <1>2, <1>4, <1>7 DEF MayTouch
<1>8. QED
  BY <1>5, <1>6, <1>7

-----------------------------------------------------------------------------
(* The whole system. *)

\* At the start nobody walks and nothing has been executed.
LEMMA VettedInit == Init => Vetted
<1> SUFFICES ASSUME Init PROVE Vetted
  OBVIOUS
<1>1. ASSUME NEW r \in Runs PROVE Cleared(r)
  BY DEF Init, Cleared, Walking, Applying
<1>2. QED
  BY <1>1 DEF Init, Vetted

\* Every step keeps the runs cleared and the touched databases allowed.
LEMMA VettedNext == Inductive /\ Vetted /\ [Next]_vars => Vetted'
<1> SUFFICES ASSUME Inductive, Vetted, [Next]_vars PROVE Vetted'
  OBVIOUS
<1>1. ASSUME NEW r \in Runs PROVE Cleared(r)'
  BY ClearedNext DEF Vetted
<1>2. ASSUME NEW e \in executed' \cup late' PROVE (pc[e.run] # "idle" /\ MayTouch(e))'
  <2>1. e.run \in Runs /\ pc[e.run] # "idle" /\ MayTouch(e)
    <3>1. CASE e \in executed \cup late
      BY <3>1 DEF Vetted, Inductive, TypeOK, Statement
    <3>2. CASE \E r \in Runs : pc[r] = "execute" /\ e = Execution(r)
      BY <3>2, ExecutionMayTouch DEF Vetted, Execution
    <3>3. QED
      BY <3>1, <3>2, Touched
  <2>2. op'[e.run] = op[e.run] /\ checkout'[e.run] = checkout[e.run] /\ pc'[e.run] # "idle"
    BY <2>1, OperationKept
  <2>3. QED
    BY <2>1, <2>2 DEF MayTouch
<1>3. QED
  BY <1>1, <1>2 DEF Vetted

\* A target is listed, and not excluded under --all.
LEMMA TargetIsListed ==
    ASSUME NEW o \in Operation, NEW d \in TargetDatabases(o)
    PROVE  d \in ToSet(Listed(o.targets)) /\ (o.targets.by = "all" => d \notin Excluded)
<1>1. PICK i \in Positions(o.targets) : d = Listed(o.targets)[i]
  BY DEF TargetDatabases
<1>2. i \in DOMAIN Listed(o.targets) /\ (o.targets.by = "all" => d \notin Excluded)
  BY <1>1 DEF Positions
<1>3. QED
  BY <1>1, <1>2 DEF ToSet

\* No database outside the targets is touched, none that --all excludes, none
\* outside an allow list, and no rollback the gate refuses or --targeted was
\* not given for (targets.rs:69-146, actions.rs:48-71, 115-136, 153-163,
\* 341-345), however runs interleave, fail and land late.
THEOREM ExecutionsAllowedHolds == Spec => []ExecutionsAllowed
<1>1. Inductive /\ Vetted => ExecutionsAllowed
  <2> SUFFICES ASSUME Inductive, Vetted, NEW e \in executed
               PROVE  /\ e.db \in ToSet(Listed(op[e.run].targets))
                      /\ op[e.run].targets.by = "all" => e.db \notin Excluded
                      /\ MayTouch(e)
    BY DEF ExecutionsAllowed, TargetsRespected, GateRespected, MayTouch
  <2>1. MayTouch(e) /\ e.run \in Runs
    BY DEF Vetted, Inductive, TypeOK, Statement
  <2>2. op[e.run] \in Operation
    BY <2>1, OperationType DEF Inductive
  <2>3. QED
    BY <2>1, <2>2, TargetIsListed DEF MayTouch
<1>2. QED
  BY <1>1, InductiveInvariant, VettedInit, VettedNext, PTL DEF Spec
-----------------------------------------------------------------------------
(* One in doubt: a run that does not execute leaves nothing unfinished, and  *)
(* one that does leaves only what it executes.  When a run has ended, nothing *)
(* of its own is added any more.                                             *)

DoubtKept(r) ==
    /\ \A a, b \in Unfinished(r) : a.db = b.db /\ a.migration = b.migration
    /\ pc[r] \in Executing =>
          \A a \in Unfinished(r) :
              a.db = Db(r) /\ a.migration = Current(r) /\ a.action = ActionOf(op[r])
    /\ pc[r] \notin Executing \cup Ended => Unfinished(r) = {}

\* Only a new 'started' row of the run is new doubt.
LEMMA NoNewDoubt ==
    ASSUME NEW r \in Runs, rows \subseteq rows',
           \A row \in rows' \ rows : row.run # r \/ row.status # "started"
    PROVE  Unfinished(r)' \subseteq Unfinished(r)
BY DEF Unfinished, Rows

\* A step that adds no doubt keeps the run's promise when it clears the doubt,
\* ends the run, or leaves it executing the same migration.
LEMMA DoubtStays ==
    ASSUME NEW r \in Runs, DoubtKept(r), Unfinished(r)' \subseteq Unfinished(r),
           \/ Unfinished(r)' = {}
           \/ pc'[r] \in Ended
           \/ /\ pc'[r] = pc[r] \/ {pc[r], pc'[r]} \subseteq Executing
              /\ op'[r] = op[r] /\ dbs'[r] = dbs[r] /\ todo'[r] = todo[r]
    PROVE  DoubtKept(r)'
<1>1. CASE Unfinished(r)' = {}
  BY <1>1 DEF DoubtKept
<1>2. CASE pc'[r] \in Ended
  BY <1>2 DEF DoubtKept, Ended, Executing
<1>3. CASE /\ pc'[r] = pc[r] \/ {pc[r], pc'[r]} \subseteq Executing
           /\ op'[r] = op[r] /\ dbs'[r] = dbs[r] /\ todo'[r] = todo[r]
  <2>1. Db(r)' = Db(r) /\ Current(r)' = Current(r) /\ ActionOf(op[r])' = ActionOf(op[r])
    BY <1>3 DEF Db, Current
  <2>2. QED
    BY <1>3, <2>1 DEF DoubtKept
<1>4. QED
  BY <1>1, <1>2, <1>3

\* The row apply_sql writes for the current migration of a run
LEMMA InsertedRow ==
    ASSUME NEW r \in Runs, NEW status, Insert(r, status)
    PROVE  \E row : /\ rows' = rows \cup {row} /\ row.run = r /\ row.status = status
                    /\ row.db = Db(r) /\ row.migration = Current(r) /\ row.action = ActionOf(op[r])
<1>1. PICK step \in ClockSteps :
         rows' = rows \cup {[db |-> Db(r), migration |-> Current(r), action |-> ActionOf(op[r]),
                             status |-> status, at |-> clock + step, run |-> r]}
  BY DEF Insert
<1>2. WITNESS [db |-> Db(r), migration |-> Current(r), action |-> ActionOf(op[r]),
               status |-> status, at |-> clock + step, run |-> r]
<1>3. QED
  BY <1>1, Zenon

\* A row of another status removes doubt, if any.
LEMMA OtherRow ==
    ASSUME NEW r \in Runs, NEW status, status # "started", Insert(r, status) \/ UNCHANGED rows
    PROVE  Unfinished(r)' \subseteq Unfinished(r)
<1>1. rows \subseteq rows' /\ \A row \in rows' \ rows : row.status # "started"
  BY InsertedRow
<1>2. QED
  BY <1>1, NoNewDoubt

\* A run without doubt that writes a 'started' row doubts just that migration.
LEMMA RecordStartedDoubt ==
    ASSUME RunsTyped, NEW r \in Runs, DoubtKept(r), RecordStarted(r)
    PROVE  DoubtKept(r)'
<1>1. pc[r] = "migration" /\ Unfinished(r) = {} /\ UNCHANGED op
  BY DEF RecordStarted, AtMigration, DoubtKept, Executing, Ended, Recorded, RecordFails
<1>2. \A a \in Unfinished(r)' :
         a.db = Db(r) /\ a.migration = Current(r) /\ a.action = ActionOf(op[r])
  <2>1. \/ UNCHANGED rows
        \/ \E row : /\ rows' = rows \cup {row}
                    /\ row.db = Db(r) /\ row.migration = Current(r)
                    /\ row.action = ActionOf(op[r])
    BY InsertedRow DEF RecordStarted, Recorded, RecordFails
  <2>2. QED
    BY <1>1, <2>1 DEF Unfinished, Rows
<1>3. CASE pc'[r] = "execute" /\ UNCHANGED <<dbs, todo>>
  <2>1. Db(r)' = Db(r) /\ Current(r)' = Current(r) /\ ActionOf(op[r])' = ActionOf(op[r])
    BY <1>1, <1>3 DEF Db, Current
  <2>2. QED
    BY <1>2, <1>3, <2>1 DEF DoubtKept, Executing
<1>4. CASE Stop(r, "server")
  <2>1. pc'[r] \in Ended
    BY <1>4 DEF Stop, RunsTyped, Ended
  <2>2. QED
    BY <1>2, <2>1 DEF DoubtKept, Executing, Ended
<1>5. QED
  BY <1>3, <1>4 DEF RecordStarted, RecordFails, RunsTyped

\* A success row is of what its run executes, so that nothing stays in doubt.
LEMMA RecordSuccessDoubt ==
    ASSUME RunsTyped, NEW r \in Runs, DoubtKept(r), RecordSuccess(r)
    PROVE  DoubtKept(r)'
<1>1. pc[r] \in Executing
  BY DEF RecordSuccess, Executing
<1>2. CASE Insert(r, "success")
  <2>1. PICK row : /\ rows' = rows \cup {row} /\ row.run = r /\ row.status = "success"
                   /\ row.db = Db(r) /\ row.migration = Current(r) /\ row.action = ActionOf(op[r])
    BY <1>2, InsertedRow
  <2>2. \A a \in Unfinished(r) : row \in Rows(a, "success")'
    BY <1>1, <2>1 DEF DoubtKept, Unfinished, Rows
  <2>3. Unfinished(r)' \subseteq Unfinished(r)
    BY <1>2, OtherRow
  <2>4. Unfinished(r)' = {}
    BY <2>2, <2>3 DEF Unfinished
  <2>5. QED
    BY <2>3, <2>4, DoubtStays
<1>3. CASE UNCHANGED rows /\ Stop(r, "server")
  <2>1. Unfinished(r)' \subseteq Unfinished(r)
    BY <1>3, OtherRow
  <2>2. pc'[r] \in Ended
    BY <1>3 DEF Stop, RunsTyped, Ended
  <2>3. QED
    BY <2>1, <2>2, DoubtStays
<1>4. QED
  BY <1>2, <1>3 DEF RecordSuccess, Recorded, RecordFails

\* One step of the run itself
LEMMA StepDoubt ==
    ASSUME Inductive, NEW r \in Runs, DoubtKept(r), Step(r)
    PROVE  DoubtKept(r)'
<1>1. RunsTyped /\ "server" \in Ended
  BY DEF Inductive, TypeOK, RunsTyped, Ended
<1>2. CASE Bookkeep(r) \/ Plan(r) \/ QueryFails(r)
  <2>1. pc[r] \notin Executing \cup Ended
    BY <1>2, Zenon DEF Bookkeep, Plan, QueryFails, EnsureTracking, SeedMeta, CountRows, ImportRows, Recount,
              ResolveTargets, Finish, ReadApplied, PlanUpgrade, PlanRollbackTo, PlanRollbackOne,
              PlanRemoveTargeted, PlanStamp, PlanApply, AtDatabase, Querying, Executing, Ended
  <2>2. rows' = rows \/ rows' = rows \cup AncestorRows
    BY <1>2 DEF Bookkeep, Plan, QueryFails, EnsureTracking, SeedMeta, CountRows, ImportRows, Recount,
              ResolveTargets, Finish, ReadApplied, PlanUpgrade, PlanRollbackTo, PlanRollbackOne,
              PlanRemoveTargeted, PlanStamp, PlanApply, server
  <2>3. Unfinished(r)' \subseteq Unfinished(r)
    <3>1. \A row \in AncestorRows : row.run # r
      BY ServerAssumption DEF Runs
    <3>2. rows \subseteq rows' /\ \A row \in rows' \ rows : row.run # r
      BY <2>2, <3>1
    <3>3. QED
      BY <3>2, NoNewDoubt
  <2>4. QED
    BY <2>1, <2>3, DoubtStays DEF DoubtKept
<1>3. CASE RecordStamp(r)
  <2>1. pc[r] \notin Executing \cup Ended
    BY <1>3 DEF RecordStamp, Executing, Ended
  <2>2. Unfinished(r)' \subseteq Unfinished(r)
    BY <1>3, OtherRow DEF RecordStamp, Recorded, RecordFails
  <2>3. QED
    BY <2>1, <2>2, DoubtStays DEF DoubtKept
<1>4. CASE Unrenderable(r) \/ DryRun(r)
  <2>1. pc[r] \notin Executing \cup Ended /\ UNCHANGED rows
    BY <1>4 DEF Unrenderable, DryRun, AtMigration, Executing, Ended, server
  <2>2. Unfinished(r)' \subseteq Unfinished(r)
    BY <2>1, NoNewDoubt
  <2>3. QED
    BY <2>1, <2>2, DoubtStays DEF DoubtKept
<1>5. CASE ExecuteStatement(r) \/ StatementFails(r)
  <2>1. pc[r] \in Executing /\ UNCHANGED <<rows, op, dbs, todo>>
    BY <1>5 DEF ExecuteStatement, StatementFails, Goto, local, Executing
  <2>2. pc'[r] \in Executing
    BY <1>1, <1>5, <2>1 DEF ExecuteStatement, StatementFails, Goto, Executing, RunsTyped
  <2>3. Unfinished(r)' \subseteq Unfinished(r)
    BY <2>1, NoNewDoubt
  <2>4. QED
    BY <2>1, <2>2, <2>3, DoubtStays
<1>6. CASE DiscoveryFails(r) \/ RecordFailure(r)
  <2>1. Stop(r, "server") /\ (Insert(r, "failed") \/ UNCHANGED rows)
    BY <1>6 DEF DiscoveryFails, RecordFailure, Recorded, RecordFails, server
  <2>2. pc'[r] \in Ended
    BY <1>1, <2>1 DEF Stop, RunsTyped
  <2>3. QED
    BY <2>1, <2>2, OtherRow, DoubtStays
<1>7. QED
  BY <1>1, <1>2, <1>3, <1>4, <1>5, <1>6, RecordStartedDoubt, RecordSuccessDoubt DEF Step, ApplySql

\* A step of another run adds nothing to this one's doubt.
LEMMA OthersDoubt ==
    ASSUME Inductive, [Next]_vars, NEW q \in Runs, Moved(q), NEW r \in Runs \ {q}, DoubtKept(r),
           Step(q) \/ Crash(q) \/ \E o \in Operations : Start(q, o)
    PROVE  DoubtKept(r)'
<1>1. rows \subseteq rows' /\ \A row \in rows' \ rows : row.run # r
  <2>1. CASE Step(q)
    <3>1. \/ rows' = rows
          \/ rows' = rows \cup AncestorRows
          \/ \E status \in Statuses : Insert(q, status)
      BY <2>1 DEF Step, Bookkeep, Plan, ApplySql, QueryFails, EnsureTracking, SeedMeta, CountRows,
                  ImportRows, Recount, ResolveTargets, Finish, ReadApplied, PlanUpgrade,
                  PlanRollbackTo, PlanRollbackOne, PlanRemoveTargeted, PlanStamp, PlanApply,
                  RecordStamp, Unrenderable, DryRun, RecordStarted, ExecuteStatement,
                  StatementFails, DiscoveryFails, RecordFailure, RecordSuccess, Recorded,
                  RecordFails, server, Statuses
    <3>2. QED
      BY <3>1, InsertedRow, ServerAssumption DEF Runs
  <2>2. CASE Crash(q) \/ \E o \in Operations : Start(q, o)
    BY <2>2 DEF Crash, Start, server
  <2>3. QED
    BY <2>1, <2>2
<1>2. Unfinished(r)' \subseteq Unfinished(r)
  BY <1>1, NoNewDoubt
<1>3. pc'[r] = pc[r] /\ op'[r] = op[r] /\ dbs'[r] = dbs[r] /\ todo'[r] = todo[r]
  BY DEF Moved
<1>4. QED
  BY <1>2, <1>3, DoubtStays

\* Nobody has begun.
LEMMA DoubtInit == Init => \A r \in Runs : DoubtKept(r)
BY DEF Init, DoubtKept, Unfinished, Executing

\* Any step of the system
LEMMA DoubtNext ==
    ASSUME Inductive, \A r \in Runs : DoubtKept(r), [Next]_vars, NEW r \in Runs
    PROVE  DoubtKept(r)'
<1>1. RunsTyped /\ "crashed" \in Ended
  BY DEF Inductive, TypeOK, RunsTyped, Ended
<1>2. ASSUME NEW q \in Runs, Step(q) PROVE DoubtKept(r)'
  BY <1>2, StepPreserves, StepDoubt, OthersDoubt DEF Preserved
<1>3. ASSUME NEW q \in Runs, Crash(q) PROVE DoubtKept(r)'
  <2>1. CASE q = r
    <3>1. pc'[r] \in Ended /\ UNCHANGED rows
      BY <1>1, <1>3, <2>1 DEF Crash, Stop, RunsTyped
    <3>2. QED
      BY <3>1, NoNewDoubt, DoubtStays
  <2>2. QED
    BY <1>3, <2>1, CrashPreserves, OthersDoubt DEF Preserved
<1>4. ASSUME NEW q \in Runs, NEW o \in Operations, Start(q, o) PROVE DoubtKept(r)'
  <2>1. CASE q = r
    <3>1. Unfinished(r) = {} /\ UNCHANGED rows
      BY <1>4, <2>1 DEF Start, server, DoubtKept, Executing, Ended
    <3>2. QED
      BY <3>1, NoNewDoubt, DoubtStays
  <2>2. QED
    BY <1>4, <2>1, StartPreserves, OthersDoubt DEF Preserved
<1>5. CASE UNCHANGED <<rows, pc, op, checkout, local>>
  BY <1>5, NoNewDoubt, DoubtStays DEF local
<1>6. QED
  BY <1>2, <1>3, <1>4, <1>5 DEF Next, Land, Pull, vars, server

\* However a run is cut short, and however many run at once, it leaves at most
\* one migration of one database begun and not completed (the `?` after every
\* apply_sql, actions.rs:37-42, 131-133).
THEOREM OneInDoubtHolds == Spec => []OneInDoubt
<1>1. (\A r \in Runs : DoubtKept(r)) => OneInDoubt
  BY DEF DoubtKept, OneInDoubt
<1>2. Inductive /\ (\A r \in Runs : DoubtKept(r)) /\ [Next]_vars => (\A r \in Runs : DoubtKept(r))'
  BY DoubtNext
<1>3. QED
  BY <1>1, <1>2, InductiveInvariant, DoubtInit, PTL DEF Spec
-----------------------------------------------------------------------------
(***************************************************************************)
(* One operator at a time: the tracking table tells the truth              *)
(* (NewestRowIsTrue), a run that returns Ok has done what it was asked     *)
(* (OkMeansReached), and the fleet moves as a ChainLedger (LedgerSpec).    *)
(*                                                                         *)
(* With a single run alive and a clock that moves between two inserts, a   *)
(* new row is later than every other, so that what a run has read about    *)
(* its database is still so when it writes.                                *)
(***************************************************************************)


\* One operator at a time: the next run starts when the last one has ended,
\* and no two rows get the same recorded_at.
SingleOperator == MaxActive = 1 /\ 0 \notin ClockSteps

\* A statement a run has lost does not take effect behind its back.
NoLateStatements == "late" \notin Faults

\* The fleet is worked on with one checkout, and has no legacy rows to import.
OneCheckout == AncestorRows = {} /\ \A v, w \in RepoVersions : v = w

\* At most one run is alive.
Solo == \A q, r \in Runs : Active(q) /\ Active(r) => q = r

\* No row is newer than the clock.
Timely == \A row \in rows : row.at <= clock

Calm == Inductive /\ Solo /\ Timely

-----------------------------------------------------------------------------
(* What the rows say of the migration a run executes. *)

Begun(r) ==
    /\ pc[r] \in Executing => /\ Newest(Db(r), Current(r)) # {}
                              /\ \A row \in Newest(Db(r), Current(r)) : row.status = "started"
    /\ pc[r] = "success" =>
          schema[Db(r)][Current(r)] = IF ActionOf(op[r]) = "rollback" THEN "absent" ELSE "present"
    /\ pc[r] = "import" => rows = {}

Truthful == late = {} /\ NewestRowIsTrue /\ \A r \in Runs : Begun(r)

-----------------------------------------------------------------------------
(* What is left to do of the operation of a run. *)

At(r, i) == Listed(op[r].targets)[i]

\* Of operation o, read in checkout v, on database d
Missing(o, v, d) ==
    CASE o.kind = "upgrade" ->
            {m \in Fleet(v) : (o.bounded => m <= o.number) /\ m \notin Applied(d) \cup Customised(d)}
      [] o.kind = "rollback_to" -> {m \in Applied(d) \cap Fleet(v) : m > o.number}
      [] o.kind = "stamp" -> {m \in Fleet(v) : m <= o.number /\ m \notin Applied(d)}
      [] o.kind = "apply" -> {o.number} \ Customised(d)
      [] o.kind = "rollback_one" ->
            {o.number} \cap (IF RemovesTargeted(o, v) THEN Customised(d) ELSE Applied(d))
      [] OTHER -> {}

\* On position i of the target list of run r
Gap(r, i) == Missing(op[r], checkout[r], At(r, i))

Topmost(r, i) ==
    op[r].kind = "rollback_one" /\ ~RemovesTargeted(op[r], checkout[r]) =>
        \A m \in Applied(At(r, i)) : m <= op[r].number

\* What a run has read is still so, its work list is what is missing, and
\* nothing is missing of the databases behind it.
Progress(r) ==
    ~op[r].dryRun =>
        /\ pc[r] = "customised" => \A i \in {Min(dbs[r])} : seen[r] = Applied(At(r, i))
        /\ pc[r] \in Applying => \A i \in {Min(dbs[r])} : todo[r] = Gap(r, i) /\ Topmost(r, i)
        /\ pc[r] \in Walking \cup {"database"} =>
              \A i \in Positions(op[r].targets) \ dbs[r] : Gap(r, i) = {}
        /\ pc[r] \in {"count", "import", "recount"} => op[r].kind = "import"

\* Tracking rows keep the fleet chain and the customisations apart.
Sorted ==
    \A row \in rows : /\ row.action \in {"upgrade", "stamp"} => row.migration \in FleetChain
                      /\ row.action = "apply" => row.migration \notin FleetChain

CalmProgress == \A r \in Runs : Progress(r)

-----------------------------------------------------------------------------
(* One run alive. *)

\* A run takes steps of its own only while it is alive.
LEMMA StepIsActive ==
    ASSUME Inductive, NEW r \in Runs, Step(r)
    PROVE  Active(r)
BY Zenon DEF Active, Waiting, Step, Bookkeep, Plan, ApplySql, QueryFails, EnsureTracking, SeedMeta,
       CountRows, ImportRows, Recount, ResolveTargets, Finish, ReadApplied, PlanUpgrade,
       PlanRollbackTo, PlanRollbackOne, PlanRemoveTargeted, PlanStamp, PlanApply, AtDatabase,
       RecordStamp, Unrenderable, DryRun, RecordStarted, AtMigration, ExecuteStatement,
       StatementFails, DiscoveryFails, RecordFailure, RecordSuccess, Querying

\* The next run starts when nobody is at work.
LEMMA StartsAlone ==
    ASSUME SingleOperator, NEW r \in Runs, NEW o \in Operations, Start(r, o)
    PROVE  \A q \in Runs : ~Active(q)
<1> DEFINE busy == {q \in Runs : Active(q)}
<1>1. IsFiniteSet(Runs)
  BY ServerAssumption, FS_Interval DEF Runs
<1>2. IsFiniteSet(busy)
  BY <1>1, FS_Subset
<1>3. Cardinality(busy) < 1
  BY DEF Start, SingleOperator
<1>4. Cardinality(busy) \in Nat
  BY <1>2, FS_CardinalityType
<1>5. Cardinality(busy) = 0
  BY <1>3, <1>4
<1>6. busy = {}
  BY <1>2, <1>5, FS_EmptySet
<1>7. QED
  BY <1>6

\* A run that is alive after a step has taken it, has just been started, or
\* stands where it stood while nothing happened to the tracking table.
LEMMA WhoMoved ==
    ASSUME SingleOperator, Inductive, Solo, [Next]_vars, NEW r \in Runs, Active(r)'
    PROVE  \/ Step(r)
           \/ (\E o \in Operations : Start(r, o)) /\ pc'[r] = "ensure"
           \/ /\ UNCHANGED <<rows, clock, pc, op, checkout, local>>
              /\ late = {} => UNCHANGED schema
<1>1. RunsTyped /\ "crashed" \notin Waiting /\ Waiting \cap Ended = {}
  BY DEF Inductive, TypeOK, RunsTyped, Waiting, Ended
<1>2. ASSUME NEW q \in Runs, Preserved(q), q # r PROVE Active(r)
  BY <1>2 DEF Preserved, Moved, Active
<1>3. ASSUME NEW q \in Runs, Step(q) PROVE Step(r)
  BY <1>2, <1>3, StepIsActive, StepPreserves DEF Solo
<1>4. ASSUME NEW q \in Runs, Crash(q) PROVE FALSE
  <2>1. CASE q = r
    BY <1>1, <1>4, <2>1 DEF Crash, Stop, Active, RunsTyped
  <2>2. CASE q # r
    BY <1>2, <1>4, <2>2, CrashPreserves DEF Solo, Crash
  <2>3. QED
    BY <2>1, <2>2
<1>5. ASSUME NEW q \in Runs, NEW o \in Operations, Start(q, o)
      PROVE  Start(r, o) /\ pc'[r] = "ensure"
  <2>1. q = r
    BY <1>2, <1>5, StartPreserves, StartsAlone
  <2>2. CASE Entry(o, repo) = "ensure"
    BY <1>1, <1>5, <2>1, <2>2 DEF Start, Goto, RunsTyped
  <2>3. CASE Entry(o, repo) # "ensure"
    <3>1. Entry(o, repo) \in Ended
      BY <2>3, Zenon DEF Entry, Gate, Ended
    <3>2. pc'[r] \in Ended
      BY <1>1, <1>5, <2>1, <2>3, <3>1 DEF Start, Stop, RunsTyped
    <3>3. QED
      BY <1>1, <3>2 DEF Active
  <2>4. QED
    BY <1>5, <2>1, <2>2, <2>3
<1>6. CASE UNCHANGED vars \/ Pull \/ \E e \in late : Land(e)
  BY <1>6 DEF vars, server, local, Pull, Land
<1>7. QED
  BY <1>3, <1>4, <1>5, <1>6 DEF Next

LEMMA SoloNext ==
    ASSUME SingleOperator, Inductive, Solo, [Next]_vars
    PROVE  Solo'
<1> SUFFICES ASSUME NEW q \in Runs, NEW r \in Runs, Active(q)', Active(r)' PROVE q = r
  BY DEF Solo
<1>1. ASSUME NEW p \in Runs, NEW s \in Runs, Active(p)', Active(s)', Step(p) PROVE p = s
  <2>1. SUFFICES ASSUME p # s PROVE FALSE
    OBVIOUS
  <2>2. Active(p) /\ Moved(p)
    BY <1>1, StepIsActive, StepPreserves DEF Preserved
  <2>3. Active(s)
    BY <1>1, <2>1, <2>2 DEF Moved, Active
  <2>4. QED
    BY <2>1, <2>2, <2>3 DEF Solo
<1>2. ASSUME NEW p \in Runs, NEW s \in Runs, Active(p)', Active(s)',
             NEW o \in Operations, Start(p, o)
      PROVE  p = s
  <2>1. Moved(p) /\ ~Active(s)
    BY <1>2, StartPreserves, StartsAlone DEF Preserved
  <2>2. QED
    BY <1>2, <2>1 DEF Moved, Active
<1>3. CASE UNCHANGED pc
  BY <1>3 DEF Solo, Active
<1>4. QED
  BY <1>1, <1>2, <1>3, WhoMoved

-----------------------------------------------------------------------------
(* What a new row does to the tracking table. *)

\* A row of run r, written when the clock of the server shows a new time
FreshRow(r, status, new) ==
    /\ rows' = rows \cup {new}
    /\ new \in Row /\ new.run = r /\ new.status = status
    /\ new.db = Db(r) /\ new.migration = Current(r) /\ new.action = ActionOf(op[r])
    /\ \A o \in rows : Later(new, o) /\ ~Later(o, new)
    /\ ~Later(new, new)

LEMMA InsertIsFresh ==
    ASSUME SingleOperator, Inductive, Timely, NEW r \in Runs, pc[r] \in Applying,
           NEW status \in Statuses, Insert(r, status)
    PROVE  (\E new : FreshRow(r, status, new)) /\ Timely'
<1>1. PICK step \in ClockSteps :
         /\ clock' = clock + step
         /\ rows' = rows \cup {[db |-> Db(r), migration |-> Current(r), action |-> ActionOf(op[r]),
                                status |-> status, at |-> clock + step, run |-> r]}
  BY DEF Insert
<1> DEFINE new == [db |-> Db(r), migration |-> Current(r), action |-> ActionOf(op[r]),
                   status |-> status, at |-> clock + step, run |-> r]
<1>2. TypeOK /\ Placed(r) /\ rows' \subseteq Row
  BY InsertTyped DEF Inductive
<1>3. new \in Row
  BY <1>1, <1>2
<1>4. new.at = clock + step /\ new.run = r
  OBVIOUS
<1>5. clock \in Nat /\ step \in Nat /\ step > 0
  BY <1>1, <1>2, ServerAssumption DEF TypeOK, SingleOperator
<1>6. Uuid[r] \in Nat
  BY ServerAssumption DEF Runs
<1>7. \A o \in rows : o.at \in Nat /\ o.at <= clock
  BY <1>2 DEF Timely, TypeOK, Row
<1>8. \A o \in rows : Later(new, o) /\ ~Later(o, new)
  BY <1>4, <1>5, <1>7 DEF Later
<1>9. ~Later(new, new)
  BY <1>4, <1>5, <1>6 DEF Later
<1>10. FreshRow(r, status, new)
  BY <1>1, <1>3, <1>8, <1>9 DEF FreshRow
<1>11. Timely'
  <2>1. ASSUME NEW row \in rows' PROVE row.at <= clock'
    BY <1>1, <1>4, <1>5, <1>7, <2>1
  <2>2. QED
    BY <2>1 DEF Timely
<1>12. QED
  BY <1>10, <1>11

\* A new row is the newest of its migration, and no other changes.
LEMMA NewestWith ==
    ASSUME NEW new, rows' = rows \cup {new}, ~Later(new, new),
           \A o \in rows : Later(new, o) /\ ~Later(o, new), NEW d, NEW m
    PROVE  /\ new.db = d /\ new.migration = m => Newest(d, m)' = {new}
           /\ ~(new.db = d /\ new.migration = m) => Newest(d, m)' = Newest(d, m)
BY DEF Newest

\* The state of a migration is read from its newest row that is not 'started'.
LEMMA LastStatesWith ==
    ASSUME NEW new, rows' = rows \cup {new}, ~Later(new, new),
           \A o \in rows : Later(new, o) /\ ~Later(o, new), NEW d
    PROVE  /\ new.status = "started" \/ new.db # d => LastStates(d)' = LastStates(d)
           /\ new.status # "started" /\ new.db = d =>
                 LastStates(d)' = {row \in LastStates(d) : row.migration # new.migration} \cup {new}
BY DEF LastStates

\* Nothing changes of what is read when no row is added.
LEMMA TableKept ==
    ASSUME UNCHANGED rows, NEW d
    PROVE  /\ Applied(d)' = Applied(d) /\ Customised(d)' = Customised(d)
           /\ \A m : Newest(d, m)' = Newest(d, m)
BY DEF Applied, Customised, Successful, LastStates, Newest

\* A new row takes its migration out of the sets of its database, and a
\* success puts it back into one of them.
LEMMA SetsWith ==
    ASSUME NEW new, rows' = rows \cup {new}, ~Later(new, new),
           \A o \in rows : Later(new, o) /\ ~Later(o, new), NEW d
    PROVE  /\ new.status = "started" \/ new.db # d =>
                 Applied(d)' = Applied(d) /\ Customised(d)' = Customised(d)
           /\ new.status # "started" /\ new.db = d =>
                 /\ Applied(d)' = (Applied(d) \ {new.migration}) \cup
                       {m \in {new.migration} : new.status = "success" /\ new.action \in {"upgrade", "stamp"}}
                 /\ Customised(d)' = (Customised(d) \ {new.migration}) \cup
                       {m \in {new.migration} : new.status = "success" /\ new.action \in {"apply"}}
<1>1. ASSUME LastStates(d)' = LastStates(d)
      PROVE  Applied(d)' = Applied(d) /\ Customised(d)' = Customised(d)
  BY <1>1 DEF Applied, Customised, Successful
<1>2. ASSUME LastStates(d)' = {row \in LastStates(d) : row.migration # new.migration} \cup {new},
             NEW actions
      PROVE  Successful(d, actions)' = (Successful(d, actions) \ {new.migration}) \cup
                {m \in {new.migration} : new.status = "success" /\ new.action \in actions}
  BY <1>2 DEF Successful
<1>3. QED
  BY <1>1, <1>2, LastStatesWith DEF Applied, Customised

-----------------------------------------------------------------------------
(* What one step does to the server. *)

\* Nothing but a run's own step, or a late statement, reaches the server.
LEMMA ServerStep ==
    ASSUME SingleOperator, NoLateStatements, Inductive, Timely, late = {}, [Next]_vars
    PROVE  /\ late' = {}
           /\ \/ UNCHANGED <<rows, schema>>
              \/ \E r \in Runs : pc[r] = "import" /\ rows' = rows \cup AncestorRows /\ UNCHANGED schema
              \/ \E r \in Runs : /\ pc[r] = "execute" /\ UNCHANGED rows
                                 /\ \E result : schema' = [schema EXCEPT ![Db(r)][Current(r)] = result]
              \/ \E r \in Runs : \E status \in Statuses : \E new :
                    /\ pc[r] \in Applying /\ FreshRow(r, status, new) /\ UNCHANGED schema
                    /\ status = "success" => op[r].kind = "stamp" \/ pc[r] = "success"
<1>1. ASSUME NEW r \in Runs, Bookkeep(r)
      PROVE  /\ UNCHANGED <<schema, late>>
             /\ \/ UNCHANGED rows
                \/ pc[r] = "import" /\ rows' = rows \cup AncestorRows
  BY <1>1 DEF Bookkeep, EnsureTracking, SeedMeta, CountRows, ImportRows, Recount, server
<1>2. ASSUME NEW r \in Runs, Plan(r) \/ QueryFails(r)
      PROVE  UNCHANGED <<rows, schema, late>>
  BY <1>2 DEF Plan, QueryFails, ResolveTargets, Finish, ReadApplied, PlanUpgrade,
              PlanRollbackTo, PlanRollbackOne, PlanRemoveTargeted, PlanStamp, PlanApply, server
<1>3. ASSUME NEW r \in Runs, Unrenderable(r) \/ DryRun(r) \/ DiscoveryFails(r) \/ Crash(r)
      PROVE  UNCHANGED <<rows, schema, late>>
  BY <1>3 DEF Unrenderable, DryRun, DiscoveryFails, Crash, server, NoLateStatements
<1>4. ASSUME NEW r \in Runs, ExecuteStatement(r) \/ StatementFails(r)
      PROVE  /\ pc[r] = "execute" /\ UNCHANGED <<rows, late>>
             /\ \/ UNCHANGED schema
                \/ \E result : schema' = [schema EXCEPT ![Db(r)][Current(r)] = result]
  BY <1>4 DEF ExecuteStatement, StatementFails, Execute, Execution, NoLateStatements
<1>5. ASSUME NEW r \in Runs,
             RecordStamp(r) \/ RecordStarted(r) \/ RecordFailure(r) \/ RecordSuccess(r)
      PROVE  /\ UNCHANGED <<schema, late>>
             /\ \/ UNCHANGED rows
                \/ \E status \in Statuses : \E new :
                      /\ pc[r] \in Applying /\ FreshRow(r, status, new)
                      /\ status = "success" => op[r].kind = "stamp" \/ pc[r] = "success"
  <2>1. /\ UNCHANGED <<schema, late>> /\ pc[r] \in Applying
        /\ \/ UNCHANGED rows
           \/ \E status \in Statuses :
                 /\ Insert(r, status)
                 /\ status = "success" => op[r].kind = "stamp" \/ pc[r] = "success"
    BY <1>5 DEF RecordStamp, RecordStarted, RecordFailure, RecordSuccess, Recorded, RecordFails,
                AtMigration, Applying, Statuses
  <2>2. QED
    BY <2>1, InsertIsFresh
<1>6. CASE UNCHANGED vars \/ Pull \/ \E r \in Runs, o \in Operations : Start(r, o)
  BY <1>6 DEF vars, Pull, Start, server
<1>7. QED
  BY <1>1, <1>2, <1>3, <1>4, <1>5, <1>6 DEF Next, Step, ApplySql

\* The clock never falls behind a row.
LEMMA TimelyNext ==
    ASSUME SingleOperator, Inductive, Timely, [Next]_vars
    PROVE  Timely'
<1>1. ASSUME UNCHANGED <<rows, clock>> PROVE Timely'
  BY <1>1 DEF Timely
<1>2. ASSUME NEW r \in Runs, Bookkeep(r) PROVE Timely'
  <2>1. clock' = clock /\ rows' \subseteq rows \cup AncestorRows
    BY <1>2 DEF Bookkeep, EnsureTracking, SeedMeta, CountRows, ImportRows, Recount, server
  <2>2. clock \in Nat /\ \A row \in AncestorRows : row.at = 0
    BY ServerAssumption DEF Inductive, TypeOK
  <2>3. QED
    BY <2>1, <2>2 DEF Timely
<1>3. ASSUME NEW r \in Runs, Plan(r) \/ QueryFails(r) \/ Crash(r) PROVE Timely'
  BY <1>1, <1>3 DEF Plan, QueryFails, Crash, ResolveTargets, Finish, ReadApplied, PlanUpgrade,
              PlanRollbackTo, PlanRollbackOne, PlanRemoveTargeted, PlanStamp, PlanApply, server
<1>4. ASSUME NEW r \in Runs, ApplySql(r) PROVE Timely'
  <2>1. /\ pc[r] \in Applying
        /\ UNCHANGED <<rows, clock>> \/ \E status \in Statuses : Insert(r, status)
    BY <1>4 DEF ApplySql, RecordStamp, Unrenderable, DryRun, RecordStarted, ExecuteStatement,
                StatementFails, DiscoveryFails, RecordFailure, RecordSuccess, Recorded,
                RecordFails, AtMigration, Applying, Statuses, server
  <2>2. QED
    BY <1>1, <2>1, InsertIsFresh
<1>5. CASE \/ UNCHANGED vars \/ Pull
           \/ (\E e \in late : Land(e)) \/ \E r \in Runs, o \in Operations : Start(r, o)
  BY <1>1, <1>5 DEF vars, Pull, Land, Start, server
<1>6. QED
  BY <1>2, <1>3, <1>4, <1>5 DEF Next, Step

LEMMA CalmInit == Init => Calm
<1>1. Init => Solo /\ Timely
  BY DEF Init, Solo, Active, Waiting, Timely
<1>2. QED
  BY <1>1, InductiveInit DEF Calm

LEMMA CalmNext ==
    ASSUME SingleOperator, Calm, [Next]_vars
    PROVE  Calm'
BY InductiveNext, SoloNext, TimelyNext DEF Calm

-----------------------------------------------------------------------------
(* The newest row is true. *)

\* A run comes to the import only when the tracking table is empty.
LEMMA ImportsIntoEmpty ==
    ASSUME Inductive, NEW r \in Runs, Step(r), pc'[r] = "import"
    PROVE  rows = {} /\ UNCHANGED rows
<1>1. RunsTyped /\ "import" \notin Ended /\ {"ok", "refused", "repo", "server"} \subseteq Ended
  BY DEF Inductive, TypeOK, RunsTyped, Ended
<1>2. \A outcome \in Ended : ~Stop(r, outcome)
  BY <1>1 DEF Stop, RunsTyped
<1>3. ~NextDatabase(r) /\ \A migrations : ~Walk(r, migrations)
  BY <1>1 DEF NextDatabase, Walk, RunsTyped
<1>4. CASE Bookkeep(r)
  BY <1>1, <1>2, <1>4 DEF Bookkeep, EnsureTracking, SeedMeta, CountRows, ImportRows, Recount,
                          Ready, Goto, RunsTyped, server
<1>5. CASE Plan(r)
  <2>1. CASE PlanRollbackTo(r)
    <3> DEFINE walk == {m \in Applied(Db(r)) : m > op[r].number /\ m \in Fleet(checkout[r])}
               stopped == {m \in walk : Gate(m, op[r].ackIrreversible) # "pass"}
    <3>1. \/ Walk(r, walk)
          \/ Stop(r, Gate(Max(stopped), op[r].ackIrreversible))
      BY <2>1, Zenon DEF PlanRollbackTo
    <3>2. Gate(Max(stopped), op[r].ackIrreversible) # "import"
      BY Zenon DEF Gate
    <3>3. QED
      BY <1>1, <1>3, <3>1, <3>2 DEF Stop, RunsTyped
  <2>2. CASE ResolveTargets(r) \/ ReadApplied(r)
    BY <1>1, <1>2, <2>2 DEF ResolveTargets, ReadApplied, RunsTyped
  <2>3. QED
    BY <1>1, <1>2, <1>3, <1>5, <2>1, <2>2
       DEF Plan, Finish, PlanUpgrade, PlanRollbackOne, PlanRemoveTargeted, PlanStamp, PlanApply
<1>6. CASE ApplySql(r) \/ QueryFails(r)
  BY <1>1, <1>2, <1>3, <1>6 DEF ApplySql, QueryFails, RecordStamp, Unrenderable, DryRun,
       RecordStarted, ExecuteStatement, StatementFails, DiscoveryFails, RecordFailure,
       RecordSuccess, RecordFails, NextMigration, Goto, RunsTyped
<1>7. QED
  BY <1>4, <1>5, <1>6 DEF Step

\* From the 'started' row to the final one, the newest row of the migration a
\* run executes says 'started', and its last statement has made it so.
LEMMA BegunStep ==
    ASSUME SingleOperator, NoLateStatements, Calm, Truthful, NEW r \in Runs, Step(r),
           pc'[r] \in Executing
    PROVE  Begun(r)'
<1>1. RunsTyped /\ TypeOK /\ Placed(r) /\ Inductive /\ Timely /\ Begun(r)
  BY DEF Calm, Inductive, TypeOK, RunsTyped, Truthful
<1>2. "server" \notin Executing /\ pc'[r] # "import"
  BY DEF Executing
<1>3. CASE RecordStarted(r)
  <2>1. /\ Insert(r, "started") /\ UNCHANGED <<op, dbs, todo>> /\ pc'[r] = "execute"
        /\ pc[r] \in Applying /\ "started" \in Statuses
    BY <1>1, <1>2, <1>3 DEF RecordStarted, Recorded, RecordFails, Stop, RunsTyped, AtMigration,
                            Applying, Statuses
  <2>2. PICK new : FreshRow(r, "started", new)
    BY <1>1, <2>1, InsertIsFresh
  <2>3. Db(r)' = Db(r) /\ Current(r)' = Current(r)
    BY <2>1 DEF Db, Current
  <2>4. PICK d, m : d = Db(r) /\ m = Current(r)
    OBVIOUS
  <2>5. Newest(d, m)' = {new}
    BY <2>2, <2>4, NewestWith DEF FreshRow
  <2>6. Newest(Db(r), Current(r))' = {new}
    BY <2>3, <2>4, <2>5 DEF Newest
  <2>7. QED
    BY <2>1, <2>2, <2>6 DEF Begun, FreshRow
<1>4. CASE ExecuteStatement(r) \/ StatementFails(r)
  <2>1. pc[r] = "execute" /\ UNCHANGED <<rows, op, dbs, todo>>
    BY <1>4 DEF ExecuteStatement, StatementFails, Goto, local
  <2>2. Db(r)' = Db(r) /\ Current(r)' = Current(r) /\ ActionOf(op[r])' = ActionOf(op[r])
    BY <2>1 DEF Db, Current
  <2>3. Newest(Db(r), Current(r))' = Newest(Db(r), Current(r))
    BY <2>1, <2>2 DEF Newest
  <2>4. pc'[r] = "success" =>
          schema'[Db(r)][Current(r)] = IF ActionOf(op[r]) = "rollback" THEN "absent" ELSE "present"
    <3>1. SUFFICES ASSUME pc'[r] = "success"
                   PROVE  schema'[Db(r)][Current(r)] =
                              IF ActionOf(op[r]) = "rollback" THEN "absent" ELSE "present"
      OBVIOUS
    <3>2. ExecuteStatement(r)
      BY <1>1, <1>4, <3>1 DEF StatementFails, Goto, RunsTyped
    <3>3. ~(stmt[r] < Length[File(r)])
      BY <2>1, <3>1, <3>2 DEF ExecuteStatement
    <3>4. Execute(Execution(r), Outcome(Execution(r)))
      BY <3>2 DEF ExecuteStatement
    <3>5. Outcome(Execution(r)) = IF ActionOf(op[r]) = "rollback" THEN "absent" ELSE "present"
      BY <3>3 DEF Outcome, Execution, File
    <3>6. Db(r) \in Databases /\ Current(r) \in Migrations
      BY <1>1, <2>1, DbType, CurrentType DEF Placed, Walking, Applying
    <3>7. schema' = [schema EXCEPT ![Db(r)][Current(r)] = Outcome(Execution(r))]
      BY <3>4 DEF Execute, Execution
    <3>8. QED
      BY <1>1, <3>5, <3>6, <3>7 DEF TypeOK
  <2>5. QED
    BY <1>1, <1>2, <2>1, <2>2, <2>3, <2>4 DEF Begun, Executing
<1>5. QED
  BY <1>1, <1>3, <1>4, OwnStep

LEMMA BegunNext ==
    ASSUME SingleOperator, NoLateStatements, Calm, Truthful, [Next]_vars, NEW r \in Runs
    PROVE  Begun(r)'
<1>1. CASE pc'[r] \notin Executing \cup {"import"}
  BY <1>1 DEF Begun, Executing
<1>2. CASE pc'[r] \in Executing \cup {"import"}
  <2>1. Active(r)' /\ Inductive /\ Solo
    BY <1>2 DEF Active, Executing, Waiting, Calm
  <2>2. CASE Step(r)
    <3>1. CASE pc'[r] \in Executing
      BY <2>2, <3>1, BegunStep
    <3>2. CASE pc'[r] = "import"
      BY <2>1, <2>2, <3>2, ImportsIntoEmpty DEF Begun, Executing
    <3>3. QED
      BY <1>2, <3>1, <3>2
  <2>3. CASE pc'[r] = "ensure"
    BY <1>2, <2>3 DEF Executing
  <2>4. CASE UNCHANGED <<rows, clock, pc, op, checkout, local>> /\ UNCHANGED schema
    <3>1. Db(r)' = Db(r) /\ Current(r)' = Current(r) /\ ActionOf(op[r])' = ActionOf(op[r])
      BY <2>4 DEF Db, Current, local
    <3>2. Newest(Db(r), Current(r))' = Newest(Db(r), Current(r))
      BY <2>4, <3>1 DEF Newest
    <3>3. QED
      BY <2>4, <3>1, <3>2 DEF Begun, Truthful
  <2>5. QED
    BY <2>1, <2>2, <2>3, <2>4, WhoMoved DEF Truthful
<1>3. QED
  BY <1>1, <1>2

LEMMA NewestRowNext ==
    ASSUME SingleOperator, NoLateStatements, Calm, Truthful, [Next]_vars
    PROVE  NewestRowIsTrue'
<1>1. Inductive /\ TypeOK /\ Timely /\ late = {} /\ NewestRowIsTrue
  BY DEF Calm, Inductive, Truthful
<1>2. CASE UNCHANGED <<rows, schema>>
  BY <1>1, <1>2 DEF NewestRowIsTrue, Newest
<1>3. ASSUME NEW r \in Runs, pc[r] = "import", rows' = rows \cup AncestorRows, UNCHANGED schema
      PROVE  NewestRowIsTrue'
  <2>1. rows = {} /\ rows' = AncestorRows
    BY <1>3 DEF Truthful, Begun
  <2>2. \A d \in Databases, m \in Migrations : schema'[d][m] = "absent"
    BY <1>1, <1>3, <2>1 DEF NewestRowIsTrue, Newest
  <2>3. \A d, m : \A row \in Newest(d, m)' : row.run \notin Runs
    BY <2>1, ServerAssumption DEF Newest, Runs
  <2>4. QED
    BY <2>2, <2>3 DEF NewestRowIsTrue
<1>4. ASSUME NEW r \in Runs, pc[r] = "execute", UNCHANGED rows, NEW result,
             schema' = [schema EXCEPT ![Db(r)][Current(r)] = result]
      PROVE  NewestRowIsTrue'
  <2>1. \A d, m : Newest(d, m)' = Newest(d, m)
    BY <1>4, TableKept
  <2>2. /\ Newest(Db(r), Current(r)) # {}
        /\ \A row \in Newest(Db(r), Current(r)) : row.status = "started"
    BY <1>4 DEF Truthful, Begun, Executing
  <2>3. ASSUME NEW d \in Databases, NEW m \in Migrations, ~(d = Db(r) /\ m = Current(r))
        PROVE  schema'[d][m] = schema[d][m]
    BY <1>1, <1>4, <2>3 DEF TypeOK
  <2>4. QED
    BY <1>1, <2>1, <2>2, <2>3 DEF NewestRowIsTrue
<1>5. ASSUME NEW r \in Runs, NEW status \in Statuses, NEW new, pc[r] \in Applying,
             FreshRow(r, status, new), UNCHANGED schema,
             status = "success" => op[r].kind = "stamp" \/ pc[r] = "success"
      PROVE  NewestRowIsTrue'
  <2>1. ASSUME NEW d \in Databases, NEW m \in Migrations
        PROVE  /\ Newest(d, m)' = {} => schema'[d][m] = "absent"
               /\ \A row \in Newest(d, m)' :
                     row.status = "success" /\ row.action # "stamp" /\ row.run \in Runs =>
                        schema'[d][m] = IF row.action = "rollback" THEN "absent" ELSE "present"
    <3>1. CASE new.db = d /\ new.migration = m
      <4>1. Newest(d, m)' = {new}
        BY <1>5, <3>1, NewestWith DEF FreshRow
      <4>2. new.action # "stamp" => op[r].kind # "stamp"
        BY <1>5, Zenon DEF FreshRow, ActionOf
      <4>3. d = Db(r) /\ m = Current(r) /\ new.action = ActionOf(op[r]) /\ new.status = status
        BY <1>5, <3>1 DEF FreshRow
      <4>4. pc[r] = "success" =>
               schema'[d][m] = IF new.action = "rollback" THEN "absent" ELSE "present"
        BY <1>5, <4>3 DEF Truthful, Begun
      <4>5. QED
        BY <1>5, <4>1, <4>2, <4>3, <4>4
    <3>2. CASE ~(new.db = d /\ new.migration = m)
      <4>1. Newest(d, m)' = Newest(d, m)
        BY <1>5, <3>2, NewestWith DEF FreshRow
      <4>2. QED
        BY <1>1, <1>5, <4>1 DEF NewestRowIsTrue
    <3>3. QED
      BY <3>1, <3>2
  <2>2. QED
    BY <2>1 DEF NewestRowIsTrue
<1>6. QED
  BY <1>1, <1>2, <1>3, <1>4, <1>5, ServerStep

LEMMA TruthfulInit == Init => Truthful
BY DEF Init, Truthful, NewestRowIsTrue, Newest, Begun, Executing

LEMMA TruthfulNext ==
    ASSUME SingleOperator, NoLateStatements, Calm, Truthful, [Next]_vars
    PROVE  Truthful'
<1>1. late' = {}
  BY ServerStep DEF Calm, Truthful
<1>2. QED
  BY <1>1, BegunNext, NewestRowNext DEF Truthful

\* With one operator at a time, no crash and no failure makes the tracking
\* table lie: the newest row of a migration tells what is on the server when
\* it says success, and a migration without rows was never touched
\* (execution.rs:169-254, tracking.rs:74-170).
THEOREM NewestRowIsTrueHolds ==
    ASSUME SingleOperator, NoLateStatements
    PROVE  Spec => []NewestRowIsTrue
<1>1. Init => Calm /\ Truthful
  BY CalmInit, TruthfulInit
<1>2. Calm /\ Truthful /\ [Next]_vars => (Calm /\ Truthful)'
  BY CalmNext, TruthfulNext
<1>3. Truthful => NewestRowIsTrue
  BY DEF Truthful
<1>4. QED
  BY <1>1, <1>2, <1>3, PTL DEF Spec

-----------------------------------------------------------------------------
(* What is missing, and what a row changes of it. *)

\* An operation has reached its targets when nothing is missing of them.
LEMMA ReachedWithoutMissing ==
    ASSUME TypeOK, NEW o \in Operation, NEW v \in RepoVersions,
           \A d \in TargetDatabases(o) : Missing(o, v, d) = {}
    PROVE  Reached(o, v)
<1> SUFFICES ASSUME NEW d \in TargetDatabases(o)
             PROVE  CASE o.kind = "upgrade" -> \A m \in Fleet(v) :
                              (o.bounded => m <= o.number) => m \in Applied(d) \cup Customised(d)
                      [] o.kind = "rollback_to" -> \A m \in Applied(d) \cap Fleet(v) : m <= o.number
                      [] o.kind = "stamp" -> \A m \in Fleet(v) : m <= o.number => m \in Applied(d)
                      [] o.kind = "apply" -> o.number \in Customised(d)
                      [] o.kind = "rollback_one" -> o.number \notin
                              (IF RemovesTargeted(o, v) THEN Customised(d) ELSE Applied(d))
                      [] OTHER -> TRUE
  BY DEF Reached
<1>1. Missing(o, v, d) = {}
  OBVIOUS
<1>2. /\ o.kind = "upgrade" => \A m \in Fleet(v) :
                              (o.bounded => m <= o.number) => m \in Applied(d) \cup Customised(d)
      /\ o.kind = "stamp" => \A m \in Fleet(v) : m <= o.number => m \in Applied(d)
      /\ o.kind = "apply" => o.number \in Customised(d)
      /\ o.kind = "rollback_one" => o.number \notin
                              (IF RemovesTargeted(o, v) THEN Customised(d) ELSE Applied(d))
  BY <1>1 DEF Missing
<1>3. o.kind = "rollback_to" => \A m \in Applied(d) \cap Fleet(v) : m <= o.number
  <2>1. SUFFICES ASSUME o.kind = "rollback_to", NEW m \in Applied(d) \cap Fleet(v)
                 PROVE  m <= o.number
    OBVIOUS
  <2>2. ~(m > o.number)
    BY <1>1, <2>1 DEF Missing
  <2>3. m \in 0..MaxNumber /\ MaxNumber \in Nat /\ o.number \in Nat
    BY AppliedType, RepoAssumption DEF Operation
  <2>4. QED
    BY <2>2, <2>3
<1>4. QED
  BY <1>2, <1>3, Zenon

\* The success row of a missing migration fills just that gap, on its database.
LEMMA SuccessFills ==
    ASSUME NEW o \in Operation, NEW v, NEW d, NEW new, new.migration \in Missing(o, v, d),
           rows' = rows \cup {new}, ~Later(new, new),
           \A old \in rows : Later(new, old) /\ ~Later(old, new),
           new.db = d, new.status = "success", new.action = ActionOf(o)
    PROVE  Missing(o, v, d)' = Missing(o, v, d) \ {new.migration}
<1> DEFINE m == new.migration
<1>1. /\ Applied(d)' = (Applied(d) \ {m}) \cup
              {n \in {m} : new.status = "success" /\ new.action \in {"upgrade", "stamp"}}
      /\ Customised(d)' = (Customised(d) \ {m}) \cup
              {n \in {m} : new.status = "success" /\ new.action \in {"apply"}}
  BY SetsWith
<1>2. CASE o.kind = "upgrade"
  <2>1. ActionOf(o) = "upgrade"
    BY <1>2 DEF ActionOf
  <2>2. Applied(d)' \cup Customised(d)' = (Applied(d) \cup Customised(d)) \cup {m}
    BY <1>1, <2>1
  <2>3. Missing(o, v, d) = {n \in Fleet(v) : (o.bounded => n <= o.number)
                                             /\ n \notin Applied(d) \cup Customised(d)}
    BY <1>2 DEF Missing
  <2>4. Missing(o, v, d)' = {n \in Fleet(v) : (o.bounded => n <= o.number)
                                              /\ n \notin Applied(d)' \cup Customised(d)'}
    BY <1>2 DEF Missing
  <2>5. QED
    BY <2>2, <2>3, <2>4
<1>3. CASE o.kind = "stamp"
  <2>1. ActionOf(o) = "stamp"
    BY <1>3 DEF ActionOf
  <2>2. Applied(d)' = Applied(d) \cup {m}
    BY <1>1, <2>1
  <2>3. Missing(o, v, d) = {n \in Fleet(v) : n <= o.number /\ n \notin Applied(d)}
    BY <1>3 DEF Missing
  <2>4. Missing(o, v, d)' = {n \in Fleet(v) : n <= o.number /\ n \notin Applied(d)'}
    BY <1>3 DEF Missing
  <2>5. QED
    BY <2>2, <2>3, <2>4
<1>4. CASE o.kind = "apply"
  <2>1. ActionOf(o) = "apply"
    BY <1>4 DEF ActionOf
  <2>2. Customised(d)' = Customised(d) \cup {m}
    BY <1>1, <2>1
  <2>3. Missing(o, v, d) = {o.number} \ Customised(d) /\ Missing(o, v, d)' = {o.number} \ Customised(d)'
    BY <1>4 DEF Missing
  <2>4. QED
    BY <2>2, <2>3
<1>5. CASE o.kind \in {"rollback_to", "rollback_one"}
  <2>1. ActionOf(o) = "rollback"
    BY <1>5 DEF ActionOf
  <2>2. Applied(d)' = Applied(d) \ {m} /\ Customised(d)' = Customised(d) \ {m}
    BY <1>1, <2>1
  <2>3. CASE o.kind = "rollback_to"
    <3>1. /\ Missing(o, v, d) = {n \in Applied(d) \cap Fleet(v) : n > o.number}
          /\ Missing(o, v, d)' = {n \in Applied(d)' \cap Fleet(v) : n > o.number}
      BY <2>3 DEF Missing
    <3>2. QED
      BY <2>2, <3>1
  <2>4. CASE o.kind = "rollback_one"
    <3>1. /\ Missing(o, v, d) = {o.number} \cap (IF RemovesTargeted(o, v) THEN Customised(d) ELSE Applied(d))
          /\ Missing(o, v, d)' = {o.number} \cap (IF RemovesTargeted(o, v) THEN Customised(d)' ELSE Applied(d)')
      BY <2>4 DEF Missing, RemovesTargeted
    <3>2. QED
      BY <2>2, <3>1
  <2>5. QED
    BY <1>5, <2>3, <2>4
<1>6. CASE o.kind = "import"
  BY <1>6 DEF Missing
<1>7. QED
  BY <1>2, <1>3, <1>4, <1>5, <1>6 DEF Operation, Kinds

\* What is missing is read off the sets of the database.
LEMMA MissingKept ==
    ASSUME NEW o, NEW v, NEW d, Applied(d)' = Applied(d), Customised(d)' = Customised(d)
    PROVE  Missing(o, v, d)' = Missing(o, v, d)
BY DEF Missing, RemovesTargeted

\* The position a run is at
LEMMA AtCurrent ==
    ASSUME Inductive, NEW r \in Runs, dbs[r] # {}
    PROVE  /\ Min(dbs[r]) \in dbs[r] /\ At(r, Min(dbs[r])) = Db(r)
           /\ Db(r) \in TargetDatabases(op[r])
BY DbType DEF Inductive, At, Db

\* Nothing changes of what is missing, or of what is applied.
LEMMA GapKept ==
    ASSUME NEW r \in Runs, op'[r] = op[r], checkout'[r] = checkout[r],
           \A d : Applied(d)' = Applied(d) /\ Customised(d)' = Customised(d), NEW i
    PROVE  Gap(r, i)' = Gap(r, i) /\ (Topmost(r, i) => Topmost(r, i)') /\ At(r, i)' = At(r, i)
<1>1. PICK o, v : o = op[r] /\ v = checkout[r]
  OBVIOUS
<1>2. PICK d : d = At(r, i)
  OBVIOUS
<1>3. At(r, i)' = d
  BY <1>1, <1>2 DEF At
<1>4. Missing(o, v, d)' = Missing(o, v, d)
  BY MissingKept
<1>5. Gap(r, i) = Missing(o, v, d) /\ Gap(r, i)' = Missing(o, v, d)'
  BY <1>1, <1>2, <1>3 DEF Gap, Missing, RemovesTargeted
<1>6. Applied(d)' = Applied(d)
  OBVIOUS
<1>7. Applied(At(r, i)) = Applied(d) /\ Applied(At(r, i))' = Applied(d)'
  BY <1>2, <1>3 DEF Applied, Successful, LastStates
<1>8. Topmost(r, i) => Topmost(r, i)'
  BY <1>1, <1>6, <1>7 DEF Topmost, RemovesTargeted
<1>9. QED
  BY <1>2, <1>3, <1>4, <1>5, <1>8

\* A success row of the current migration fills a gap where the run stands and
\* opens none behind it.
LEMMA GapFilled ==
    ASSUME Inductive, NEW r \in Runs, dbs[r] # {}, UNCHANGED <<op, checkout>>,
           NEW new, FreshRow(r, "success", new), Current(r) \in Gap(r, Min(dbs[r])), NEW i
    PROVE  /\ At(r, i) = Db(r) => Gap(r, i)' = Gap(r, i) \ {Current(r)}
           /\ At(r, i) # Db(r) => Gap(r, i)' = Gap(r, i)
<1>1. PICK o, v : o = op[r] /\ v = checkout[r]
  OBVIOUS
<1>2. PICK d : d = At(r, i)
  OBVIOUS
<1>3. At(r, i)' = d /\ o \in Operation /\ At(r, Min(dbs[r])) = Db(r)
  BY <1>1, <1>2, OperationType, AtCurrent DEF At, Inductive
<1>4. Gap(r, i) = Missing(o, v, d) /\ Gap(r, i)' = Missing(o, v, d)'
  BY <1>1, <1>2, <1>3 DEF Gap, Missing, RemovesTargeted
<1>5. /\ rows' = rows \cup {new} /\ ~Later(new, new)
      /\ \A old \in rows : Later(new, old) /\ ~Later(old, new)
      /\ new.db = Db(r) /\ new.migration = Current(r)
      /\ new.status = "success" /\ new.action = ActionOf(o)
  BY <1>1 DEF FreshRow
<1>6. CASE d = Db(r)
  <2>1. new.migration \in Missing(o, v, d)
    BY <1>1, <1>3, <1>5, <1>6 DEF Gap
  <2>2. Missing(o, v, d)' = Missing(o, v, d) \ {new.migration}
    BY <1>3, <1>5, <1>6, <2>1, SuccessFills
  <2>3. QED
    BY <1>2, <1>4, <1>5, <1>6, <2>2
<1>7. CASE d # Db(r)
  <2>1. Applied(d)' = Applied(d) /\ Customised(d)' = Customised(d)
    BY <1>5, <1>7, SetsWith
  <2>2. QED
    BY <1>2, <1>4, <1>7, <2>1, MissingKept
<1>8. QED
  BY <1>6, <1>7

-----------------------------------------------------------------------------
(* A run makes progress. *)

\* A run that knows what is missing of its database walks just that.
LEMMA WalkProgress ==
    ASSUME Inductive, NEW r \in Runs, Progress(r), pc[r] \in Walking \cup {"database"},
           dbs[r] # {}, UNCHANGED <<op, checkout>>,
           NEW migrations, Walk(r, migrations),
           NEW i, i = Min(dbs[r]),
           ~op[r].dryRun => /\ Gap(r, i)' = migrations
                            /\ migrations # {} => Topmost(r, i)'
                            /\ \A j : Gap(r, j) = {} => Gap(r, j)' = {}
    PROVE  Progress(r)'
<1>1. RunsTyped
  BY DEF Inductive, TypeOK, RunsTyped
<1>2. SUFFICES ASSUME ~op[r].dryRun PROVE Progress(r)'
  BY DEF Progress
<1>3. \A j \in Positions(op[r].targets) \ dbs[r] : Gap(r, j)' = {}
  BY <1>2 DEF Progress
<1>4. CASE migrations = {}
  <2>1. pc'[r] = "database" /\ dbs'[r] = dbs[r] \ {i}
    BY <1>1, <1>4 DEF Walk, NextDatabase, RunsTyped
  <2>2. \A j \in Positions(op[r].targets) \ dbs'[r] : Gap(r, j)' = {}
    BY <1>2, <1>3, <1>4, <2>1
  <2>3. QED
    BY <2>1, <2>2 DEF Progress, Applying
<1>5. CASE migrations # {}
  <2>1. pc'[r] = "migration" /\ dbs'[r] = dbs[r] /\ todo'[r] = migrations
    BY <1>1, <1>5 DEF Walk, RunsTyped
  <2>2. QED
    BY <1>2, <1>3, <1>5, <2>1 DEF Progress
<1>6. QED
  BY <1>4, <1>5

\* Steps that add no row and walk on with what is missing
LEMMA PlanProgress ==
    ASSUME Inductive, NEW r \in Runs, Progress(r), Plan(r), Active(r)'
    PROVE  Progress(r)'
<1>1. RunsTyped /\ UNCHANGED <<rows, op, checkout>>
  BY DEF Inductive, TypeOK, RunsTyped, Plan, ResolveTargets, Finish, ReadApplied, PlanUpgrade,
         PlanRollbackTo, PlanRollbackOne, PlanRemoveTargeted, PlanStamp, PlanApply, server
<1>2. \A d : Applied(d)' = Applied(d) /\ Customised(d)' = Customised(d)
  BY <1>1, TableKept
<1>3. \A j : Gap(r, j)' = Gap(r, j) /\ (Topmost(r, j) => Topmost(r, j)') /\ At(r, j)' = At(r, j)
  BY <1>1, <1>2, GapKept
<1>4. \A outcome \in {"ok", "refused", "repo"} : ~Stop(r, outcome)
  BY <1>1 DEF Stop, RunsTyped, Active, Waiting
<1>5. CASE ResolveTargets(r)
  <2>1. pc'[r] = "database" /\ dbs'[r] = Positions(op[r].targets)
    BY <1>1, <1>4, <1>5 DEF ResolveTargets, RunsTyped
  <2>2. QED
    BY <1>1, <2>1 DEF Progress, Applying
<1>6. CASE Finish(r)
  BY <1>4, <1>6 DEF Finish
<1>7. CASE ReadApplied(r)
  <2>1. PICK i : i = Min(dbs[r])
    OBVIOUS
  <2>2. /\ pc[r] = "database" /\ pc'[r] = "customised" /\ UNCHANGED dbs
        /\ seen'[r] = Applied(Db(r)) /\ At(r, i) = Db(r)
    BY <1>1, <1>7, <2>1 DEF ReadApplied, AtDatabase, RunsTyped, At, Db
  <2>3. Applied(At(r, i)) = Applied(At(r, i))'
    BY <1>1, <1>3, <2>2 DEF Applied, Successful, LastStates
  <2>4. QED
    BY <1>1, <1>3, <2>1, <2>2, <2>3 DEF Progress, Applying
<1>8. CASE PlanUpgrade(r) \/ PlanRollbackTo(r) \/ PlanRollbackOne(r) \/ PlanRemoveTargeted(r)
           \/ PlanStamp(r) \/ PlanApply(r)
  <2>1. PICK i : i = Min(dbs[r])
    OBVIOUS
  <2>2. pc[r] \in Walking \cup {"database"} /\ dbs[r] # {}
    BY <1>8 DEF PlanUpgrade, PlanRollbackTo, PlanRollbackOne, PlanRemoveTargeted, PlanStamp,
                PlanApply, AtDatabase, Walking, Inductive, Placed
  <2>3. At(r, i) = Db(r)
    BY <2>1 DEF At, Db
  <2>4. ASSUME NEW migrations, Walk(r, migrations),
               ~op[r].dryRun => Gap(r, i) = migrations /\ (migrations # {} => Topmost(r, i))
        PROVE  Progress(r)'
    BY <1>1, <1>3, <2>1, <2>2, <2>4, WalkProgress
  <2>5. op[r].kind # "rollback_one" \/ RemovesTargeted(op[r], checkout[r]) => Topmost(r, i)
    BY DEF Topmost
  <2>6. CASE PlanUpgrade(r)
    <3>1. pc[r] = "customised" /\ op[r].kind = "upgrade"
      BY <2>6 DEF PlanUpgrade, Inductive, Placed
    <3>2. ~op[r].dryRun => seen[r] = Applied(Db(r))
      BY <2>1, <2>3, <3>1 DEF Progress
    <3> DEFINE left == {m \in Fleet(checkout[r]) : m \notin seen[r] \cup Customised(Db(r))
                                                /\ (op[r].bounded => m <= op[r].number)}
    <3>3. Walk(r, left)
      BY <2>6 DEF PlanUpgrade
    <3>4. Gap(r, i) = {m \in Fleet(checkout[r]) : (op[r].bounded => m <= op[r].number)
                                             /\ m \notin Applied(Db(r)) \cup Customised(Db(r))}
      BY <2>3, <3>1, Zenon DEF Gap, Missing
    <3>5. ~op[r].dryRun => Gap(r, i) = left
      BY <3>2, <3>4
    <3>6. QED
      BY <2>4, <2>5, <3>1, <3>3, <3>5
  <2>7. CASE PlanRollbackTo(r)
    <3>1. op[r].kind = "rollback_to"
      BY <2>7 DEF PlanRollbackTo, AtDatabase
    <3> DEFINE left == {m \in Applied(Db(r)) : m > op[r].number /\ m \in Fleet(checkout[r])}
               stopped == {m \in left : Gate(m, op[r].ackIrreversible) # "pass"}
    <3>2. Walk(r, left)
      <4>1. stopped # {} => Max(stopped) \in stopped
        <5>1. stopped \subseteq 0..MaxNumber /\ MaxNumber \in Nat
          BY AppliedType, RepoAssumption DEF Inductive
        <5>2. QED
          BY <5>1, MaxAttained, Zenon
      <4>2. \A m : Gate(m, op[r].ackIrreversible) \in {"pass", "repo", "refused"}
        BY Zenon DEF Gate
      <4>3. stopped # {} => Gate(Max(stopped), op[r].ackIrreversible) \in {"repo", "refused"}
        BY <4>1, <4>2
      <4>4. stopped # {} => ~Stop(r, Gate(Max(stopped), op[r].ackIrreversible))
        BY <1>4, <4>3
      <4>5. IF stopped = {} THEN Walk(r, left)
            ELSE Stop(r, Gate(Max(stopped), op[r].ackIrreversible))
        BY <2>7, Zenon DEF PlanRollbackTo
      <4>6. QED
        BY <4>4, <4>5
    <3>3. Gap(r, i) = {m \in Applied(Db(r)) \cap Fleet(checkout[r]) : m > op[r].number}
      BY <2>3, <3>1, Zenon DEF Gap, Missing
    <3>4. Gap(r, i) = left
      BY <3>3
    <3>5. QED
      BY <2>4, <2>5, <3>1, <3>2, <3>4
  <2>8. CASE PlanRollbackOne(r)
    <3> DEFINE m == op[r].number
    <3>1. op[r].kind = "rollback_one" /\ ~RemovesTargeted(op[r], checkout[r])
      BY <2>8 DEF PlanRollbackOne, AtDatabase
    <3>2. Gap(r, i) = {m} \cap Applied(Db(r))
      BY <2>3, <3>1, Zenon DEF Gap, Missing
    <3>3. \/ m \notin Applied(Db(r)) /\ Walk(r, {})
          \/ m \in Applied(Db(r)) /\ m = Max(Applied(Db(r))) /\ Walk(r, {m})
      BY <1>4, <2>8 DEF PlanRollbackOne, Walk
    <3>4. m \in Applied(Db(r)) /\ m = Max(Applied(Db(r))) => Topmost(r, i)
      <4>1. Applied(Db(r)) \subseteq 0..MaxNumber /\ MaxNumber \in Nat
        BY AppliedType, RepoAssumption DEF Inductive
      <4>2. ASSUME m \in Applied(Db(r)), m = Max(Applied(Db(r))), NEW n \in Applied(Db(r))
            PROVE  n <= m
        <5>1. Max(Applied(Db(r))) >= n
          BY <4>1, <4>2, MaxAttained, Zenon
        <5>2. QED
          BY <4>1, <4>2, <5>1
      <4>3. QED
        BY <2>3, <4>2 DEF Topmost
    <3>5. QED
      BY <2>4, <3>2, <3>3, <3>4
  <2>9. CASE PlanRemoveTargeted(r)
    <3>1. op[r].kind = "rollback_one" /\ RemovesTargeted(op[r], checkout[r])
      BY <2>9 DEF PlanRemoveTargeted, AtDatabase
    <3>2. Gap(r, i) = {op[r].number} \cap Customised(Db(r))
      BY <2>3, <3>1, Zenon DEF Gap, Missing
    <3>3. QED
      BY <2>4, <2>5, <2>9, <3>1, <3>2 DEF PlanRemoveTargeted
  <2>10. CASE PlanStamp(r)
    <3>1. op[r].kind = "stamp"
      BY <2>10 DEF PlanStamp, AtDatabase
    <3>2. Gap(r, i) = {m \in Fleet(checkout[r]) : m <= op[r].number /\ m \notin Applied(Db(r))}
      BY <2>3, <3>1, Zenon DEF Gap, Missing
    <3>3. \/ op[r].dryRun /\ Walk(r, {})
          \/ Walk(r, Gap(r, i))
      BY <2>10, <3>2 DEF PlanStamp, Walk
    <3>4. QED
      BY <2>4, <2>5, <3>1, <3>3
  <2>11. CASE PlanApply(r)
    <3>1. op[r].kind = "apply"
      BY <2>11 DEF PlanApply, AtDatabase
    <3>2. Gap(r, i) = {op[r].number} \ Customised(Db(r))
      BY <2>3, <3>1, Zenon DEF Gap, Missing
    <3>3. QED
      BY <1>4, <2>4, <2>5, <2>11, <3>1, <3>2 DEF PlanApply
  <2>12. QED
    BY <1>8, <2>6, <2>7, <2>8, <2>9, <2>10, <2>11
<1>9. QED
  BY <1>5, <1>6, <1>7, <1>8 DEF Plan

\* The final row of a success fills the gap the run has been working on.
LEMMA SuccessProgress ==
    ASSUME SingleOperator, Inductive, Timely, NEW r \in Runs, Progress(r),
           pc[r] \in Applying, ~op[r].dryRun,
           Insert(r, "success"), NextMigration(r), UNCHANGED <<op, checkout>>
    PROVE  Progress(r)'
<1>1. "success" \in Statuses /\ pc[r] \in Walking \cup {"database"} /\ dbs[r] # {} /\ todo[r] # {}
  BY DEF Statuses, Applying, Walking, Inductive, Placed
<1>2. PICK new : FreshRow(r, "success", new)
  BY <1>1, InsertIsFresh
<1>3. PICK i : i = Min(dbs[r])
  OBVIOUS
<1>4. Gap(r, i) = todo[r] /\ Topmost(r, i) /\ At(r, i) = Db(r) /\ Current(r) \in todo[r]
  BY <1>1, <1>3, AtCurrent, CurrentType DEF Progress, Inductive
<1>5. \A j : /\ At(r, j) = Db(r) => Gap(r, j)' = Gap(r, j) \ {Current(r)}
             /\ At(r, j) # Db(r) => Gap(r, j)' = Gap(r, j)
  BY <1>1, <1>2, <1>3, <1>4, GapFilled
<1>6. Gap(r, i)' = todo[r] \ {Current(r)} /\ \A j : Gap(r, j) = {} => Gap(r, j)' = {}
  BY <1>4, <1>5
<1>7. todo[r] \ {Current(r)} # {} => Topmost(r, i)'
  <2>1. SUFFICES ASSUME op[r].kind = "rollback_one", ~RemovesTargeted(op[r], checkout[r])
                 PROVE  todo[r] \ {Current(r)} = {}
    BY DEF Topmost, RemovesTargeted
  <2>2. Gap(r, i) \subseteq {op[r].number}
    BY <2>1, Zenon DEF Gap, Missing
  <2>3. QED
    BY <1>4, <2>2
<1>8. QED
  BY <1>1, <1>3, <1>6, <1>7, WalkProgress DEF NextMigration

\* A run stays where it is, and what is applied stays too.
LEMMA StayingProgress ==
    ASSUME NEW r \in Runs, Progress(r), {pc[r], pc'[r]} \subseteq Applying,
           UNCHANGED <<op, checkout, dbs, todo>>,
           \A d : Applied(d)' = Applied(d) /\ Customised(d)' = Customised(d)
    PROVE  Progress(r)'
<1>1. \A j : Gap(r, j)' = Gap(r, j) /\ (Topmost(r, j) => Topmost(r, j)')
  BY GapKept
<1>2. pc[r] \in Walking /\ pc'[r] \notin {"customised", "count", "import", "recount"}
  BY DEF Applying, Walking
<1>3. QED
  BY <1>1, <1>2 DEF Progress

LEMMA ApplySqlProgress ==
    ASSUME SingleOperator, Inductive, Timely, NEW r \in Runs, Progress(r), ApplySql(r), Active(r)'
    PROVE  Progress(r)'
<1>1. RunsTyped /\ Placed(r) /\ UNCHANGED <<op, checkout>>
  BY DEF Inductive, TypeOK, RunsTyped, ApplySql, RecordStamp, Unrenderable, DryRun, RecordStarted,
         ExecuteStatement, StatementFails, DiscoveryFails, RecordFailure, RecordSuccess, Recorded,
         RecordFails
<1>2. \A outcome \in {"repo", "server"} : ~Stop(r, outcome)
  BY <1>1 DEF Stop, RunsTyped, Active, Waiting
<1>3. SUFFICES ASSUME ~op[r].dryRun PROVE Progress(r)'
  BY <1>1 DEF Progress
<1>4. CASE RecordStamp(r) \/ RecordSuccess(r)
  <2>1. pc[r] \in Applying /\ Insert(r, "success") /\ NextMigration(r)
    BY <1>2, <1>4 DEF RecordStamp, RecordSuccess, Recorded, RecordFails, Applying
  <2>2. QED
    BY <1>1, <1>3, <2>1, SuccessProgress
<1>5. CASE RecordStarted(r)
  <2>1. /\ Insert(r, "started") /\ pc'[r] = "execute" /\ pc[r] = "migration"
        /\ UNCHANGED <<dbs, todo>> /\ {pc[r], pc'[r]} \subseteq Applying /\ "started" \in Statuses
    BY <1>1, <1>2, <1>5 DEF RecordStarted, Recorded, RecordFails, AtMigration, RunsTyped,
                            Applying, Statuses
  <2>2. PICK new : FreshRow(r, "started", new)
    BY <2>1, InsertIsFresh
  <2>3. \A d : Applied(d)' = Applied(d) /\ Customised(d)' = Customised(d)
    BY <2>2, SetsWith DEF FreshRow
  <2>4. QED
    BY <1>1, <2>1, <2>3, StayingProgress
<1>6. CASE ExecuteStatement(r) \/ StatementFails(r)
  <2>1. UNCHANGED <<rows, dbs, todo>> /\ {pc[r], pc'[r]} \subseteq Applying
    BY <1>1, <1>6 DEF ExecuteStatement, StatementFails, Goto, local, Applying, RunsTyped
  <2>2. \A d : Applied(d)' = Applied(d) /\ Customised(d)' = Customised(d)
    BY <2>1, TableKept
  <2>3. QED
    BY <1>1, <2>1, <2>2, StayingProgress
<1>7. QED
  BY <1>2, <1>3, <1>4, <1>5, <1>6 DEF ApplySql, Unrenderable, DryRun, DiscoveryFails, RecordFailure,
                                      RecordFails

LEMMA BookkeepProgress ==
    ASSUME Inductive, NEW r \in Runs, Progress(r), Bookkeep(r), Active(r)'
    PROVE  Progress(r)'
<1>1. RunsTyped /\ UNCHANGED <<op, checkout>>
  BY DEF Inductive, TypeOK, RunsTyped, Bookkeep, EnsureTracking, SeedMeta, CountRows, ImportRows,
         Recount
<1>2. \A outcome \in {"ok", "server", "refused"} : ~Stop(r, outcome)
  BY <1>1 DEF Stop, RunsTyped, Active, Waiting
<1>3. /\ pc'[r] \in {"seed", "count", "import", "recount", "resolve"}
      /\ ~op[r].dryRun /\ pc'[r] \in {"count", "import", "recount"} => op[r].kind = "import"
  BY <1>1, <1>2 DEF Bookkeep, EnsureTracking, SeedMeta, CountRows, ImportRows, Recount, Ready,
                    Goto, RunsTyped, Progress
<1>4. QED
  BY <1>1, <1>3 DEF Progress, Walking, Applying

LEMMA ProgressNext ==
    ASSUME SingleOperator, Calm, CalmProgress, [Next]_vars, NEW r \in Runs
    PROVE  Progress(r)'
<1>1. Inductive /\ Solo /\ Timely /\ RunsTyped /\ Progress(r)
  BY DEF Calm, Inductive, TypeOK, RunsTyped, CalmProgress
<1>2. CASE ~Active(r)'
  BY <1>2 DEF Active, Waiting, Progress, Walking, Applying
<1>3. CASE Active(r)'
  <2>1. CASE Step(r)
    <3>1. CASE QueryFails(r)
      BY <1>1, <1>3, <3>1 DEF QueryFails, Stop, RunsTyped, Active, Waiting
    <3>2. QED
      BY <1>1, <1>3, <2>1, <3>1, PlanProgress, ApplySqlProgress, BookkeepProgress DEF Step
  <2>2. CASE pc'[r] = "ensure"
    BY <2>2 DEF Progress, Walking, Applying
  <2>3. CASE UNCHANGED <<rows, clock, pc, op, checkout, local>>
    <3>1. \A d : Applied(d)' = Applied(d) /\ Customised(d)' = Customised(d)
      BY <2>3, TableKept
    <3>2. \A j : Gap(r, j)' = Gap(r, j) /\ (Topmost(r, j) => Topmost(r, j)') /\ At(r, j)' = At(r, j)
      BY <2>3, <3>1, GapKept
    <3>3. \A j : Applied(At(r, j))' = Applied(At(r, j))
      BY <2>3, <3>2 DEF Applied, Successful, LastStates
    <3>4. QED
      BY <1>1, <2>3, <3>2, <3>3 DEF Progress, local
  <2>4. QED
    BY <1>1, <1>3, <2>1, <2>2, <2>3, WhoMoved
<1>4. QED
  BY <1>2, <1>3

LEMMA ProgressInit == Init => CalmProgress
BY DEF Init, CalmProgress, Progress, Walking, Applying

\* A run returns Ok only at the end of its walk, or of the import.
LEMMA ReturnsOk ==
    ASSUME Inductive, [Next]_vars, NEW r \in Runs, pc[r] \in Waiting, pc'[r] = "ok"
    PROVE  Finish(r) \/ (pc[r] = "recount")
<1>1. RunsTyped /\ "ok" \notin Waiting
  BY DEF Inductive, TypeOK, RunsTyped, Waiting
<1>2. ASSUME NEW q \in Runs, Preserved(q), q # r PROVE FALSE
  BY <1>1, <1>2 DEF Preserved, Moved
<1>3. \A outcome \in {"refused", "repo", "server", "crashed"} : ~Stop(r, outcome)
  BY <1>1 DEF Stop, RunsTyped
<1>4. ~NextDatabase(r) /\ \A migrations : ~Walk(r, migrations)
  BY <1>1 DEF NextDatabase, Walk, RunsTyped
<1>5. ASSUME Bookkeep(r) PROVE pc[r] = "recount"
  BY <1>1, <1>3, <1>5 DEF Bookkeep, EnsureTracking, SeedMeta, CountRows, ImportRows, Recount,
                          Ready, Goto, RunsTyped
<1>6. ASSUME Plan(r) PROVE Finish(r)
  <2>1. ~PlanRollbackTo(r)
    <3> DEFINE walk == {m \in Applied(Db(r)) : m > op[r].number /\ m \in Fleet(checkout[r])}
               stopped == {m \in walk : Gate(m, op[r].ackIrreversible) # "pass"}
    <3>1. PlanRollbackTo(r) => \/ Walk(r, walk)
                               \/ Stop(r, Gate(Max(stopped), op[r].ackIrreversible))
      BY Zenon DEF PlanRollbackTo
    <3>2. Gate(Max(stopped), op[r].ackIrreversible) # "ok"
      BY Zenon DEF Gate
    <3>3. QED
      BY <1>1, <1>4, <3>1, <3>2 DEF Stop, RunsTyped
  <2>2. ~ResolveTargets(r) /\ ~ReadApplied(r)
    BY <1>1, <1>3 DEF ResolveTargets, ReadApplied, RunsTyped
  <2>3. QED
    BY <1>3, <1>4, <1>6, <2>1, <2>2
       DEF Plan, PlanUpgrade, PlanRollbackOne, PlanRemoveTargeted, PlanStamp, PlanApply
<1>7. ~ApplySql(r) /\ ~QueryFails(r) /\ ~Crash(r)
  BY <1>1, <1>3, <1>4 DEF ApplySql, QueryFails, Crash, RecordStamp, Unrenderable, DryRun,
       RecordStarted, ExecuteStatement, StatementFails, DiscoveryFails, RecordFailure,
       RecordSuccess, RecordFails, NextMigration, Goto, RunsTyped
<1>8. \A o \in Operations : ~Start(r, o)
  BY DEF Start, Waiting
<1>9. CASE UNCHANGED pc
  BY <1>1, <1>9
<1>10. CASE \E q \in Runs \ {r} : Step(q) \/ Crash(q) \/ \E o \in Operations : Start(q, o)
  BY <1>2, <1>10, StepPreserves, CrashPreserves, StartPreserves
<1>11. QED
  BY <1>5, <1>6, <1>7, <1>8, <1>9, <1>10 DEF Next, Step, Land, Pull, vars

\* With one operator at a time, a run that returns Ok has brought every target
\* database where it was asked to (the loops of actions.rs:17-44, 115-136,
\* 165-203, 215-239, 341-363), though it reads the tracking table anew for
\* each database, skips what it finds done and may walk a database twice.
THEOREM OkMeansReachedHolds ==
    ASSUME SingleOperator
    PROVE  Spec => OkMeansReached
<1>1. Init => Calm /\ CalmProgress
  BY CalmInit, ProgressInit
<1>2. Calm /\ CalmProgress /\ [Next]_vars => (Calm /\ CalmProgress)'
  BY CalmNext, ProgressNext DEF CalmProgress
<1>3. Calm /\ CalmProgress /\ [Next]_vars =>
        [\A r \in Runs :
            pc[r] \in Waiting /\ pc'[r] = "ok" /\ ~op[r].dryRun => Reached(op[r], checkout[r])]_vars
  <2> SUFFICES ASSUME Calm, CalmProgress, [Next]_vars, NEW r \in Runs,
                      pc[r] \in Waiting, pc'[r] = "ok", ~op[r].dryRun
               PROVE  Reached(op[r], checkout[r])
    OBVIOUS
  <2>1. /\ TypeOK /\ Inductive /\ op[r] \in Operation /\ checkout[r] \in RepoVersions
    BY OperationType DEF Calm, Inductive
  <2>2. PICK o, v : o = op[r] /\ v = checkout[r]
    OBVIOUS
  <2>3. CASE pc[r] = "recount"
    <3>1. op[r].kind = "import"
      BY <2>3 DEF CalmProgress, Progress
    <3>2. \A d : Missing(o, v, d) = {}
      BY <2>2, <3>1, Zenon DEF Missing
    <3>3. QED
      BY <2>1, <2>2, <3>2, ReachedWithoutMissing
  <2>4. CASE Finish(r)
    <3>1. pc[r] = "database" /\ dbs[r] = {}
      BY <2>4 DEF Finish
    <3>2. \A i \in Positions(op[r].targets) : Missing(o, v, Listed(op[r].targets)[i]) = {}
      BY <2>2, <3>1 DEF CalmProgress, Progress, Gap, At
    <3>3. \A d \in TargetDatabases(o) : Missing(o, v, d) = {}
      BY <2>2, <3>2 DEF TargetDatabases
    <3>4. QED
      BY <2>1, <2>2, <3>3, ReachedWithoutMissing
  <2>5. QED
    BY <2>1, <2>3, <2>4, ReturnsOk
<1>4. QED
  BY <1>1, <1>2, <1>3, PTL DEF Spec, OkMeansReached

-----------------------------------------------------------------------------
(* The fleet is a ChainLedger. *)

LEMMA ChainOfCheckout ==
    ASSUME OneCheckout, NEW v \in RepoVersions
    PROVE  FleetChain = Fleet(v)
BY DEF OneCheckout, FleetChain

\* What is read off sorted rows is sorted.
LEMMA SortedSets ==
    ASSUME Sorted, NEW d
    PROVE  Applied(d) \subseteq FleetChain /\ Customised(d) \cap FleetChain = {}
BY DEF Sorted, Applied, Customised, Successful, LastStates

\* Only a run at a migration writes a row.
LEMMA RowStep ==
    ASSUME SingleOperator, OneCheckout, Inductive, Timely, [Next]_vars
    PROVE  \/ UNCHANGED rows
           \/ \E r \in Runs : \E status \in Statuses : \E new :
                 pc[r] \in Applying /\ ~op[r].dryRun /\ FreshRow(r, status, new)
<1>1. ASSUME NEW r \in Runs, Bookkeep(r) PROVE UNCHANGED rows
  BY <1>1 DEF Bookkeep, EnsureTracking, SeedMeta, CountRows, ImportRows, Recount, server, OneCheckout
<1>2. ASSUME NEW r \in Runs, Plan(r) \/ QueryFails(r) \/ Crash(r) PROVE UNCHANGED rows
  BY <1>2 DEF Plan, QueryFails, Crash, ResolveTargets, Finish, ReadApplied, PlanUpgrade,
              PlanRollbackTo, PlanRollbackOne, PlanRemoveTargeted, PlanStamp, PlanApply, server
<1>3. ASSUME NEW r \in Runs, ApplySql(r)
      PROVE  \/ UNCHANGED rows
             \/ \E status \in Statuses : \E new :
                   pc[r] \in Applying /\ ~op[r].dryRun /\ FreshRow(r, status, new)
  <2>1. Placed(r)
    BY DEF Inductive
  <2>2. \/ UNCHANGED rows
        \/ pc[r] \in Applying /\ ~op[r].dryRun /\ \E status \in Statuses : Insert(r, status)
    BY <1>3, <2>1 DEF ApplySql, RecordStamp, Unrenderable, DryRun, RecordStarted, ExecuteStatement,
                StatementFails, DiscoveryFails, RecordFailure, RecordSuccess, Recorded,
                RecordFails, AtMigration, Applying, Executing, Statuses, server, Placed
  <2>3. QED
    BY <2>2, InsertIsFresh
<1>4. CASE \/ UNCHANGED vars \/ Pull
           \/ (\E e \in late : Land(e)) \/ \E r \in Runs, o \in Operations : Start(r, o)
  BY <1>4 DEF vars, Pull, Land, Start, server
<1>5. QED
  BY <1>1, <1>2, <1>3, <1>4 DEF Next, Step

\* The migration a run writes about is one that was missing.
LEMMA CurrentIsMissing ==
    ASSUME Inductive, NEW r \in Runs, Progress(r), pc[r] \in Applying, ~op[r].dryRun
    PROVE  /\ Current(r) \in todo[r] /\ todo[r] \subseteq Nat
           /\ todo[r] = Missing(op[r], checkout[r], Db(r))
           /\ op[r].kind = "rollback_one" /\ ~RemovesTargeted(op[r], checkout[r]) =>
                  \A m \in Applied(Db(r)) : m <= op[r].number
           /\ op[r].kind = "apply" => op[r].number \in checkout[r].targeted
<1>1. TypeOK /\ Placed(r) /\ dbs[r] # {} /\ todo[r] # {} /\ Entry(op[r], checkout[r]) = "ensure"
  BY DEF Inductive, Placed, Walking, Applying, Waiting
<1>2. At(r, Min(dbs[r])) = Db(r) /\ Current(r) \in todo[r]
  BY <1>1, AtCurrent, CurrentType
<1>3. todo[r] = Gap(r, Min(dbs[r])) /\ Topmost(r, Min(dbs[r]))
  BY DEF Progress
<1>4. todo[r] \subseteq Nat
  <2>1. todo[r] \subseteq Migrations
    BY <1>1 DEF TypeOK
  <2>2. \A m \in 0..MaxNumber : m \in Nat
    BY RepoAssumption
  <2>3. QED
    BY <2>1, <2>2, RepoAssumption
<1>5. op[r].kind = "apply" => op[r].number \in checkout[r].targeted
  BY <1>1, OperationType, Admitted
<1>6. QED
  BY <1>2, <1>3, <1>4, <1>5 DEF Gap, Topmost

\* One migration of each kind of run, and where it stands in the chain
LEMMA WhereCurrentStands ==
    ASSUME OneCheckout, Inductive, Sorted, NEW r \in Runs, Progress(r), pc[r] \in Applying,
           ~op[r].dryRun
    PROVE  \/ /\ ActionOf(op[r]) \in {"upgrade", "stamp"}
              /\ Current(r) \in FleetChain \ Applied(Db(r))
              /\ \A o \in FleetChain \ Applied(Db(r)) : Current(r) <= o
           \/ /\ ActionOf(op[r]) = "rollback"
              /\ Current(r) \in Applied(Db(r))
              /\ \A o \in Applied(Db(r)) : o <= Current(r)
           \/ ActionOf(op[r]) \in {"apply", "rollback"} /\ Current(r) \notin FleetChain
<1> DEFINE m == Current(r)
           d == Db(r)
<1>1. /\ m \in todo[r] /\ todo[r] \subseteq Nat
      /\ todo[r] = Missing(op[r], checkout[r], d)
      /\ op[r].kind = "rollback_one" /\ ~RemovesTargeted(op[r], checkout[r]) =>
             \A n \in Applied(d) : n <= op[r].number
      /\ op[r].kind = "apply" => op[r].number \in checkout[r].targeted
  BY CurrentIsMissing
<1>2. /\ TypeOK /\ op[r] \in Operation /\ op[r].number \in Nat /\ op[r].kind \in Kinds
      /\ checkout[r] \in RepoVersions /\ checkout[r].chain \subseteq Migrations
  BY OperationType DEF Inductive
<1>3. FleetChain = Fleet(checkout[r])
  BY <1>2, ChainOfCheckout
<1>4. FleetChain \subseteq Nat /\ todo[r] \subseteq 0..MaxNumber /\ MaxNumber \in Nat
  <2>1. FleetChain \subseteq Migrations /\ todo[r] \subseteq Migrations
    BY <1>2, <1>3 DEF Fleet, TypeOK
  <2>2. \A n \in 0..MaxNumber : n \in Nat
    BY RepoAssumption
  <2>3. QED
    BY <2>1, <2>2, RepoAssumption
<1>5. Applied(d) \subseteq FleetChain /\ Customised(d) \cap FleetChain = {}
  BY SortedSets
<1>6. op[r].kind # "rollback_to" => \A o \in todo[r] : m <= o
  <2>1. \A o \in todo[r] : Min(todo[r]) =< o
    BY <1>1, MinAttained, Zenon
  <2>2. QED
    BY <2>1 DEF Current
<1>7. CASE op[r].kind = "upgrade"
  <2>1. todo[r] = {n \in Fleet(checkout[r]) : (op[r].bounded => n <= op[r].number)
                                              /\ n \notin Applied(d) \cup Customised(d)}
    BY <1>1, <1>7, Zenon DEF Missing
  <2>2. m \in FleetChain \ Applied(d) /\ (op[r].bounded => m <= op[r].number)
    BY <1>1, <1>3, <2>1
  <2>3. ASSUME NEW o \in FleetChain \ Applied(d) PROVE m <= o
    <3>1. CASE o \in todo[r]
      BY <1>6, <1>7, <3>1
    <3>2. CASE o \notin todo[r]
      <4>1. op[r].bounded /\ ~(o <= op[r].number)
        BY <1>3, <1>5, <2>1, <3>2
      <4>2. QED
        BY <1>1, <1>2, <1>4, <2>2, <4>1
    <3>3. QED
      BY <3>1, <3>2
  <2>4. ActionOf(op[r]) = "upgrade"
    BY <1>7 DEF ActionOf
  <2>5. QED
    BY <2>2, <2>3, <2>4
<1>8. CASE op[r].kind = "stamp"
  <2>1. todo[r] = {n \in Fleet(checkout[r]) : n <= op[r].number /\ n \notin Applied(d)}
    BY <1>1, <1>8, Zenon DEF Missing
  <2>2. ASSUME NEW o \in FleetChain \ Applied(d) PROVE m <= o
    <3>1. CASE o \in todo[r]
      BY <1>6, <1>8, <3>1
    <3>2. CASE o \notin todo[r]
      <4>1. ~(o <= op[r].number) /\ m <= op[r].number
        BY <1>1, <1>3, <2>1, <3>2
      <4>2. QED
        BY <1>1, <1>2, <1>4, <4>1
    <3>3. QED
      BY <3>1, <3>2
  <2>3. ActionOf(op[r]) = "stamp"
    BY <1>8 DEF ActionOf
  <2>4. QED
    BY <1>1, <1>3, <2>1, <2>2, <2>3
<1>9. CASE op[r].kind = "apply"
  <2>1. todo[r] = {op[r].number} \ Customised(d)
    BY <1>1, <1>9, Zenon DEF Missing
  <2>2. m \notin FleetChain
    BY <1>1, <1>3, <1>9, <2>1 DEF Fleet
  <2>3. QED
    BY <1>9, <2>2 DEF ActionOf
<1>10. CASE op[r].kind = "rollback_to"
  <2>1. todo[r] = {n \in Applied(d) \cap Fleet(checkout[r]) : n > op[r].number}
    BY <1>1, <1>10, Zenon DEF Missing
  <2>2. \A o \in todo[r] : m >= o
    <3>1. todo[r] # {} /\ m = Max(todo[r])
      BY <1>1, <1>10 DEF Current
    <3>2. QED
      BY <1>4, <3>1, MaxAttained, Zenon
  <2>3. ASSUME NEW o \in Applied(d) PROVE o <= m
    <3>1. o \in Nat /\ m \in Nat /\ m > op[r].number /\ o \in FleetChain
      BY <1>1, <1>4, <1>5, <2>1
    <3>2. CASE o \in todo[r]
      BY <2>2, <3>1, <3>2
    <3>3. CASE o \notin todo[r]
      <4>1. ~(o > op[r].number)
        BY <1>3, <2>1, <3>1, <3>3
      <4>2. QED
        BY <1>2, <3>1, <4>1
    <3>4. QED
      BY <3>2, <3>3
  <2>4. ActionOf(op[r]) = "rollback"
    BY <1>10 DEF ActionOf
  <2>5. QED
    BY <1>1, <2>1, <2>3, <2>4
<1>11. CASE op[r].kind = "rollback_one"
  <2>1. ActionOf(op[r]) = "rollback"
    BY <1>11 DEF ActionOf
  <2>2. todo[r] = {op[r].number} \cap
                     (IF RemovesTargeted(op[r], checkout[r]) THEN Customised(d) ELSE Applied(d))
    BY <1>1, <1>11, Zenon DEF Missing
  <2>3. CASE RemovesTargeted(op[r], checkout[r])
    BY <1>1, <1>5, <2>1, <2>2, <2>3
  <2>4. CASE ~RemovesTargeted(op[r], checkout[r])
    BY <1>1, <1>11, <2>1, <2>2, <2>4
  <2>5. QED
    BY <2>3, <2>4
<1>12. CASE op[r].kind = "import"
  BY <1>1, <1>12, Zenon DEF Missing
<1>13. QED
  BY <1>2, <1>7, <1>8, <1>9, <1>10, <1>11, <1>12 DEF Kinds

\* A new row is of the chain or of the customisations, as its action says.
LEMMA SortedNext ==
    ASSUME SingleOperator, OneCheckout, Calm, CalmProgress, Sorted, [Next]_vars
    PROVE  Sorted'
<1>1. CASE UNCHANGED rows
  BY <1>1 DEF Sorted
<1>2. ASSUME NEW r \in Runs, NEW status \in Statuses, NEW new,
             pc[r] \in Applying, ~op[r].dryRun, FreshRow(r, status, new)
      PROVE  Sorted'
  <2>1. /\ new.action \in {"upgrade", "stamp"} => new.migration \in FleetChain
        /\ new.action = "apply" => new.migration \notin FleetChain
    BY <1>2, WhereCurrentStands DEF Calm, CalmProgress, FreshRow
  <2>2. QED
    BY <1>2, <2>1 DEF Sorted, FreshRow
<1>3. QED
  BY <1>1, <1>2, RowStep DEF Calm

LEMMA LedgerNext ==
    ASSUME SingleOperator, OneCheckout, Calm, CalmProgress, Sorted, [Next]_vars
    PROVE  [Ledger!Next]_AppliedSets
<1>1. CASE UNCHANGED rows
  BY <1>1, TableKept DEF AppliedSets
<1>2. ASSUME NEW r \in Runs, NEW status \in Statuses, NEW new,
             pc[r] \in Applying, ~op[r].dryRun, FreshRow(r, status, new)
      PROVE  [Ledger!Next]_AppliedSets
  <2>1. PICK d, m : d = Db(r) /\ m = Current(r)
    OBVIOUS
  <2>2. /\ rows' = rows \cup {new} /\ ~Later(new, new)
        /\ \A o \in rows : Later(new, o) /\ ~Later(o, new)
        /\ new.db = d /\ new.migration = m /\ new.action = ActionOf(op[r]) /\ new.status = status
    BY <1>2, <2>1 DEF FreshRow
  <2>3. d \in Databases
    BY <1>2, <2>1, DbType DEF Calm, Inductive, Placed, Applying, Walking
  <2>4. \/ ActionOf(op[r]) \in {"upgrade", "stamp"} /\ m \in FleetChain \ Applied(d)
              /\ \A o \in FleetChain \ Applied(d) : m <= o
        \/ ActionOf(op[r]) = "rollback" /\ m \in Applied(d) /\ \A o \in Applied(d) : o <= m
        \/ ActionOf(op[r]) \in {"apply", "rollback"} /\ m \notin FleetChain
    BY <1>2, <2>1, WhereCurrentStands DEF Calm, CalmProgress
  <2>5. \A c \in Databases : c # d => Applied(c)' = Applied(c)
    BY <2>2, SetsWith
  <2>6. status = "started" => Applied(d)' = Applied(d)
    BY <2>2, SetsWith
  <2>7. status # "started" =>
           Applied(d)' = (Applied(d) \ {m}) \cup
               {n \in {m} : status = "success" /\ new.action \in {"upgrade", "stamp"}}
    BY <2>2, SetsWith
  <2>8. \/ Applied(d)' = Applied(d)
        \/ /\ m \in FleetChain \ Applied(d) /\ \A o \in FleetChain \ Applied(d) : m <= o
           /\ Applied(d)' = Applied(d) \cup {m}
        \/ /\ m \in Applied(d) /\ \A o \in Applied(d) : o <= m
           /\ Applied(d)' = Applied(d) \ {m}
    BY <2>2, <2>4, <2>6, <2>7, SortedSets
  <2>9. /\ AppliedSets[d] = Applied(d)
        /\ \A S : Applied(d)' = S => AppliedSets' = [AppliedSets EXCEPT ![d] = S]
    BY <2>3, <2>5 DEF AppliedSets
  <2>10. CASE Applied(d)' = Applied(d)
    BY <2>5, <2>10 DEF AppliedSets
  <2>11. CASE /\ m \in FleetChain \ Applied(d) /\ \A o \in FleetChain \ Applied(d) : m <= o
              /\ Applied(d)' = Applied(d) \cup {m}
    <3>1. Ledger!Push(d)
      BY <2>9, <2>11 DEF Ledger!Push
    <3>2. QED
      BY <2>3, <3>1 DEF Ledger!Next
  <2>12. CASE /\ m \in Applied(d) /\ \A o \in Applied(d) : o <= m
              /\ Applied(d)' = Applied(d) \ {m}
    <3>1. Ledger!Pop(d)
      BY <2>9, <2>12 DEF Ledger!Pop
    <3>2. QED
      BY <2>3, <3>1 DEF Ledger!Next
  <2>13. QED
    BY <2>8, <2>10, <2>11, <2>12
<1>3. QED
  BY <1>1, <1>2, RowStep DEF Calm

LEMMA LedgerInit == Init => Ledger!Init /\ Sorted
<1> SUFFICES ASSUME Init PROVE Ledger!Init /\ Sorted
  OBVIOUS
<1>1. \A d : Applied(d) = {}
  BY DEF Init, Applied, Successful, LastStates
<1>2. QED
  BY <1>1 DEF Init, Ledger!Init, AppliedSets, Sorted

\* With one operator at a time and one checkout, the runner implements the
\* ChainLedger, whatever crashes and fails: an upgrade or a stamp puts the
\* least missing migration on a database, a rollback takes its greatest applied
\* one off, and applying or removing a customisation leaves the chain alone
\* (actions.rs:17-44, 115-136, 165-203, 215-239, tracking.rs:74-170).
THEOREM RunnerIsLedger ==
    ASSUME SingleOperator, OneCheckout
    PROVE  Spec => LedgerSpec
<1>1. Init => Calm /\ CalmProgress /\ Sorted /\ Ledger!Init
  BY CalmInit, ProgressInit, LedgerInit
<1>2. Calm /\ CalmProgress /\ Sorted /\ [Next]_vars => (Calm /\ CalmProgress /\ Sorted)'
  BY CalmNext, ProgressNext, SortedNext DEF CalmProgress
<1>3. Calm /\ CalmProgress /\ Sorted /\ [Next]_vars => [Ledger!Next]_AppliedSets
  BY LedgerNext
<1>4. QED
  BY <1>1, <1>2, <1>3, PTL DEF Spec, LedgerSpec, Ledger!Spec

-----------------------------------------------------------------------------
(* The ledger, and with it every database of the fleet, stands at a position of the chain. *)

\* What is AppliedSets is of the chain, and nothing below it is missing.
PrefixInv ==
    /\ AppliedSets \in [Databases -> SUBSET FleetChain]
    /\ Ledger!IsPrefix

LEMMA ChainOfNumbers == FleetChain \subseteq Nat
<1>1. 0..MaxNumber \subseteq Nat
  BY RepoAssumption
<1>2. \A v \in RepoVersions : Fleet(v) \subseteq Migrations
  BY RepoAssumption DEF Repo, Fleet
<1>3. QED
  BY <1>1, <1>2, RepoAssumption DEF FleetChain

LEMMA PushKeepsPrefix ==
    ASSUME PrefixInv, NEW d \in Databases, Ledger!Push(d)
    PROVE  PrefixInv'
<1>1. PICK m \in FleetChain \ AppliedSets[d] :
        /\ \A o \in FleetChain \ AppliedSets[d] : m <= o
        /\ AppliedSets' = [AppliedSets EXCEPT ![d] = @ \cup {m}]
  BY DEF Ledger!Push
<1>2. AppliedSets' \in [Databases -> SUBSET FleetChain]
  BY <1>1 DEF PrefixInv
<1>3. ASSUME NEW c \in Databases, NEW n \in AppliedSets'[c], NEW o \in FleetChain, o < n
      PROVE  o \in AppliedSets'[c]
  <2>1. CASE n \in AppliedSets[c]
    BY <1>1, <1>3, <2>1 DEF PrefixInv, Ledger!IsPrefix
  <2>2. CASE n \notin AppliedSets[c]
    <3>1. c = d /\ n = m
      BY <1>1, <1>3, <2>2 DEF PrefixInv
    <3>2. ~ (m <= o)
      BY <1>1, <1>3, <3>1, ChainOfNumbers
    <3>3. QED
      BY <1>1, <3>1, <3>2 DEF PrefixInv
  <2>3. QED
    BY <2>1, <2>2
<1>4. QED
  BY <1>2, <1>3 DEF PrefixInv, Ledger!IsPrefix

LEMMA PopKeepsPrefix ==
    ASSUME PrefixInv, NEW d \in Databases, Ledger!Pop(d)
    PROVE  PrefixInv'
<1>1. PICK m \in AppliedSets[d] :
        /\ \A o \in AppliedSets[d] : o <= m
        /\ AppliedSets' = [AppliedSets EXCEPT ![d] = @ \ {m}]
  BY DEF Ledger!Pop
<1>2. AppliedSets' \in [Databases -> SUBSET FleetChain]
  BY <1>1 DEF PrefixInv
<1>3. ASSUME NEW c \in Databases, NEW n \in AppliedSets'[c], NEW o \in FleetChain, o < n
      PROVE  o \in AppliedSets'[c]
  <2>1. n \in AppliedSets[c] /\ (c = d => n # m)
    BY <1>1, <1>3 DEF PrefixInv
  <2>2. o \in AppliedSets[c]
    BY <1>3, <2>1 DEF PrefixInv, Ledger!IsPrefix
  <2>3. c = d => n <= m /\ m \in Nat /\ n \in Nat
    BY <1>1, <2>1, ChainOfNumbers DEF PrefixInv
  <2>4. c = d => o # m
    BY <1>3, <2>3
  <2>5. QED
    BY <1>1, <2>2, <2>4 DEF PrefixInv
<1>4. QED
  BY <1>2, <1>3 DEF PrefixInv, Ledger!IsPrefix

\* A database is never left with a gap below its head: what the walks of the
\* runner (actions.rs:17-44, 115-136, 165-203) implement keeps the applied set
\* a prefix of the chain.
THEOREM LedgerKeepsPrefix == LedgerSpec => []Ledger!IsPrefix
<1>1. Ledger!Init => PrefixInv
  BY DEF Ledger!Init, PrefixInv, Ledger!IsPrefix
<1>2. PrefixInv /\ [Ledger!Next]_AppliedSets => PrefixInv'
  <2>1. PrefixInv /\ UNCHANGED AppliedSets => PrefixInv'
    BY DEF PrefixInv, Ledger!IsPrefix
  <2>2. QED
    BY <2>1, PushKeepsPrefix, PopKeepsPrefix DEF Ledger!Next
<1>3. PrefixInv => Ledger!IsPrefix
  BY DEF PrefixInv
<1>4. QED
  BY <1>1, <1>2, <1>3, PTL DEF LedgerSpec, Ledger!Spec

\* So no interruption of a rollout leaves a hole in a database: with one
\* operator at a time and one checkout, a migration is applied only where all
\* that precede it in the chain are (actions.rs:17-44, 115-136, 165-203).
THEOREM FleetIsPrefix ==
    ASSUME SingleOperator, OneCheckout
    PROVE  Spec => []Ledger!IsPrefix
BY RunnerIsLedger, LedgerKeepsPrefix, PTL
=============================================================================
