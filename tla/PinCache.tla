------------------------------ MODULE PinCache ------------------------------
(***************************************************************************)
(* The cache of pinned ClickHouse binaries (zedb-ch/src/pin.rs): a         *)
(* directory per version, shared by every zeDB process of a user.  Within  *)
(* a process one lock serialises the installs; between processes nothing   *)
(* does.  A process may die between any two steps, and the machine may     *)
(* lose what was not synced.                                               *)
(*                                                                         *)
(* Files are told apart by what they hold.  A binary is fresh as           *)
(* downloaded; macOS rewrites it when it first runs, and then it is        *)
(* rested.  A download goes to a temporary file of its own, so it is one   *)
(* step: what others see of it is the rename onto the staging path.        *)
(***************************************************************************)
EXTENDS Naturals

CONSTANTS
    Processes, Tasks, Owner,    \* [Tasks -> Processes]
    Versions, Trusted,          \* versions asked for, and those of the trust manifest
    Rank, Minor,                \* [Versions -> Nat]: the order of versions, and their major.minor
    MaxAsked, MaxFaults,
    None

\* The trust manifest is a finite list, so one of its releases is the newest.
ASSUME PinAssumption ==
    /\ Owner \in [Tasks -> Processes]
    /\ Trusted \subseteq Versions /\ Trusted # {}
    /\ Rank \in [Versions -> Nat] /\ Minor \in [Versions -> Nat]
    /\ \A v, w \in Versions : Rank[v] = Rank[w] => v = w
    /\ \E newest \in Trusted : \A v \in Trusted : Rank[v] <= Rank[newest]
    /\ MaxAsked \in Nat /\ MaxFaults \in Nat
    /\ None \notin Versions \cup Tasks

VARIABLES
    platform,       \* on Linux the release is an archive, and is kept
    dir,            \* [Versions -> the files of its directory]
    lock,           \* DOWNLOAD_LOCK of each process
    task,           \* calls of ensure_binary
    used,           \* what has been spent of the bounds
    pinned,         \* auxiliary: what ensure_binary last answered for a version
    forgotten,      \* auxiliary: versions whose last answer is not, or no more, on disk
    disturbed       \* auxiliary: versions two processes installed at once, or a timeout hit

vars == <<platform, dir, lock, task, used, pinned, forgotten, disturbed>>
local == <<platform, used>>
answers == <<pinned, forgotten>>

Whole == {"fresh", "rested"}
Directory == [binary : Whole \cup {"none", "torn"}, staging : {"none", "fresh", "torn"},
              digest : Whole \cup {"none", "bad"}, archive : {"none", "whole", "torn"},
              alias : Trusted \cup {None}]
Empty == [binary |-> "none", staging |-> "none", digest |-> "none", archive |-> "none",
          alias |-> None]

\* Where a call is while it works on the directory of its version
Installing == {"look", "probe", "discard", "sweep", "clear", "fetch", "install", "keep",
               "prove", "hash", "record"}
\* hash: the digest it has computed; got: its answer; smooth: auxiliary, nothing got in its way
Call == [at : {"idle", "queue", "unalias", "alias"} \cup Installing,
         want : Versions \cup {None}, version : Versions \cup {None}, exact : BOOLEAN,
         hash : Whole \cup {"none"}, got : Trusted \cup {None}, smooth : BOOLEAN]
Asking(v) == [at |-> "queue", want |-> v, version |-> v, exact |-> TRUE, hash |-> "none",
              got |-> None, smooth |-> TRUE]
NoCall == [Asking(None) EXCEPT !.at = "idle", !.smooth = FALSE]

Init ==
    /\ platform \in {"macos", "linux"}
    /\ dir = [v \in Versions |-> Empty]
    /\ lock = [p \in Processes |-> None]
    /\ task = [t \in Tasks |-> NoCall]
    /\ used = [asked |-> 0, faults |-> 0]
    /\ pinned = [v \in Versions |-> None]
    /\ forgotten = {}
    /\ disturbed = {}

-----------------------------------------------------------------------------
\* What the cache accepts (verify_cached_binary): a binary that matches its
\* digest, or on Linux, where there is none, the archive it came from.

Recorded(f) == f.digest \notin {"none", "bad"}
Accepts(v) ==
    /\ v \in Trusted
    /\ IF Recorded(dir[v]) THEN dir[v].digest = dir[v].binary
       ELSE platform = "linux" /\ dir[v].archive = "whole" /\ dir[v].binary = "fresh"

\* An accepted binary's digest is on record afterwards.
Probed(f) == IF Recorded(f) THEN f ELSE [f EXCEPT !.digest = f.binary]
\* A binary that has run
Ran(f) == IF platform = "macos" THEN [f EXCEPT !.binary = "rested"] ELSE f

\* The release that stands in for one that is not published: the newest of its
\* major.minor, or the nearest newer one, or the newest there is.
Closest(v) ==
    LET same == {c \in Trusted : Minor[c] = Minor[v]}
        newer == {c \in Trusted : Rank[c] > Rank[v]}
        Newest(releases) == CHOOSE c \in releases : \A d \in releases : Rank[d] <= Rank[c]
        Oldest(releases) == CHOOSE c \in releases : \A d \in releases : Rank[d] >= Rank[c]
    IN IF same # {} THEN Newest(same)
       ELSE IF newer # {} THEN Oldest(newer) ELSE Newest(Trusted)

\* cached_binary_or_fallback, which takes no lock: `zedb regen` and its like
Offline(v) ==
    IF Accepts(v) THEN v
    ELSE IF dir[v].alias # None /\ Accepts(dir[v].alias) THEN dir[v].alias
    ELSE None

Consult(v) ==
    /\ Offline(v) # None
    /\ dir' = [dir EXCEPT ![Offline(v)] = Ran(Probed(@))]
    /\ UNCHANGED <<local, lock, task, answers, disturbed>>

-----------------------------------------------------------------------------
\* Control of a call

Version(t) == task[t].version
Files(t) == dir[Version(t)]
At(t, step) == task[t].at = step
Goto(t, step) == task' = [task EXCEPT ![t].at = step]
Unlock(t) == lock' = [lock EXCEPT ![Owner[t]] = None]
Write(t, files) == dir' = [dir EXCEPT ![Version(t)] = files]
Fault == used.faults < MaxFaults /\ used' = [used EXCEPT !.faults = @ + 1]

Others(t) == {u \in Tasks : /\ Owner[u] # Owner[t] /\ task[u].at \in Installing
                            /\ Version(u) = Version(t)}

\* ensure_exact_binary returns an error; the lock goes with the guard.
Fail(t) == Unlock(t) /\ task' = [task EXCEPT ![t].at = "idle"]
Broken(t) == Unlock(t) /\ task' = [task EXCEPT ![t].at = "idle", ![t].smooth = FALSE]

Fallback(v) == IF dir[v].alias # None THEN dir[v].alias ELSE Closest(v)

\* It has no such release: the call goes on with the fallback, which is the
\* remembered one if there is one (ensure_binary_with_progress).
Refuse(t, smooth) ==
    /\ Unlock(t)
    /\ task' = [task EXCEPT ![t] =
          IF @.exact
            THEN [@ EXCEPT !.at = "queue", !.exact = FALSE, !.version = Fallback(task[t].want),
                         !.smooth = smooth]
            ELSE [@ EXCEPT !.at = "idle", !.smooth = smooth]]

\* It has the binary; a fallback is to be remembered.
Succeed(t) ==
    /\ Unlock(t)
    /\ IF task[t].exact
         THEN /\ task' = [task EXCEPT ![t].at = "idle", ![t].got = Version(t)]
              /\ pinned' = [pinned EXCEPT ![Version(t)] = Version(t)]
              /\ forgotten' = forgotten \ {Version(t)}
         ELSE Goto(t, "unalias") /\ UNCHANGED answers

-----------------------------------------------------------------------------
\* ensure_exact_binary

Ask(t, v) ==
    /\ At(t, "idle") /\ used.asked < MaxAsked
    /\ used' = [used EXCEPT !.asked = @ + 1]
    /\ task' = [task EXCEPT ![t] = Asking(v)]
    /\ UNCHANGED <<platform, dir, lock, answers, disturbed>>

\* Mutant: a call does not wait for the one before it.
EnterAtOnce(t) ==
    /\ At(t, "queue") /\ Goto(t, "look")
    /\ lock' = [lock EXCEPT ![Owner[t]] = t]
    /\ UNCHANGED <<local, dir, answers, disturbed>>

Enter(t) ==
    /\ At(t, "queue") /\ lock[Owner[t]] = None
    /\ lock' = [lock EXCEPT ![Owner[t]] = t]
    /\ task' = [u \in Tasks |->
          IF u = t THEN [task[t] EXCEPT !.at = "look", !.smooth = @ /\ Others(t) = {}]
          ELSE IF u \in Others(t) THEN [task[u] EXCEPT !.smooth = FALSE]
          ELSE task[u]]
    /\ disturbed' = IF Others(t) = {} THEN disturbed ELSE disturbed \cup {Version(t)}
    /\ UNCHANGED <<local, dir, answers>>

\* Mutant: a binary without its digest is an error to report.
LookAndReport(t) ==
    /\ At(t, "look")
    /\ \/ Files(t).binary = "none" /\ Goto(t, "clear") /\ UNCHANGED <<dir, lock>>
       \/ /\ Accepts(Version(t)) /\ Goto(t, "probe") /\ Write(t, Probed(Files(t)))
          /\ UNCHANGED lock
       \/ Files(t).binary # "none" /\ ~Accepts(Version(t)) /\ Fail(t) /\ UNCHANGED dir
    /\ UNCHANGED <<local, answers, disturbed>>

\* Is there a binary, and is it the one that was installed?
Look(t) ==
    /\ At(t, "look")
    /\ \/ Files(t).binary = "none" /\ Goto(t, "clear") /\ UNCHANGED dir
       \/ Accepts(Version(t)) /\ Goto(t, "probe") /\ Write(t, Probed(Files(t)))
       \/ /\ Files(t).binary # "none" /\ ~Accepts(Version(t))
          /\ Goto(t, "discard") /\ UNCHANGED dir
    /\ UNCHANGED <<local, lock, answers, disturbed>>

\* It runs and names its version, or fails to in time.
Probe(t) ==
    /\ At(t, "probe")
    /\ \/ /\ Files(t).binary \in Whole /\ Write(t, Ran(Files(t)))
          /\ Succeed(t) /\ UNCHANGED <<used, disturbed>>
       \/ /\ Files(t).binary \notin Whole /\ Goto(t, "discard")
          /\ UNCHANGED <<dir, lock, answers, used, disturbed>>
       \/ /\ Fault /\ task' = [task EXCEPT ![t].at = "discard", ![t].smooth = FALSE]
          /\ disturbed' = disturbed \cup {Version(t)}
          /\ UNCHANGED <<dir, lock, answers>>
    /\ UNCHANGED platform

\* remove_file fails on a file that another process has removed.
Discard(t) ==
    /\ At(t, "discard")
    /\ IF Files(t).binary = "none"
         THEN Fail(t) /\ UNCHANGED dir
         ELSE Goto(t, "sweep") /\ Write(t, [Files(t) EXCEPT !.binary = "none"]) /\ UNCHANGED lock
    /\ UNCHANGED <<local, answers, disturbed>>

Sweep(t) ==
    /\ At(t, "sweep") /\ Goto(t, "clear")
    /\ Write(t, [Files(t) EXCEPT !.digest = "none", !.archive = "none"])
    /\ UNCHANGED <<local, lock, answers, disturbed>>

Clear(t) ==
    /\ At(t, "clear")
    /\ Write(t, [Files(t) EXCEPT !.staging = "none"])
    /\ IF Version(t) \in Trusted THEN Goto(t, "fetch") /\ UNCHANGED lock
                                 ELSE Refuse(t, task[t].smooth)
    /\ UNCHANGED <<local, answers, disturbed>>

\* The release is found and downloaded under its digest; neither channel has
\* it; or the network fails, or the archive is not what was announced.
Downloaded(t) ==
    /\ Goto(t, "install") /\ Write(t, [Files(t) EXCEPT !.staging = "fresh"])
    /\ UNCHANGED <<lock, used>>
NotPublished(t) == Fault /\ Refuse(t, FALSE) /\ UNCHANGED dir
DownloadFails(t) == Fault /\ Broken(t) /\ UNCHANGED dir

Fetch(t) ==
    /\ At(t, "fetch")
    /\ Downloaded(t) \/ NotPublished(t) \/ DownloadFails(t)
    /\ UNCHANGED <<platform, answers, disturbed>>

Install(t) ==
    /\ At(t, "install")
    /\ IF Files(t).staging = "none"
         THEN Fail(t) /\ UNCHANGED dir
         ELSE /\ Goto(t, IF platform = "linux" THEN "keep" ELSE "prove")
              /\ Write(t, [Files(t) EXCEPT !.binary = Files(t).staging, !.staging = "none"])
              /\ UNCHANGED lock
    /\ UNCHANGED <<local, answers, disturbed>>

\* The archive is kept beside the binary.
Keep(t) ==
    /\ At(t, "keep")
    /\ \/ /\ Goto(t, "prove") /\ Write(t, [Files(t) EXCEPT !.archive = "whole"])
          /\ UNCHANGED <<lock, used>>
       \/ Fault /\ Broken(t) /\ Write(t, [Files(t) EXCEPT !.archive = "none", !.binary = "none"])
    /\ UNCHANGED <<platform, answers, disturbed>>

\* The first run
Prove(t) ==
    /\ At(t, "prove")
    /\ \/ /\ Files(t).binary \in Whole /\ Goto(t, "hash") /\ Write(t, Ran(Files(t)))
          /\ UNCHANGED <<lock, used>>
       \/ /\ \/ Files(t).binary \notin Whole /\ Fail(t) /\ UNCHANGED used
             \/ Fault /\ Broken(t)
          /\ Write(t, [Files(t) EXCEPT !.binary = "none", !.digest = "none", !.archive = "none"])
    /\ UNCHANGED <<platform, answers, disturbed>>

\* The digest is of the file at rest.
Hash(t) ==
    /\ At(t, "hash")
    /\ IF Files(t).binary = "none"
         THEN Fail(t) /\ Write(t, [Files(t) EXCEPT !.archive = "none"])
         ELSE /\ task' = [task EXCEPT ![t].at = "record", ![t].hash = Files(t).binary]
              /\ UNCHANGED <<dir, lock>>
    /\ UNCHANGED <<local, answers, disturbed>>

\* persist_digest fails before it has removed the old digest, or after.
RecordFails(t) ==
    /\ Fault /\ Broken(t) /\ UNCHANGED answers
    /\ \E digest \in {Files(t).digest, "none"} :
          Write(t, [Files(t) EXCEPT !.digest = digest, !.binary = "none", !.archive = "none"])

Record(t) ==
    /\ At(t, "record")
    /\ \/ /\ Write(t, [Files(t) EXCEPT !.digest = task[t].hash])
          /\ Succeed(t) /\ UNCHANGED used
       \/ RecordFails(t)
    /\ UNCHANGED <<platform, disturbed>>

-----------------------------------------------------------------------------
\* The fallback is remembered beside the version asked for: remove_file takes
\* the old note away and persist puts the new one there.  That this fails is
\* not reported, and no lock is held.

Answered(t) ==
    /\ task' = [task EXCEPT ![t].at = "idle", ![t].got = Version(t)]
    /\ pinned' = [pinned EXCEPT ![task[t].want] = Version(t)]

\* It is answered without a note, unless there is one that says the same.
Unnoted(t) ==
    /\ Answered(t) /\ UNCHANGED dir
    /\ forgotten' = IF dir[task[t].want].alias = Version(t) THEN forgotten
                    ELSE forgotten \cup {task[t].want}

Unalias(t) ==
    /\ At(t, "unalias")
    /\ \/ /\ dir' = [dir EXCEPT ![task[t].want].alias = None]
          /\ forgotten' = forgotten \cup {task[t].want}
          /\ Goto(t, "alias") /\ UNCHANGED <<used, pinned>>
       \/ Fault /\ Unnoted(t)
    /\ UNCHANGED <<platform, lock, disturbed>>

\* Mutant: the note is left where the fallback is, not where it is looked for.
SaveAliasThere(t) ==
    /\ At(t, "alias") /\ Answered(t)
    /\ dir' = [dir EXCEPT ![Version(t)].alias = Version(t)]
    /\ forgotten' = forgotten \ {task[t].want}
    /\ UNCHANGED <<local, lock, disturbed>>

SaveAlias(t) ==
    /\ At(t, "alias")
    /\ \/ /\ Answered(t) /\ dir' = [dir EXCEPT ![task[t].want].alias = Version(t)]
          /\ forgotten' = forgotten \ {task[t].want} /\ UNCHANGED used
       \/ Fault /\ Unnoted(t)
    /\ UNCHANGED <<platform, lock, disturbed>>

-----------------------------------------------------------------------------
\* A process dies, or the machine does.

Alive(p) == \E t \in Tasks : Owner[t] = p /\ task[t] # NoCall
Killed(dead) == [t \in Tasks |-> IF Owner[t] \in dead THEN NoCall ELSE task[t]]

Crash(p) ==
    /\ Alive(p) /\ Fault
    /\ task' = Killed({p})
    /\ lock' = [lock EXCEPT ![p] = None]
    /\ UNCHANGED <<platform, dir, answers, disturbed>>

\* What is left of a directory when some of its files are lost: data that was
\* not synced is torn, a name that was not is gone.  On Linux the binary is
\* synced before it gets its name.
AfterLoss(f, lost) ==
    LET Lost(file, what) == IF f[file] # "none" /\ file \in lost THEN what ELSE f[file]
        binary == IF platform = "linux" THEN "none" ELSE "torn"
        digest == IF platform = "linux" THEN "bad" ELSE "none"
    IN [binary |-> Lost("binary", binary), staging |-> Lost("staging", binary),
        archive |-> Lost("archive", "torn"), digest |-> Lost("digest", digest),
        alias |-> IF "alias" \in lost THEN None ELSE f.alias]

\* Any of the files may be lost, each for itself.
FileNames == {"binary", "staging", "digest", "archive", "alias"}
Unsynced == {l \in Versions \X FileNames : dir[l[1]][l[2]] \notin {"none", None}}

PowerLoss ==
    /\ Fault /\ \E p \in Processes : Alive(p)
    /\ task' = Killed(Processes)
    /\ lock' = [p \in Processes |-> None]
    /\ \E lost \in SUBSET Unsynced :
          dir' = [v \in Versions |-> AfterLoss(dir[v], {file \in FileNames : <<v, file>> \in lost})]
    /\ forgotten' = forgotten \cup
          {v \in Versions : \/ dir'[v] # dir[v]
                            \/ pinned[v] # None /\ dir'[pinned[v]] # dir[pinned[v]]}
    /\ UNCHANGED <<platform, pinned, disturbed>>

Ensure(t) ==
    \/ Enter(t) \/ Look(t) \/ Probe(t) \/ Discard(t) \/ Sweep(t) \/ Clear(t) \/ Fetch(t)
    \/ Install(t) \/ Keep(t) \/ Prove(t) \/ Hash(t) \/ Record(t) \/ Unalias(t) \/ SaveAlias(t)

Next ==
    \/ \E t \in Tasks : Ensure(t)
    \/ \E t \in Tasks, v \in Versions : Ask(t, v)
    \/ \E v \in Versions : Consult(v)
    \/ \E p \in Processes : Crash(p)
    \/ PowerLoss

Spec == Init /\ [][Next]_vars

-----------------------------------------------------------------------------
TypeOK ==
    /\ platform \in {"macos", "linux"}
    /\ dir \in [Versions -> Directory]
    /\ lock \in [Processes -> Tasks \cup {None}]
    /\ task \in [Tasks -> Call]
    /\ used \in [asked : 0..MaxAsked, faults : 0..MaxFaults]
    /\ pinned \in [Versions -> Trusted \cup {None}]
    /\ forgotten \subseteq Versions /\ disturbed \subseteq Versions

\* A binary that was handed out stays whole under the feet of those who run
\* it, while other calls look, fail and die; only an install by another
\* process, or a run that timed out, can take it away, and nothing can
\* replace it by a broken one (the DOWNLOAD_LOCK's "late arrivals find the
\* cache warm").
HandedOutIsWhole ==
    \A t \in Tasks : LET v == task[t].got IN
        v # None => dir[v].binary \in Whole \/ (dir[v].binary = "none" /\ v \in disturbed)

\* "The answer `zedb pin` printed stays true for the replay-backed commands
\* that follow it" (pin.rs:343-345), where nobody was in the way: what
\* ensure_binary last answered for a version is what the offline lookup finds,
\* or by then the exact version, through every later call, failure and crash,
\* with these exceptions.  A fallback is forgotten while a second call replaces
\* its note, which takes no failure at all, and after that when the call dies
\* there; when the note could not be written, which is not reported; and when
\* the machine has lost a file of either directory.  The next answer whose note
\* is written ends all of them.
PinnedStaysUsable ==
    \A v \in Versions :
        pinned[v] # None /\ v \notin forgotten /\ disturbed = {} => Offline(v) \in {pinned[v], v}

\* Whatever an install that died has left behind, the next call that meets no
\* failure of its own and no other process ends with a binary.
DebrisIsHarmless ==
    \A t \in Tasks : At(t, "idle") /\ task[t].smooth => task[t].got # None
=============================================================================
