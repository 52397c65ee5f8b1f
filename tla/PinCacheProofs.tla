--------------------------- MODULE PinCacheProofs ---------------------------
(***************************************************************************)
(* Theorems about PinCache, for every number of processes, calls, versions *)
(* and faults, on both platforms.                                          *)
(*                                                                         *)
(* What a call relies on between two of its steps is true of the files as  *)
(* long as no other process installs the same version: Own says so for a   *)
(* call that meets nothing in its way, Untouched for a version that was    *)
(* never disturbed.  A version that was handed out, or that an answer      *)
(* stands for (Promised), is sealed: its digest is that of the binary, and *)
(* the binary is at rest, so that every later look accepts it.             *)
(***************************************************************************)
EXTENDS PinCache, FiniteSetsExt, WellFoundedInduction, TLAPS

Busy(t) == task[t].at \in Installing
OnRelease == {"probe", "fetch", "install", "keep", "prove", "hash", "record", "unalias", "alias"}

\* A call is about a version; what it downloads, answers or notes is a release.
Placed(t) ==
    /\ task[t].at # "idle" => task[t].want \in Versions /\ Version(t) \in Versions
    /\ task[t].at \in OnRelease => Version(t) \in Trusted
    /\ Busy(t) \/ At(t, "queue") => task[t].exact \/ Version(t) \in Trusted
    /\ Busy(t) => lock[Owner[t]] = t

\* Two calls install the same version only in different processes, and both know.
Alone ==
    \A t, u \in Tasks :
        t # u /\ Busy(t) /\ Busy(u) /\ Version(t) = Version(u)
        => Version(t) \in disturbed /\ ~task[t].smooth

\* Handed out, noted or still to be noted
Promised(v) ==
    \/ \E t \in Tasks : task[t].got = v \/ (task[t].at \in {"unalias", "alias"} /\ Version(t) = v)
    \/ \E w \in Versions \ forgotten : pinned[w] = v

\* What a crash of the machine has torn is never taken for a binary.
Untorn ==
    /\ \A t \in Tasks : Busy(t) /\ task[t].at \notin {"look", "discard"} => Files(t).binary # "torn"
    /\ \A t \in Tasks : task[t].at \in {"fetch", "install"} => Files(t).staging # "torn"
    /\ \A v \in Versions : Promised(v) => dir[v].binary # "torn"

\* A call that is alone with its version finds what it has put there.
Own(t) ==
    Busy(t) /\ (task[t].smooth \/ Version(t) \notin disturbed) =>
        /\ At(t, "discard") => Files(t).binary # "none"
        /\ At(t, "install") => Files(t).staging = "fresh"
        /\ task[t].at \in {"probe", "keep", "prove", "hash", "record"} => Files(t).binary \in Whole

\* A binary has run, and its digest was taken after that.
AtRest(f) == f.binary \in Whole /\ (platform = "macos" => f.binary = "rested")
Sealed(f) == AtRest(f) /\ f.digest = f.binary

Untouched(v) ==
    /\ platform = "macos" => dir[v].digest \in {"none", "rested"}
    /\ \A t \in Tasks : Busy(t) /\ Version(t) = v =>
          /\ At(t, "probe") => Sealed(dir[v])
          /\ At(t, "hash") => AtRest(dir[v])
          /\ At(t, "record") => AtRest(dir[v]) /\ task[t].hash = dir[v].binary
          /\ Promised(v) => task[t].at \in {"look", "probe"}
    /\ Promised(v) => Sealed(dir[v])

\* The note beside a version is what was answered for it, but where that is forgotten.
Noted ==
    \A v \in Versions \ forgotten : pinned[v] \notin {None, v} => dir[v].alias = pinned[v]

Inductive ==
    /\ TypeOK /\ \A t \in Tasks : Placed(t) /\ Own(t)
    /\ Alone /\ Untorn /\ Noted /\ DebrisIsHarmless
    /\ \A v \in Versions \ disturbed : Untouched(v)

-----------------------------------------------------------------------------
(* The fallback is a release. *)

\* Min of FiniteSetsExt is attained: some relation that contains < is
\* well-founded on Nat.
LEMMA MinAttained ==
    ASSUME NEW S, S \subseteq Nat, S # {}
    PROVE  Min(S) \in S /\ \A y \in S : Min(S) =< y
<1> DEFINE R == OpToRel(<, Nat)
<1>1. \A y, x \in Nat : y < x => <<y, x>> \in R
  BY Zenon DEF OpToRel
<1>2. IsWellFoundedOn(R, Nat)
  BY NatLessThanWellFounded, Zenon
<1> HIDE DEF R
<1>3. \E x \in S : \A y \in S : ~ (<<y, x>> \in R)
  BY <1>2, WFMin, Zenon
<1>4. PICK x \in S : \A y \in S : ~ (<<y, x>> \in R)
  BY <1>3
<1>5. ASSUME NEW y \in S PROVE x =< y
  <2>1. x \in Nat /\ y \in Nat
    OBVIOUS
  <2>2. ~ (y < x)
    BY <1>1, <1>4, <2>1, Zenon
  <2>3. QED
    BY <2>1, <2>2
<1>6. QED
  BY <1>5, Zenon DEF Min

\* Max of FiniteSetsExt is attained, in a bounded set.
LEMMA MaxAttained ==
    ASSUME NEW N \in Nat, NEW S, S \subseteq 0..N, S # {}
    PROVE  Max(S) \in S /\ \A y \in S : Max(S) >= y
<1> DEFINE Mirror == {N - y : y \in S}
<1>1. Mirror \subseteq Nat /\ Mirror # {}
  <2>1. \A y \in S : N - y \in Nat
    OBVIOUS
  <2>2. PICK z : z \in S
    OBVIOUS
  <2>3. N - z \in Mirror
    BY <2>2
  <2>4. QED
    BY <2>1, <2>3, Zenon
<1>2. Min(Mirror) \in Mirror /\ \A z \in Mirror : Min(Mirror) =< z
  BY <1>1, MinAttained, Zenon
<1> HIDE DEF Mirror
<1>3. PICK x \in S : Min(Mirror) = N - x
  BY <1>2 DEF Mirror
<1>4. ASSUME NEW y \in S PROVE x >= y
  <2>1. N - y \in Mirror
    BY DEF Mirror
  <2>2. N - x =< N - y
    BY <1>2, <1>3, <2>1
  <2>3. QED
    BY <2>2
<1>5. \E z \in S : \A y \in S : z >= y
  BY <1>4
<1>6. QED
  BY <1>5, Zenon DEF Max

LEMMA NewestExists ==
    ASSUME NEW S, S \subseteq Trusted, S # {}
    PROVE  \E c \in S : \A d \in S : Rank[d] <= Rank[c]
<1> DEFINE Ranks == {Rank[c] : c \in S}
<1>1. PICK newest \in Trusted : \A v \in Trusted : Rank[v] <= Rank[newest]
  BY PinAssumption
<1>2. \A v \in Trusted : Rank[v] \in Nat
  BY PinAssumption
<1>3. Ranks \subseteq 0..Rank[newest] /\ Ranks # {}
  BY <1>1, <1>2
<1>4. Max(Ranks) \in Ranks /\ \A y \in Ranks : Max(Ranks) >= y
  BY <1>1, <1>2, <1>3, MaxAttained, Zenon
<1>5. PICK c \in S : Max(Ranks) = Rank[c]
  BY <1>4
<1>6. \A d \in S : Rank[d] <= Rank[c]
  BY <1>2, <1>4, <1>5
<1>7. QED
  BY <1>6

LEMMA OldestExists ==
    ASSUME NEW S, S \subseteq Trusted, S # {}
    PROVE  \E c \in S : \A d \in S : Rank[d] >= Rank[c]
<1> DEFINE Ranks == {Rank[c] : c \in S}
<1>1. \A v \in Trusted : Rank[v] \in Nat
  BY PinAssumption
<1>2. Ranks \subseteq Nat /\ Ranks # {}
  BY <1>1
<1>3. Min(Ranks) \in Ranks /\ \A y \in Ranks : Min(Ranks) =< y
  BY <1>2, MinAttained, Zenon
<1>4. PICK c \in S : Min(Ranks) = Rank[c]
  BY <1>3
<1>5. \A d \in S : Rank[d] >= Rank[c]
  BY <1>1, <1>3, <1>4
<1>6. QED
  BY <1>5

LEMMA ClosestIsRelease == \A v : Closest(v) \in Trusted
<1> SUFFICES ASSUME NEW v PROVE Closest(v) \in Trusted
  OBVIOUS
<1> DEFINE same == {c \in Trusted : Minor[c] = Minor[v]}
           newer == {c \in Trusted : Rank[c] > Rank[v]}
           Newest(releases) == CHOOSE c \in releases : \A d \in releases : Rank[d] <= Rank[c]
           Oldest(releases) == CHOOSE c \in releases : \A d \in releases : Rank[d] >= Rank[c]
<1>1. ASSUME NEW S, S \subseteq Trusted, S # {} PROVE Newest(S) \in Trusted /\ Oldest(S) \in Trusted
  <2>1. Newest(S) \in S
    BY <1>1, NewestExists, Zenon
  <2>2. Oldest(S) \in S
    BY <1>1, OldestExists, Zenon
  <2>3. QED
    BY <1>1, <2>1, <2>2
<1>2. same \subseteq Trusted /\ newer \subseteq Trusted /\ Trusted # {}
  BY PinAssumption
<1>3. Closest(v) = IF same # {} THEN Newest(same)
                   ELSE IF newer # {} THEN Oldest(newer) ELSE Newest(Trusted)
  BY DEF Closest
<1> HIDE DEF same, newer, Newest, Oldest
<1>4. QED
  BY <1>1, <1>2, <1>3

LEMMA FallbackIsRelease ==
    ASSUME TypeOK, NEW v \in Versions
    PROVE  Fallback(v) \in Trusted
BY ClosestIsRelease DEF TypeOK, Directory, Fallback

-----------------------------------------------------------------------------
(* One step of a call that works on its directory, seen from its own files. *)

BusyStep(t) ==
    \/ Look(t) \/ Probe(t) \/ Discard(t) \/ Sweep(t) \/ Clear(t) \/ Fetch(t)
    \/ Install(t) \/ Keep(t) \/ Prove(t) \/ Hash(t) \/ Record(t)

\* Call c has its answer for version v.
Got(c, v) == (c.at = "idle" /\ c.got = v) \/ (c.at = "unalias" /\ c.version = v)

\* How call t, which becomes c, goes on or ends
Course(t, c) ==
    \/ /\ c.at \in Installing /\ c.version = Version(t) /\ c.exact = task[t].exact
       /\ c.got = task[t].got /\ UNCHANGED <<lock, answers>>
    \/ /\ c.at = "idle" /\ c.got = task[t].got
       /\ Unlock(t) /\ UNCHANGED answers
    \/ /\ c.at = "queue" /\ c.got = task[t].got /\ c.version \in Trusted
       /\ Unlock(t) /\ UNCHANGED answers
    \/ /\ c.at = "idle" /\ c.got = Version(t) /\ Version(t) \in Trusted
       /\ Unlock(t) /\ pinned' = [pinned EXCEPT ![Version(t)] = Version(t)]
       /\ forgotten' = forgotten \ {Version(t)}
    \/ /\ c.at = "unalias" /\ c.got = task[t].got /\ c.version = Version(t)
       /\ Unlock(t) /\ UNCHANGED answers

\* What the files f hold when a call that is alone with them stands at step at
Found(at, f) ==
    /\ at = "discard" => f.binary # "none"
    /\ at = "install" => f.staging = "fresh"
    /\ at \in {"probe", "keep", "prove", "hash", "record"} => f.binary \in Whole

\* What they hold when nobody ever was in the way
Kept(c, f) ==
    /\ platform = "macos" => f.digest \in {"none", "rested"}
    /\ c.at = "probe" => Sealed(f)
    /\ c.at = "hash" => AtRest(f)
    /\ c.at = "record" => AtRest(f) /\ c.hash = f.binary

\* Nothing torn comes from whole files, and the note stays.
Carried(o, c, f) ==
    /\ c.at \in Installing \ {"look", "discard"} => f.binary # "torn"
    /\ c.at \in {"fetch", "install"} => f.staging # "torn"
    /\ f.binary = "torn" => o.binary = "torn"
    /\ f.staging = "torn" => o.staging = "torn"
    /\ f.alias = o.alias

\* Success is with a binary in hand.
InHand(t, c, f) ==
    (c.at = "idle" /\ c.got # task[t].got) \/ c.at = "unalias" =>
        /\ f.binary # "torn" /\ Version(t) \in Trusted
        /\ Version(t) \notin disturbed' => Sealed(f)

LocalStep(t, c, f) ==
    /\ task' = [task EXCEPT ![t] = c] /\ dir' = [dir EXCEPT ![Version(t)] = f]
    /\ UNCHANGED platform /\ used' \in [asked : 0..MaxAsked, faults : 0..MaxFaults]
    /\ disturbed' \in {disturbed, disturbed \cup {Version(t)}}
    /\ c.want = task[t].want /\ (c.smooth => task[t].smooth)
    /\ c.at \in OnRelease => Version(t) \in Trusted
    /\ c.at = "idle" /\ c.smooth => c.got # None
    /\ Course(t, c)
    /\ Carried(Files(t), c, f)
    /\ c.at \in Installing /\ (c.smooth \/ Version(t) \notin disturbed') => Found(c.at, f)
    /\ Version(t) \notin disturbed' => Kept(c, f)
    /\ Version(t) \notin disturbed' /\ Promised(Version(t)) =>
          Sealed(f) /\ (c.at \in Installing => c.at \in {"look", "probe"})
    /\ InHand(t, c, f)

\* A call before its step
LEMMA BusyCall ==
    ASSUME Inductive, NEW t \in Tasks, Busy(t), NEW o, NEW s, o = Files(t), s = task[t]
    PROVE  /\ s \in Call /\ o \in Directory /\ s.want \in Versions /\ s.version \in Versions
           /\ s.version = Version(t) /\ s.at \in Installing
           /\ s.at \in OnRelease => s.version \in Trusted
           /\ s.exact \/ s.version \in Trusted
           /\ s.at \notin {"look", "discard"} => o.binary # "torn"
           /\ s.at \in {"fetch", "install"} => o.staging # "torn"
           /\ s.smooth \/ s.version \notin disturbed => Found(s.at, o)
           /\ s.version \notin disturbed => Kept(s, o)
           /\ s.version \notin disturbed /\ Promised(s.version) =>
                  Sealed(o) /\ s.at \in {"look", "probe"}
<1>1. s \in Call /\ s.want \in Versions /\ s.version \in Versions /\ o = dir[s.version]
      /\ s.version = Version(t) /\ s.at \in Installing
  BY DEF Inductive, TypeOK, Placed, Busy, Files, Version, Installing
<1>2. o \in Directory
  BY <1>1 DEF Inductive, TypeOK
<1>3. /\ s.at \in OnRelease => s.version \in Trusted
      /\ s.exact \/ s.version \in Trusted
      /\ s.at \notin {"look", "discard"} => o.binary # "torn"
      /\ s.at \in {"fetch", "install"} => o.staging # "torn"
  BY <1>1 DEF Inductive, Placed, Untorn, Busy
<1>4. s.smooth \/ s.version \notin disturbed => Found(s.at, o)
  BY <1>1 DEF Inductive, Own, Found, At
<1>5. s.version \notin disturbed => Untouched(s.version)
  BY <1>1 DEF Inductive
<1>6. s.version \notin disturbed => Kept(s, o)
  BY <1>1, <1>5 DEF Untouched, Kept, At
<1>7. s.version \notin disturbed /\ Promised(s.version) => Sealed(o) /\ s.at \in {"look", "probe"}
  BY <1>1, <1>5 DEF Untouched
<1>8. QED
  BY <1>1, <1>2, <1>3, <1>4, <1>6, <1>7

\* Files f fit a call that goes on to a step of its install.
Fits(t, step, smooth, hash, f) ==
    /\ f \in Directory
    /\ smooth \in BOOLEAN /\ (smooth => task[t].smooth)
    /\ hash \in Whole \cup {"none"}
    /\ step \in OnRelease => Version(t) \in Trusted
    /\ step \notin {"look", "discard"} => f.binary # "torn"
    /\ step \in {"fetch", "install"} => f.staging # "torn"
    /\ f.binary = "torn" => Files(t).binary = "torn"
    /\ f.staging = "torn" => Files(t).staging = "torn"
    /\ f.alias = Files(t).alias
    /\ smooth \/ Version(t) \notin disturbed' => Found(step, f)
    /\ Version(t) \notin disturbed' =>
          /\ platform = "macos" => f.digest \in {"none", "rested"}
          /\ step = "probe" => Sealed(f)
          /\ step = "hash" => AtRest(f)
          /\ step = "record" => AtRest(f) /\ hash = f.binary
    /\ Version(t) \notin disturbed' /\ Promised(Version(t)) =>
          Sealed(f) /\ step \in {"look", "probe"}

LEMMA GoesOn ==
    ASSUME Inductive, NEW t \in Tasks, Busy(t), NEW step \in Installing, NEW smooth,
           NEW hash, NEW f,
           task' = [task EXCEPT ![t] = [task[t] EXCEPT !.at = step, !.smooth = smooth, !.hash = hash]],
           dir' = [dir EXCEPT ![Version(t)] = f], UNCHANGED <<platform, lock, answers>>,
           used' \in [asked : 0..MaxAsked, faults : 0..MaxFaults],
           disturbed' \in {disturbed, disturbed \cup {Version(t)}},
           Fits(t, step, smooth, hash, f)
    PROVE  \E c \in Call, g \in Directory : LocalStep(t, c, g)
<1>1. PICK s : s = task[t]
  OBVIOUS
<1>2. PICK c : c = [s EXCEPT !.at = step, !.smooth = smooth, !.hash = hash]
  OBVIOUS
<1>3. s \in Call /\ s.version = Version(t)
  BY <1>1 DEF Inductive, TypeOK, Version
<1>4. /\ c \in Call /\ c.at = step /\ c.smooth = smooth /\ c.hash = hash
      /\ c.want = s.want /\ c.version = Version(t) /\ c.exact = s.exact /\ c.got = s.got
  BY <1>2, <1>3 DEF Call, Fits
<1>5. step # "idle" /\ step # "unalias"
  BY DEF Installing
<1>6. Course(t, c) /\ InHand(t, c, f) /\ Carried(Files(t), c, f)
  BY <1>1, <1>4, <1>5 DEF Course, InHand, Carried, Fits
<1>7. Version(t) \notin disturbed' => Kept(c, f)
  BY <1>4 DEF Kept, Fits
<1>8. LocalStep(t, c, f)
  BY <1>1, <1>2, <1>4, <1>5, <1>6, <1>7 DEF LocalStep, Fits
<1>9. QED
  BY <1>4, <1>8 DEF Fits

\* Files f may be left behind by a call that ends without its binary.
Debris(t, f) ==
    /\ f \in Directory
    /\ f.binary = "torn" => Files(t).binary = "torn"
    /\ f.staging = "torn" => Files(t).staging = "torn"
    /\ f.alias = Files(t).alias
    /\ Version(t) \notin disturbed =>
          /\ platform = "macos" => f.digest \in {"none", "rested"}
          /\ ~Promised(Version(t))

\* A call ends without a binary; one that met nothing in its way does not.
LEMMA GivesUp ==
    ASSUME Inductive, NEW t \in Tasks, Busy(t), NEW smooth \in BOOLEAN, NEW f,
           task' = [task EXCEPT ![t] = [task[t] EXCEPT !.at = "idle", !.smooth = smooth]],
           dir' = [dir EXCEPT ![Version(t)] = f], UNCHANGED <<platform, answers, disturbed>>, Unlock(t),
           used' \in [asked : 0..MaxAsked, faults : 0..MaxFaults],
           ~smooth,
           Debris(t, f)
    PROVE  \E c \in Call, g \in Directory : LocalStep(t, c, g)
<1>1. PICK s : s = task[t]
  OBVIOUS
<1>2. PICK c : c = [s EXCEPT !.at = "idle", !.smooth = smooth]
  OBVIOUS
<1>3. s \in Call /\ s.version = Version(t)
  BY <1>1 DEF Inductive, TypeOK, Version
<1>4. /\ c \in Call /\ c.at = "idle" /\ c.smooth = smooth
      /\ c.want = s.want /\ c.got = s.got
  BY <1>2, <1>3 DEF Call
<1>5. c.at \notin Installing /\ c.at \notin OnRelease
  BY <1>4 DEF Installing, OnRelease
<1>6. Course(t, c) /\ InHand(t, c, f) /\ Carried(Files(t), c, f)
  BY <1>1, <1>4, <1>5 DEF Course, InHand, Carried, Debris
<1>7. Version(t) \notin disturbed' => Kept(c, f)
  BY <1>4 DEF Kept, Debris
<1>8. LocalStep(t, c, f)
  BY <1>1, <1>2, <1>4, <1>5, <1>6, <1>7 DEF LocalStep, Debris
<1>9. QED
  BY <1>4, <1>8 DEF Debris

\* Its version has no release: the call starts over with the fallback, or ends.
LEMMA Refused ==
    ASSUME Inductive, NEW t \in Tasks, Busy(t), NEW smooth \in BOOLEAN, NEW f,
           Refuse(t, smooth),
           dir' = [dir EXCEPT ![Version(t)] = f], UNCHANGED <<platform, answers, disturbed>>,
           used' \in [asked : 0..MaxAsked, faults : 0..MaxFaults],
           smooth => task[t].smooth, smooth => task[t].exact,
           Debris(t, f)
    PROVE  \E c \in Call, g \in Directory : LocalStep(t, c, g)
<1>1. PICK s : s = task[t]
  OBVIOUS
<1>2. PICK w : w = Fallback(s.want)
  OBVIOUS
<1>3. PICK c : c = IF s.exact THEN [s EXCEPT !.at = "queue", !.exact = FALSE, !.version = w, !.smooth = smooth]
                              ELSE [s EXCEPT !.at = "idle", !.smooth = smooth]
  OBVIOUS
<1>4. s \in Call /\ s.version = Version(t) /\ w \in Trusted /\ w \in Versions
  BY <1>1, <1>2, BusyCall, FallbackIsRelease, PinAssumption DEF Inductive, TypeOK, Version
<1>5. /\ c \in Call /\ c.smooth = smooth /\ c.want = s.want /\ c.got = s.got
      /\ \/ s.exact /\ c.at = "queue" /\ c.version = w
         \/ ~s.exact /\ c.at = "idle"
  <2>1. CASE s.exact
    BY <1>3, <1>4, <2>1 DEF Call
  <2>2. CASE ~s.exact
    BY <1>3, <1>4, <2>2 DEF Call
  <2>3. QED
    BY <2>1, <2>2
<1>6. c.at \notin Installing /\ c.at \notin OnRelease /\ c.at # "unalias"
  BY <1>5 DEF Installing, OnRelease
<1>7. task' = [task EXCEPT ![t] = c] /\ Unlock(t)
  BY <1>1, <1>2, <1>3 DEF Refuse
<1>8. Course(t, c) /\ InHand(t, c, f) /\ Carried(Files(t), c, f)
  BY <1>1, <1>4, <1>5, <1>6, <1>7 DEF Course, InHand, Carried, Debris
<1>9. Version(t) \notin disturbed' => Kept(c, f)
  BY <1>5 DEF Kept, Debris
<1>10. LocalStep(t, c, f)
  BY <1>1, <1>4, <1>5, <1>6, <1>7, <1>8, <1>9 DEF LocalStep, Debris
<1>11. QED
  BY <1>5, <1>10 DEF Debris

\* The call has its binary.
LEMMA Succeeds ==
    ASSUME Inductive, NEW t \in Tasks, Busy(t), NEW f \in Directory,
           Succeed(t), Version(t) \in Trusted,
           dir' = [dir EXCEPT ![Version(t)] = f], UNCHANGED <<platform, disturbed>>,
           used' \in [asked : 0..MaxAsked, faults : 0..MaxFaults],
           f.binary # "torn",
           f.staging = "torn" => Files(t).staging = "torn",
           f.alias = Files(t).alias,
           Version(t) \notin disturbed => Sealed(f)
    PROVE  \E c \in Call, g \in Directory : LocalStep(t, c, g)
<1>1. PICK s : s = task[t]
  OBVIOUS
<1>2. PICK v : v = Version(t)
  OBVIOUS
<1>3. PICK c : c = IF s.exact THEN [s EXCEPT !.at = "idle", !.got = v] ELSE [s EXCEPT !.at = "unalias"]
  OBVIOUS
<1>4. s \in Call /\ s.version = v
  BY <1>1, <1>2 DEF Inductive, TypeOK, Version
<1>5. /\ c \in Call /\ c.smooth = s.smooth /\ c.want = s.want
      /\ \/ s.exact /\ c.at = "idle" /\ c.got = v
         \/ ~s.exact /\ c.at = "unalias" /\ c.version = v /\ c.got = s.got
  <2>1. CASE s.exact
    BY <1>2, <1>3, <1>4, <2>1 DEF Call
  <2>2. CASE ~s.exact
    BY <1>3, <1>4, <2>2 DEF Call
  <2>3. QED
    BY <2>1, <2>2
<1>6. c.at \notin Installing /\ (c.at \in OnRelease => v \in Trusted) /\ v # None
  BY <1>2, <1>5, PinAssumption DEF Installing, OnRelease
<1>7. /\ task' = [task EXCEPT ![t] = c] /\ Unlock(t)
      /\ s.exact => pinned' = [pinned EXCEPT ![v] = v] /\ forgotten' = forgotten \ {v}
      /\ ~s.exact => UNCHANGED answers
  BY <1>1, <1>2, <1>3 DEF Succeed, Goto
<1>8. Course(t, c)
  BY <1>1, <1>2, <1>5, <1>6, <1>7 DEF Course
<1>9. InHand(t, c, f) /\ Carried(Files(t), c, f)
  BY <1>1, <1>2, <1>5, <1>6 DEF InHand, Carried
<1>10. v \notin disturbed' => Kept(c, f)
  BY <1>2, <1>5 DEF Kept, Sealed, AtRest
<1>11. LocalStep(t, c, f)
  BY <1>1, <1>2, <1>5, <1>6, <1>7, <1>8, <1>9, <1>10 DEF LocalStep
<1>12. QED
  BY <1>5, <1>11

-----------------------------------------------------------------------------
(* The steps, one by one *)

LEMMA GotoIs ==
    ASSUME Inductive, NEW t \in Tasks, NEW step, Goto(t, step)
    PROVE  task' = [task EXCEPT ![t] = [task[t] EXCEPT !.at = step, !.smooth = task[t].smooth,
                                                       !.hash = task[t].hash]]
<1>1. task[t] \in Call
  BY DEF Inductive, TypeOK
<1>2. [task[t] EXCEPT !.at = step] =
      [task[t] EXCEPT !.at = step, !.smooth = task[t].smooth, !.hash = task[t].hash]
  BY <1>1 DEF Call
<1>3. QED
  BY <1>2 DEF Goto

\* What every step knows of its call and its files
LEMMA Standing ==
    ASSUME Inductive, NEW t \in Tasks, Busy(t)
    PROVE  /\ task[t] \in Call /\ Files(t) \in Directory
           /\ task[t].smooth \in BOOLEAN /\ task[t].hash \in Whole \cup {"none"}
           /\ Version(t) \in Versions
           /\ used \in [asked : 0..MaxAsked, faults : 0..MaxFaults]
           /\ dir = [dir EXCEPT ![Version(t)] = Files(t)]
<1>1. task[t] \in Call /\ Files(t) \in Directory /\ Version(t) \in Versions
  BY BusyCall
<1>2. QED
  BY <1>1 DEF Call, Inductive, TypeOK, Files

LEMMA BrokenIs ==
    ASSUME Inductive, NEW t \in Tasks, NEW step,
           task' = [task EXCEPT ![t].at = step, ![t].smooth = FALSE]
    PROVE  task' = [task EXCEPT ![t] = [task[t] EXCEPT !.at = step, !.smooth = FALSE,
                                                       !.hash = task[t].hash]]
<1>1. task[t] \in Call
  BY DEF Inductive, TypeOK
<1>2. [task[t] EXCEPT !.at = step, !.smooth = FALSE] =
      [task[t] EXCEPT !.at = step, !.smooth = FALSE, !.hash = task[t].hash]
  BY <1>1 DEF Call
<1>3. task' = [task EXCEPT ![t] = [task[t] EXCEPT !.at = step, !.smooth = FALSE]]
  BY DEF Inductive, TypeOK
<1>4. QED
  BY <1>2, <1>3

LEMMA FailIs ==
    ASSUME Inductive, NEW t \in Tasks, Fail(t)
    PROVE  /\ task' = [task EXCEPT ![t] = [task[t] EXCEPT !.at = "idle", !.smooth = task[t].smooth]]
           /\ Unlock(t)
<1>1. task[t] \in Call
  BY DEF Inductive, TypeOK
<1>2. [task[t] EXCEPT !.at = "idle"] = [task[t] EXCEPT !.at = "idle", !.smooth = task[t].smooth]
  BY <1>1 DEF Call
<1>3. QED
  BY <1>2 DEF Fail

LEMMA BreaksOff ==
    ASSUME Inductive, NEW t \in Tasks, Broken(t)
    PROVE  /\ task' = [task EXCEPT ![t] = [task[t] EXCEPT !.at = "idle", !.smooth = FALSE]]
           /\ Unlock(t)
BY DEF Broken, Inductive, TypeOK

LEMMA FaultIsCounted ==
    ASSUME Inductive, Fault
    PROVE  used' \in [asked : 0..MaxAsked, faults : 0..MaxFaults]
<1>1. used \in [asked : 0..MaxAsked, faults : 0..MaxFaults] /\ MaxFaults \in Nat
  BY PinAssumption DEF Inductive, TypeOK
<1>2. used.faults + 1 \in 0..MaxFaults
  BY <1>1 DEF Fault
<1>3. QED
  BY <1>1, <1>2 DEF Fault

LEMMA AcceptedFile ==
    ASSUME Inductive, NEW v \in Versions, Accepts(v)
    PROVE  /\ v \in Trusted /\ Probed(dir[v]) \in Directory
           /\ Probed(dir[v]).binary = dir[v].binary /\ dir[v].binary \in Whole
           /\ Probed(dir[v]).digest = dir[v].binary
           /\ Probed(dir[v]).staging = dir[v].staging /\ Probed(dir[v]).alias = dir[v].alias
           /\ v \notin disturbed => Sealed(Probed(dir[v]))
<1>1. PICK o : o = dir[v]
  OBVIOUS
<1>2. o \in Directory /\ platform \in {"macos", "linux"}
  BY <1>1 DEF Inductive, TypeOK
<1>3. v \notin disturbed => (platform = "macos" => o.digest \in {"none", "rested"})
  BY <1>1 DEF Inductive, Untouched
<1>4. /\ v \in Trusted
      /\ \/ Recorded(o) /\ o.digest = o.binary
         \/ ~Recorded(o) /\ platform = "linux" /\ o.binary = "fresh"
  BY <1>1 DEF Accepts
<1>5. PICK f : f = Probed(o)
  OBVIOUS
<1>6. CASE Recorded(o) /\ o.digest = o.binary
  <2>1. f = o /\ o.binary \in Whole
    BY <1>2, <1>5, <1>6 DEF Probed, Recorded, Directory, Whole
  <2>2. v \notin disturbed => Sealed(o)
    BY <1>2, <1>3, <1>6, <2>1 DEF Sealed, AtRest, Recorded
  <2>3. QED
    BY <1>1, <1>2, <1>4, <1>5, <1>6, <2>1, <2>2
<1>7. CASE ~Recorded(o) /\ platform = "linux" /\ o.binary = "fresh"
  <2>1. f = [o EXCEPT !.digest = o.binary]
    BY <1>5, <1>7 DEF Probed
  <2>2. /\ f \in Directory /\ f.binary = o.binary /\ f.digest = o.binary
        /\ f.staging = o.staging /\ f.alias = o.alias /\ o.binary \in Whole
    BY <1>2, <1>7, <2>1 DEF Directory, Whole
  <2>3. Sealed(f)
    BY <1>7, <2>2 DEF Sealed, AtRest
  <2>4. QED
    BY <1>1, <1>4, <1>5, <2>2, <2>3
<1>8. QED
  BY <1>4, <1>6, <1>7

LEMMA PromisedIsRelease ==
    ASSUME Inductive, NEW v \in Versions, Promised(v)
    PROVE  v \in Trusted
<1>1. v # None
  BY PinAssumption
<1>2. \A t \in Tasks : task[t].got = v => v \in Trusted
  <2>1. \A t \in Tasks : task[t].got \in Trusted \cup {None}
    BY DEF Inductive, TypeOK, Call
  <2>2. QED
    BY <1>1, <2>1
<1>3. \A t \in Tasks : task[t].at \in {"unalias", "alias"} => Version(t) \in Trusted
  BY DEF Inductive, Placed, OnRelease
<1>4. \A w \in Versions : pinned[w] \in Trusted \cup {None}
  BY DEF Inductive, TypeOK
<1>5. QED
  BY <1>1, <1>2, <1>3, <1>4 DEF Promised

LEMMA LookLocal ==
    ASSUME Inductive, NEW t \in Tasks, Look(t)
    PROVE  \E c \in Call, f \in Directory : LocalStep(t, c, f)
<1>1. Busy(t) /\ At(t, "look") /\ UNCHANGED <<platform, used, lock, answers, disturbed>>
  BY DEF Look, Busy, At, Installing, local
<1>2. PICK o : o = Files(t)
  OBVIOUS
<1>3. /\ task[t] \in Call /\ o \in Directory /\ task[t].smooth \in BOOLEAN
      /\ task[t].hash \in Whole \cup {"none"} /\ Version(t) \in Versions
      /\ used' \in [asked : 0..MaxAsked, faults : 0..MaxFaults]
      /\ dir = [dir EXCEPT ![Version(t)] = o] /\ o = dir[Version(t)]
  BY <1>1, <1>2, Standing DEF Files
<1>4. Version(t) \notin disturbed => Kept(task[t], o)
  BY <1>1, <1>2, BusyCall
<1>5. Version(t) \notin disturbed /\ Promised(Version(t)) => Sealed(o)
  BY <1>1, <1>2, BusyCall
<1>6. CASE o.binary = "none" /\ Goto(t, "clear") /\ UNCHANGED dir
  <2>1. ~Sealed(o)
    BY <1>6 DEF Sealed, AtRest, Whole
  <2>2. Fits(t, "clear", task[t].smooth, task[t].hash, o)
    BY <1>1, <1>2, <1>3, <1>4, <1>5, <1>6, <2>1 DEF Fits, OnRelease, Found, Kept
  <2>3. QED
    BY <1>1, <1>3, <1>6, <2>2, GotoIs, GoesOn DEF Installing
<1>7. CASE Accepts(Version(t)) /\ Goto(t, "probe") /\ Write(t, Probed(o))
  <2>1. PICK f : f = Probed(o)
    OBVIOUS
  <2>2. /\ Version(t) \in Trusted /\ f \in Directory /\ f.binary = o.binary /\ f.binary \in Whole
        /\ f.staging = o.staging /\ f.alias = o.alias
        /\ Version(t) \notin disturbed => Sealed(f)
    BY <1>3, <1>7, <2>1, AcceptedFile
  <2>3. dir' = [dir EXCEPT ![Version(t)] = f]
    BY <1>7, <2>1 DEF Write
  <2>4. Version(t) \notin disturbed => (platform = "macos" => f.digest \in {"none", "rested"})
    BY <2>2 DEF Sealed, AtRest
  <2>5. f.binary # "torn" /\ Found("probe", f)
    BY <2>2 DEF Whole, Found
  <2>6. Fits(t, "probe", task[t].smooth, task[t].hash, f)
    BY <1>1, <1>2, <1>3, <2>2, <2>4, <2>5 DEF Fits
  <2>7. QED
    BY <1>1, <1>3, <1>7, <2>3, <2>6, GotoIs, GoesOn DEF Installing
<1>8. CASE o.binary # "none" /\ ~Accepts(Version(t)) /\ Goto(t, "discard") /\ UNCHANGED dir
  <2>1. Version(t) \notin disturbed => ~Promised(Version(t))
    <3>1. Promised(Version(t)) => Version(t) \in Trusted
      BY <1>3, PromisedIsRelease
    <3>2. Sealed(o) /\ Version(t) \in Trusted => Accepts(Version(t))
      BY <1>3 DEF Sealed, AtRest, Accepts, Recorded, Whole
    <3>3. QED
      BY <1>5, <1>8, <3>1, <3>2
  <2>2. Fits(t, "discard", task[t].smooth, task[t].hash, o)
    BY <1>1, <1>2, <1>3, <1>4, <1>8, <2>1 DEF Fits, OnRelease, Found, Kept
  <2>3. QED
    BY <1>1, <1>3, <1>8, <2>2, GotoIs, GoesOn DEF Installing
<1>9. QED
  BY <1>2, <1>6, <1>7, <1>8 DEF Look

LEMMA ProbeLocal ==
    ASSUME Inductive, NEW t \in Tasks, Probe(t)
    PROVE  \E c \in Call, f \in Directory : LocalStep(t, c, f)
<1>1. Busy(t) /\ task[t].at = "probe" /\ UNCHANGED platform
  BY DEF Probe, Busy, At, Installing
<1>2. PICK o : o = Files(t)
  OBVIOUS
<1>3. /\ task[t] \in Call /\ o \in Directory /\ task[t].smooth \in BOOLEAN
      /\ task[t].hash \in Whole \cup {"none"} /\ Version(t) \in Versions
      /\ used \in [asked : 0..MaxAsked, faults : 0..MaxFaults]
      /\ dir = [dir EXCEPT ![Version(t)] = o]
  BY <1>1, <1>2, Standing
<1>4. /\ Version(t) \in Trusted /\ o.binary # "torn"
      /\ task[t].smooth \/ Version(t) \notin disturbed => o.binary \in Whole
      /\ Version(t) \notin disturbed =>
            Sealed(o) /\ (platform = "macos" => o.digest \in {"none", "rested"})
  <2>1. task[t].at \in OnRelease /\ task[t].version = Version(t)
    BY <1>1 DEF OnRelease, Version
  <2>2. QED
    BY <1>1, <1>2, <2>1, BusyCall DEF Found, Kept
<1>5. CASE /\ o.binary \in Whole /\ Write(t, Ran(o)) /\ Succeed(t) /\ UNCHANGED <<used, disturbed>>
  <2>1. PICK f : f = Ran(o)
    OBVIOUS
  <2>2. /\ f \in Directory /\ f.binary # "torn" /\ f.staging = o.staging /\ f.alias = o.alias
        /\ f.digest = o.digest /\ f.binary \in Whole
        /\ platform = "macos" => f.binary = "rested"
        /\ platform # "macos" => f.binary = o.binary
    BY <1>3, <1>4, <1>5, <2>1 DEF Ran, Directory, Whole
  <2>3. Version(t) \notin disturbed => Sealed(f)
    BY <1>4, <2>2 DEF Sealed, AtRest
  <2>4. dir' = [dir EXCEPT ![Version(t)] = f]
    BY <1>5, <2>1 DEF Write
  <2>5. QED
    BY <1>1, <1>2, <1>3, <1>4, <1>5, <2>2, <2>3, <2>4, Succeeds
<1>6. CASE o.binary \notin Whole /\ Goto(t, "discard")
           /\ UNCHANGED <<dir, lock, answers, used, disturbed>>
  <2>1. Fits(t, "discard", task[t].smooth, task[t].hash, o)
    BY <1>2, <1>3, <1>4, <1>6 DEF Fits, OnRelease
  <2>2. QED
    BY <1>1, <1>3, <1>6, <2>1, GotoIs, GoesOn DEF Installing
<1>7. CASE /\ Fault /\ task' = [task EXCEPT ![t].at = "discard", ![t].smooth = FALSE]
           /\ disturbed' = disturbed \cup {Version(t)}
           /\ UNCHANGED <<dir, lock, answers>>
  <2>1. Fits(t, "discard", FALSE, task[t].hash, o)
    BY <1>2, <1>3, <1>7 DEF Fits, OnRelease
  <2>2. QED
    BY <1>1, <1>3, <1>7, <2>1, BrokenIs, FaultIsCounted, GoesOn DEF Installing
<1>8. QED
  BY <1>2, <1>5, <1>6, <1>7 DEF Probe

\* From discard on, nothing is promised of a version that nobody disturbs.
LEMMA Unpromised ==
    ASSUME Inductive, NEW t \in Tasks, Busy(t), task[t].at \notin {"look", "probe"},
           Version(t) \notin disturbed
    PROVE  /\ ~Promised(Version(t))
           /\ platform = "macos" => Files(t).digest \in {"none", "rested"}
<1>1. task[t].version = Version(t)
  BY DEF Version
<1>2. QED
  BY <1>1, BusyCall DEF Kept

LEMMA DiscardLocal ==
    ASSUME Inductive, NEW t \in Tasks, Discard(t)
    PROVE  \E c \in Call, f \in Directory : LocalStep(t, c, f)
<1>1. Busy(t) /\ task[t].at = "discard" /\ UNCHANGED <<platform, used, answers, disturbed>>
  BY DEF Discard, Busy, At, Installing, local
<1>2. PICK o : o = Files(t)
  OBVIOUS
<1>3. /\ task[t] \in Call /\ o \in Directory /\ task[t].smooth \in BOOLEAN
      /\ task[t].hash \in Whole \cup {"none"} /\ Version(t) \in Versions
      /\ used \in [asked : 0..MaxAsked, faults : 0..MaxFaults]
      /\ dir = [dir EXCEPT ![Version(t)] = o]
  BY <1>1, <1>2, Standing
<1>4. /\ task[t].smooth => o.binary # "none"
      /\ Version(t) \notin disturbed =>
            ~Promised(Version(t)) /\ (platform = "macos" => o.digest \in {"none", "rested"})
  BY <1>1, <1>2, BusyCall, Unpromised DEF Found
<1>5. CASE o.binary = "none" /\ Fail(t) /\ UNCHANGED dir
  <2>1. Debris(t, o) /\ ~task[t].smooth
    BY <1>2, <1>3, <1>4, <1>5 DEF Debris
  <2>2. QED
    BY <1>1, <1>3, <1>5, <2>1, FailIs, GivesUp
<1>6. CASE Goto(t, "sweep") /\ Write(t, [o EXCEPT !.binary = "none"]) /\ UNCHANGED lock
  <2>1. PICK f : f = [o EXCEPT !.binary = "none"]
    OBVIOUS
  <2>2. /\ f \in Directory /\ f.binary = "none" /\ f.staging = o.staging /\ f.alias = o.alias
        /\ f.digest = o.digest
    BY <1>3, <2>1 DEF Directory
  <2>3. Fits(t, "sweep", task[t].smooth, task[t].hash, f)
    BY <1>1, <1>2, <1>3, <1>4, <2>2 DEF Fits, OnRelease, Found
  <2>4. QED
    BY <1>1, <1>3, <1>6, <2>1, <2>3, GotoIs, GoesOn DEF Installing, Write
<1>7. QED
  BY <1>2, <1>5, <1>6 DEF Discard

LEMMA SweepLocal ==
    ASSUME Inductive, NEW t \in Tasks, Sweep(t)
    PROVE  \E c \in Call, f \in Directory : LocalStep(t, c, f)
<1>1. Busy(t) /\ task[t].at = "sweep" /\ UNCHANGED <<platform, used, lock, answers, disturbed>>
  BY DEF Sweep, Busy, At, Installing, local
<1>2. PICK o : o = Files(t)
  OBVIOUS
<1>3. /\ task[t] \in Call /\ o \in Directory /\ task[t].smooth \in BOOLEAN
      /\ task[t].hash \in Whole \cup {"none"} /\ Version(t) \in Versions
      /\ used \in [asked : 0..MaxAsked, faults : 0..MaxFaults]
  BY <1>1, <1>2, Standing
<1>4. /\ o.binary # "torn"
      /\ Version(t) \notin disturbed => ~Promised(Version(t))
  BY <1>1, <1>2, BusyCall, Unpromised
<1>5. PICK f : f = [o EXCEPT !.digest = "none", !.archive = "none"]
  OBVIOUS
<1>6. /\ f \in Directory /\ f.binary = o.binary /\ f.staging = o.staging /\ f.alias = o.alias
      /\ f.digest = "none"
  BY <1>3, <1>5 DEF Directory
<1>7. Fits(t, "clear", task[t].smooth, task[t].hash, f)
  BY <1>1, <1>2, <1>3, <1>4, <1>6 DEF Fits, OnRelease, Found
<1>8. Goto(t, "clear") /\ dir' = [dir EXCEPT ![Version(t)] = f]
  BY <1>2, <1>5 DEF Sweep, Write
<1>9. QED
  BY <1>1, <1>3, <1>7, <1>8, GotoIs, GoesOn DEF Installing

LEMMA ClearLocal ==
    ASSUME Inductive, NEW t \in Tasks, Clear(t)
    PROVE  \E c \in Call, f \in Directory : LocalStep(t, c, f)
<1>1. Busy(t) /\ task[t].at = "clear" /\ UNCHANGED <<platform, used, answers, disturbed>>
  BY DEF Clear, Busy, At, Installing, local
<1>2. PICK o : o = Files(t)
  OBVIOUS
<1>3. /\ task[t] \in Call /\ o \in Directory /\ task[t].smooth \in BOOLEAN
      /\ task[t].hash \in Whole \cup {"none"} /\ Version(t) \in Versions
      /\ used \in [asked : 0..MaxAsked, faults : 0..MaxFaults]
  BY <1>1, <1>2, Standing
<1>4. /\ o.binary # "torn" /\ (task[t].exact \/ Version(t) \in Trusted)
      /\ Version(t) \notin disturbed =>
            ~Promised(Version(t)) /\ (platform = "macos" => o.digest \in {"none", "rested"})
  <2>1. task[t].version = Version(t)
    BY DEF Version
  <2>2. QED
    BY <1>1, <1>2, <2>1, BusyCall, Unpromised
<1>5. PICK f : f = [o EXCEPT !.staging = "none"]
  OBVIOUS
<1>6. /\ f \in Directory /\ f.binary = o.binary /\ f.staging = "none" /\ f.alias = o.alias
      /\ f.digest = o.digest
  BY <1>3, <1>5 DEF Directory
<1>7. dir' = [dir EXCEPT ![Version(t)] = f]
  BY <1>2, <1>5 DEF Clear, Write
<1>8. CASE Version(t) \in Trusted /\ Goto(t, "fetch") /\ UNCHANGED lock
  <2>1. Fits(t, "fetch", task[t].smooth, task[t].hash, f)
    BY <1>1, <1>2, <1>3, <1>4, <1>6, <1>8 DEF Fits, Found
  <2>2. QED
    BY <1>1, <1>3, <1>7, <1>8, <2>1, GotoIs, GoesOn DEF Installing
<1>9. CASE Version(t) \notin Trusted /\ Refuse(t, task[t].smooth)
  <2>1. Debris(t, f) /\ task[t].exact
    BY <1>2, <1>3, <1>4, <1>6, <1>9 DEF Debris
  <2>2. QED
    BY <1>1, <1>3, <1>7, <1>9, <2>1, Refused
<1>10. QED
  BY <1>8, <1>9 DEF Clear

LEMMA FetchLocal ==
    ASSUME Inductive, NEW t \in Tasks, Fetch(t)
    PROVE  \E c \in Call, f \in Directory : LocalStep(t, c, f)
<1>1. Busy(t) /\ task[t].at = "fetch" /\ UNCHANGED <<platform, answers, disturbed>>
  BY DEF Fetch, Busy, At, Installing, local
<1>2. PICK o : o = Files(t)
  OBVIOUS
<1>3. /\ task[t] \in Call /\ o \in Directory /\ task[t].smooth \in BOOLEAN
      /\ task[t].hash \in Whole \cup {"none"} /\ Version(t) \in Versions
      /\ used \in [asked : 0..MaxAsked, faults : 0..MaxFaults]
      /\ dir = [dir EXCEPT ![Version(t)] = o]
  BY <1>1, <1>2, Standing
<1>4. /\ o.binary # "torn" /\ o.staging # "torn" /\ Version(t) \in Trusted
      /\ Version(t) \notin disturbed =>
            ~Promised(Version(t)) /\ (platform = "macos" => o.digest \in {"none", "rested"})
  <2>1. task[t].version = Version(t)
    BY DEF Version
  <2>2. QED
    BY <1>1, <1>2, <2>1, BusyCall, Unpromised DEF OnRelease
<1>5. CASE Downloaded(t)
  <2>1. PICK f : f = [o EXCEPT !.staging = "fresh"]
    OBVIOUS
  <2>2. /\ f \in Directory /\ f.binary = o.binary /\ f.staging = "fresh" /\ f.alias = o.alias
        /\ f.digest = o.digest
    BY <1>3, <2>1 DEF Directory
  <2>3. Fits(t, "install", task[t].smooth, task[t].hash, f)
    BY <1>1, <1>2, <1>3, <1>4, <2>2 DEF Fits, Found
  <2>4. Goto(t, "install") /\ dir' = [dir EXCEPT ![Version(t)] = f] /\ UNCHANGED <<lock, used>>
    BY <1>2, <1>5, <2>1 DEF Downloaded, Write
  <2>5. QED
    BY <1>1, <1>3, <2>3, <2>4, GotoIs, GoesOn DEF Installing
<1>6. Debris(t, o)
  BY <1>2, <1>3, <1>4 DEF Debris
<1>7. CASE NotPublished(t)
  <2>1. Refuse(t, FALSE) /\ UNCHANGED dir /\ Fault
    BY <1>7 DEF NotPublished
  <2>2. QED
    BY <1>1, <1>3, <1>6, <2>1, FaultIsCounted, Refused
<1>8. CASE DownloadFails(t)
  <2>1. Broken(t) /\ UNCHANGED dir /\ Fault
    BY <1>8 DEF DownloadFails
  <2>2. QED
    BY <1>1, <1>3, <1>6, <2>1, FaultIsCounted, BreaksOff, GivesUp
<1>9. QED
  BY <1>5, <1>7, <1>8 DEF Fetch

LEMMA InstallLocal ==
    ASSUME Inductive, NEW t \in Tasks, Install(t)
    PROVE  \E c \in Call, f \in Directory : LocalStep(t, c, f)
<1>1. Busy(t) /\ task[t].at = "install" /\ UNCHANGED <<platform, used, answers, disturbed>>
  BY DEF Install, Busy, At, Installing, local
<1>2. PICK o : o = Files(t)
  OBVIOUS
<1>3. /\ task[t] \in Call /\ o \in Directory /\ task[t].smooth \in BOOLEAN
      /\ task[t].hash \in Whole \cup {"none"} /\ Version(t) \in Versions
      /\ used \in [asked : 0..MaxAsked, faults : 0..MaxFaults]
      /\ dir = [dir EXCEPT ![Version(t)] = o]
  BY <1>1, <1>2, Standing
<1>4. /\ o.binary # "torn" /\ o.staging # "torn" /\ Version(t) \in Trusted
      /\ task[t].smooth \/ Version(t) \notin disturbed => o.staging = "fresh"
      /\ Version(t) \notin disturbed =>
            ~Promised(Version(t)) /\ (platform = "macos" => o.digest \in {"none", "rested"})
  <2>1. task[t].version = Version(t)
    BY DEF Version
  <2>2. QED
    BY <1>1, <1>2, <2>1, BusyCall, Unpromised DEF OnRelease, Found
<1>5. CASE o.staging = "none" /\ Fail(t) /\ UNCHANGED dir
  <2>1. Debris(t, o) /\ ~task[t].smooth
    BY <1>2, <1>3, <1>4, <1>5 DEF Debris
  <2>2. QED
    BY <1>1, <1>3, <1>5, <2>1, FailIs, GivesUp
<1>6. ASSUME o.staging # "none", NEW step \in {"keep", "prove"}, Goto(t, step), UNCHANGED lock,
             Write(t, [o EXCEPT !.binary = o.staging, !.staging = "none"])
      PROVE  \E c \in Call, f \in Directory : LocalStep(t, c, f)
  <2>1. PICK f : f = [o EXCEPT !.binary = o.staging, !.staging = "none"]
    OBVIOUS
  <2>2. o.staging = "fresh"
    BY <1>3, <1>4, <1>6 DEF Directory
  <2>3. /\ f \in Directory /\ f.binary = "fresh" /\ f.staging = "none" /\ f.alias = o.alias
        /\ f.digest = o.digest
    BY <1>3, <2>1, <2>2 DEF Directory, Whole
  <2>4. Fits(t, step, task[t].smooth, task[t].hash, f)
    BY <1>1, <1>2, <1>3, <1>4, <2>3 DEF Fits, Found, Whole
  <2>5. dir' = [dir EXCEPT ![Version(t)] = f]
    BY <1>6, <2>1 DEF Write
  <2>6. step \in Installing
    BY DEF Installing
  <2>7. QED
    BY <1>1, <1>3, <1>6, <2>4, <2>5, <2>6, GotoIs, GoesOn
<1>7. QED
  BY <1>2, <1>5, <1>6 DEF Install

LEMMA KeepLocal ==
    ASSUME Inductive, NEW t \in Tasks, Keep(t)
    PROVE  \E c \in Call, f \in Directory : LocalStep(t, c, f)
<1>1. Busy(t) /\ task[t].at = "keep" /\ UNCHANGED <<platform, answers, disturbed>>
  BY DEF Keep, Busy, At, Installing, local
<1>2. PICK o : o = Files(t)
  OBVIOUS
<1>3. /\ task[t] \in Call /\ o \in Directory /\ task[t].smooth \in BOOLEAN
      /\ task[t].hash \in Whole \cup {"none"} /\ Version(t) \in Versions
      /\ used \in [asked : 0..MaxAsked, faults : 0..MaxFaults]
      /\ dir = [dir EXCEPT ![Version(t)] = o]
  BY <1>1, <1>2, Standing
<1>4. /\ o.binary # "torn" /\ Version(t) \in Trusted
      /\ task[t].smooth \/ Version(t) \notin disturbed => o.binary \in Whole
      /\ Version(t) \notin disturbed =>
            ~Promised(Version(t)) /\ (platform = "macos" => o.digest \in {"none", "rested"})
  <2>1. task[t].version = Version(t)
    BY DEF Version
  <2>2. QED
    BY <1>1, <1>2, <2>1, BusyCall, Unpromised DEF OnRelease, Found
<1>5. CASE /\ Goto(t, "prove") /\ Write(t, [o EXCEPT !.archive = "whole"])
           /\ UNCHANGED <<lock, used>>
  <2>1. PICK f : f = [o EXCEPT !.archive = "whole"]
    OBVIOUS
  <2>2. /\ f \in Directory /\ f.binary = o.binary /\ f.staging = o.staging /\ f.alias = o.alias
        /\ f.digest = o.digest
    BY <1>3, <2>1 DEF Directory
  <2>3. Fits(t, "prove", task[t].smooth, task[t].hash, f)
    BY <1>1, <1>2, <1>3, <1>4, <2>2 DEF Fits, Found
  <2>4. QED
    BY <1>1, <1>3, <1>5, <2>1, <2>3, GotoIs, GoesOn DEF Installing, Write
<1>6. CASE Fault /\ Broken(t) /\ Write(t, [o EXCEPT !.archive = "none", !.binary = "none"])
  <2>1. PICK f : f = [o EXCEPT !.archive = "none", !.binary = "none"]
    OBVIOUS
  <2>2. /\ f \in Directory /\ f.binary = "none" /\ f.staging = o.staging /\ f.alias = o.alias
        /\ f.digest = o.digest
    BY <1>3, <2>1 DEF Directory
  <2>3. Debris(t, f)
    BY <1>2, <1>4, <2>2 DEF Debris
  <2>4. QED
    BY <1>1, <1>3, <1>6, <2>1, <2>3, FaultIsCounted, BreaksOff, GivesUp DEF Write
<1>7. QED
  BY <1>2, <1>5, <1>6 DEF Keep

LEMMA ProveLocal ==
    ASSUME Inductive, NEW t \in Tasks, Prove(t)
    PROVE  \E c \in Call, f \in Directory : LocalStep(t, c, f)
<1>1. Busy(t) /\ task[t].at = "prove" /\ UNCHANGED <<platform, answers, disturbed>>
  BY DEF Prove, Busy, At, Installing, local
<1>2. PICK o : o = Files(t)
  OBVIOUS
<1>3. /\ task[t] \in Call /\ o \in Directory /\ task[t].smooth \in BOOLEAN
      /\ task[t].hash \in Whole \cup {"none"} /\ Version(t) \in Versions
      /\ used \in [asked : 0..MaxAsked, faults : 0..MaxFaults]
      /\ dir = [dir EXCEPT ![Version(t)] = o]
  BY <1>1, <1>2, Standing
<1>4. /\ o.binary # "torn" /\ Version(t) \in Trusted
      /\ task[t].smooth \/ Version(t) \notin disturbed => o.binary \in Whole
      /\ Version(t) \notin disturbed =>
            ~Promised(Version(t)) /\ (platform = "macos" => o.digest \in {"none", "rested"})
  <2>1. task[t].version = Version(t)
    BY DEF Version
  <2>2. QED
    BY <1>1, <1>2, <2>1, BusyCall, Unpromised DEF OnRelease, Found
<1>5. CASE /\ o.binary \in Whole /\ Goto(t, "hash") /\ Write(t, Ran(o))
           /\ UNCHANGED <<lock, used>>
  <2>1. PICK f : f = Ran(o)
    OBVIOUS
  <2>2. /\ f \in Directory /\ f.staging = o.staging /\ f.alias = o.alias
        /\ f.digest = o.digest /\ f.binary \in Whole
        /\ platform = "macos" => f.binary = "rested"
    BY <1>3, <1>5, <2>1 DEF Ran, Directory, Whole
  <2>3. AtRest(f) /\ f.binary # "torn"
    BY <2>2 DEF AtRest, Whole
  <2>4. Fits(t, "hash", task[t].smooth, task[t].hash, f)
    BY <1>1, <1>2, <1>3, <1>4, <2>2, <2>3 DEF Fits, Found
  <2>5. QED
    BY <1>1, <1>3, <1>5, <2>1, <2>4, GotoIs, GoesOn DEF Installing, Write
<1>6. CASE /\ (o.binary \notin Whole /\ Fail(t) /\ UNCHANGED used) \/ (Fault /\ Broken(t))
           /\ Write(t, [o EXCEPT !.binary = "none", !.digest = "none", !.archive = "none"])
  <2>1. PICK f : f = [o EXCEPT !.binary = "none", !.digest = "none", !.archive = "none"]
    OBVIOUS
  <2>2. /\ f \in Directory /\ f.binary = "none" /\ f.staging = o.staging /\ f.alias = o.alias
        /\ f.digest = "none"
    BY <1>3, <2>1 DEF Directory
  <2>3. Debris(t, f)
    BY <1>2, <1>4, <2>2 DEF Debris
  <2>4. CASE o.binary \notin Whole /\ Fail(t) /\ UNCHANGED used
    <3>1. ~task[t].smooth
      BY <1>4, <2>4
    <3>2. QED
      BY <1>1, <1>3, <1>6, <2>1, <2>3, <2>4, <3>1, FailIs, GivesUp DEF Write
  <2>5. CASE Fault /\ Broken(t)
    BY <1>1, <1>3, <1>6, <2>1, <2>3, <2>5, FaultIsCounted, BreaksOff, GivesUp DEF Write
  <2>6. QED
    BY <1>6, <2>4, <2>5
<1>7. QED
  BY <1>2, <1>5, <1>6 DEF Prove

LEMMA HashLocal ==
    ASSUME Inductive, NEW t \in Tasks, Hash(t)
    PROVE  \E c \in Call, f \in Directory : LocalStep(t, c, f)
<1>1. Busy(t) /\ task[t].at = "hash" /\ UNCHANGED <<platform, used, answers, disturbed>>
  BY DEF Hash, Busy, At, Installing, local
<1>2. PICK o : o = Files(t)
  OBVIOUS
<1>3. /\ task[t] \in Call /\ o \in Directory /\ task[t].smooth \in BOOLEAN
      /\ task[t].hash \in Whole \cup {"none"} /\ Version(t) \in Versions
      /\ used \in [asked : 0..MaxAsked, faults : 0..MaxFaults]
      /\ dir = [dir EXCEPT ![Version(t)] = o]
  BY <1>1, <1>2, Standing
<1>4. /\ o.binary # "torn" /\ Version(t) \in Trusted
      /\ task[t].smooth \/ Version(t) \notin disturbed => o.binary \in Whole
      /\ Version(t) \notin disturbed =>
            /\ ~Promised(Version(t)) /\ (platform = "macos" => o.digest \in {"none", "rested"})
            /\ AtRest(o)
  <2>1. task[t].version = Version(t)
    BY DEF Version
  <2>2. QED
    BY <1>1, <1>2, <2>1, BusyCall, Unpromised DEF OnRelease, Found, Kept
<1>5. CASE o.binary = "none" /\ Fail(t) /\ Write(t, [o EXCEPT !.archive = "none"])
  <2>1. PICK f : f = [o EXCEPT !.archive = "none"]
    OBVIOUS
  <2>2. /\ f \in Directory /\ f.binary = o.binary /\ f.staging = o.staging /\ f.alias = o.alias
        /\ f.digest = o.digest
    BY <1>3, <2>1 DEF Directory
  <2>3. Debris(t, f) /\ ~task[t].smooth
    BY <1>2, <1>4, <1>5, <2>2 DEF Debris, Whole
  <2>4. QED
    BY <1>1, <1>3, <1>5, <2>1, <2>3, FailIs, GivesUp DEF Write
<1>6. CASE /\ o.binary # "none"
           /\ task' = [task EXCEPT ![t].at = "record", ![t].hash = o.binary]
           /\ UNCHANGED <<dir, lock>>
  <2>1. o.binary \in Whole
    BY <1>3, <1>4, <1>6 DEF Directory
  <2>2. Fits(t, "record", task[t].smooth, o.binary, o)
    BY <1>1, <1>2, <1>3, <1>4, <2>1 DEF Fits, Found
  <2>3. task' = [task EXCEPT ![t] = [task[t] EXCEPT !.at = "record", !.smooth = task[t].smooth,
                                                    !.hash = o.binary]]
    <3>1. [task[t] EXCEPT !.at = "record", !.hash = o.binary] =
          [task[t] EXCEPT !.at = "record", !.smooth = task[t].smooth, !.hash = o.binary]
      BY <1>3 DEF Call
    <3>2. task' = [task EXCEPT ![t] = [task[t] EXCEPT !.at = "record", !.hash = o.binary]]
      BY <1>6 DEF Inductive, TypeOK
    <3>3. QED
      BY <3>1, <3>2
  <2>4. QED
    BY <1>1, <1>3, <1>6, <2>2, <2>3, GoesOn DEF Installing
<1>7. QED
  BY <1>2, <1>5, <1>6 DEF Hash

LEMMA RecordLocal ==
    ASSUME Inductive, NEW t \in Tasks, Record(t)
    PROVE  \E c \in Call, f \in Directory : LocalStep(t, c, f)
<1>1. Busy(t) /\ task[t].at = "record" /\ UNCHANGED <<platform, disturbed>>
  BY DEF Record, Busy, At, Installing, local
<1>2. PICK o : o = Files(t)
  OBVIOUS
<1>3. /\ task[t] \in Call /\ o \in Directory /\ task[t].smooth \in BOOLEAN
      /\ task[t].hash \in Whole \cup {"none"} /\ Version(t) \in Versions
      /\ used \in [asked : 0..MaxAsked, faults : 0..MaxFaults]
      /\ dir = [dir EXCEPT ![Version(t)] = o]
  BY <1>1, <1>2, Standing
<1>4. /\ o.binary # "torn" /\ Version(t) \in Trusted
      /\ Version(t) \notin disturbed =>
            /\ ~Promised(Version(t)) /\ (platform = "macos" => o.digest \in {"none", "rested"})
            /\ AtRest(o) /\ task[t].hash = o.binary
  <2>1. task[t].version = Version(t)
    BY DEF Version
  <2>2. QED
    BY <1>1, <1>2, <2>1, BusyCall, Unpromised DEF OnRelease, Kept
<1>5. CASE /\ Write(t, [o EXCEPT !.digest = task[t].hash]) /\ Succeed(t) /\ UNCHANGED used
  <2>1. PICK f : f = [o EXCEPT !.digest = task[t].hash]
    OBVIOUS
  <2>2. /\ f \in Directory /\ f.binary = o.binary /\ f.staging = o.staging /\ f.alias = o.alias
        /\ f.digest = task[t].hash
    BY <1>3, <2>1 DEF Directory, Whole
  <2>3. Version(t) \notin disturbed => Sealed(f)
    BY <1>4, <2>2 DEF Sealed, AtRest
  <2>4. dir' = [dir EXCEPT ![Version(t)] = f]
    BY <1>5, <2>1 DEF Write
  <2>5. QED
    BY <1>1, <1>2, <1>3, <1>4, <1>5, <2>2, <2>3, <2>4, Succeeds
<1>6. CASE RecordFails(t)
  <2>1. PICK digest \in {o.digest, "none"} :
            Write(t, [o EXCEPT !.digest = digest, !.binary = "none", !.archive = "none"])
    BY <1>2, <1>6 DEF RecordFails
  <2>2. PICK f : f = [o EXCEPT !.digest = digest, !.binary = "none", !.archive = "none"]
    OBVIOUS
  <2>3. /\ f \in Directory /\ f.binary = "none" /\ f.staging = o.staging /\ f.alias = o.alias
        /\ f.digest \in {o.digest, "none"}
    BY <1>3, <2>2 DEF Directory
  <2>4. Debris(t, f)
    BY <1>2, <1>4, <2>3 DEF Debris
  <2>5. Fault /\ Broken(t) /\ UNCHANGED answers
    BY <1>6 DEF RecordFails
  <2>6. QED
    BY <1>1, <1>3, <2>1, <2>2, <2>4, <2>5, FaultIsCounted, BreaksOff, GivesUp DEF Write
<1>7. QED
  BY <1>2, <1>5, <1>6 DEF Record

LEMMA EveryStepIsLocal ==
    ASSUME Inductive, NEW t \in Tasks, BusyStep(t)
    PROVE  Busy(t) /\ \E c \in Call, f \in Directory : LocalStep(t, c, f)
<1>1. Busy(t)
  BY DEF BusyStep, Look, Probe, Discard, Sweep, Clear, Fetch, Install, Keep, Prove, Hash, Record,
         At, Busy, Installing
<1>2. QED
  BY <1>1, LookLocal, ProbeLocal, DiscardLocal, SweepLocal, ClearLocal, FetchLocal, InstallLocal,
     KeepLocal, ProveLocal, HashLocal, RecordLocal DEF BusyStep

-----------------------------------------------------------------------------
(* Such a step keeps the invariant, whatever the other calls are doing. *)

LEMMA LocalFrame ==
    ASSUME Inductive, NEW t \in Tasks, Busy(t), NEW c \in Call, NEW f \in Directory,
           LocalStep(t, c, f)
    PROVE  /\ TypeOK'
           /\ task'[t] = c /\ \A u \in Tasks : u # t => task'[u] = task[u]
           /\ Version(t) \in Versions /\ dir'[Version(t)] = f
           /\ \A v \in Versions : v # Version(t) => dir'[v] = dir[v]
           /\ disturbed \subseteq disturbed'
           /\ c.at # "alias" /\ (c.at \in Installing => c.version = Version(t))
<1>1. Version(t) \in Versions
  BY DEF Inductive, Placed, Busy, Installing
<1>2. c.at # "alias" /\ (c.at \in Installing => c.version = Version(t))
  BY DEF LocalStep, Course, Installing
<1>3. task \in [Tasks -> Call] /\ dir \in [Versions -> Directory]
      /\ lock \in [Processes -> Tasks \cup {None}] /\ pinned \in [Versions -> Trusted \cup {None}]
      /\ forgotten \subseteq Versions
  BY DEF Inductive, TypeOK
<1>4. task' \in [Tasks -> Call] /\ dir' \in [Versions -> Directory]
  BY <1>3 DEF LocalStep
<1>5. lock' \in [Processes -> Tasks \cup {None}]
  BY <1>3 DEF LocalStep, Course, Unlock
<1>6. pinned' \in [Versions -> Trusted \cup {None}] /\ forgotten' \subseteq Versions
  BY <1>3 DEF LocalStep, Course, answers
<1>7. TypeOK'
  BY <1>1, <1>4, <1>5, <1>6 DEF LocalStep, Inductive, TypeOK
<1>8. QED
  BY <1>1, <1>2, <1>3, <1>7 DEF LocalStep

LEMMA LocalPlaced ==
    ASSUME Inductive, NEW t \in Tasks, Busy(t), NEW c \in Call, NEW f \in Directory,
           LocalStep(t, c, f)
    PROVE  (\A u \in Tasks : Placed(u))'
<1>1. task'[t] = c /\ \A u \in Tasks : u # t => task'[u] = task[u]
  BY LocalFrame
<1>2. ASSUME NEW u \in Tasks, u # t PROVE Placed(u)'
  <2>1. task'[u] = task[u] /\ Placed(u) /\ Placed(t)
    BY <1>1, <1>2 DEF Inductive
  <2>2. Busy(u) => lock[Owner[u]] = u /\ lock[Owner[t]] = t /\ Owner[u] # Owner[t]
    BY <1>2, <2>1 DEF Placed
  <2>3. Owner[u] \in Processes /\ lock \in [Processes -> Tasks \cup {None}]
    BY PinAssumption DEF Inductive, TypeOK
  <2>4. Busy(u) => lock'[Owner[u]] = u
    BY <2>2, <2>3 DEF LocalStep, Course, Unlock
  <2>5. QED
    BY <2>1, <2>4 DEF Placed, Busy, At, Version
<1>3. Placed(t)'
  <2>1. Placed(t) /\ task[t].at \in Installing /\ task[t].at # "idle"
    BY DEF Inductive, Busy, Installing
  <2>2. /\ c.want = task[t].want /\ c.want \in Versions
        /\ task[t].exact \/ Version(t) \in Trusted
        /\ Version(t) \in Versions /\ lock[Owner[t]] = t
    BY <2>1 DEF LocalStep, Placed, Busy
  <2>3. Trusted \subseteq Versions
    BY PinAssumption
  <2>4. c.at # "idle" => c.version \in Versions
    BY <2>2, <2>3 DEF LocalStep, Course
  <2>5. c.at \in OnRelease => c.version \in Trusted
    BY DEF LocalStep, Course, OnRelease
  <2>6. c.at \in Installing \/ c.at = "queue" => c.exact \/ c.version \in Trusted
    BY <2>2 DEF LocalStep, Course, Installing
  <2>7. c.at \in Installing => lock'[Owner[t]] = t
    BY <2>2 DEF LocalStep, Course, Installing
  <2>8. QED
    BY <1>1, <2>2, <2>4, <2>5, <2>6, <2>7 DEF Placed, Busy, At, Version
<1>4. QED
  BY <1>2, <1>3

LEMMA LocalAlone ==
    ASSUME Inductive, NEW t \in Tasks, Busy(t), NEW c \in Call, NEW f \in Directory,
           LocalStep(t, c, f)
    PROVE  Alone' /\ (\A u \in Tasks : Own(u))'
<1>1. /\ task'[t] = c /\ \A u \in Tasks : u # t => task'[u] = task[u]
      /\ Version(t) \in Versions /\ dir'[Version(t)] = f
      /\ \A v \in Versions : v # Version(t) => dir'[v] = dir[v]
      /\ disturbed \subseteq disturbed'
      /\ c.at \in Installing => c.version = Version(t)
  BY LocalFrame
<1>2. \A u \in Tasks : Busy(u)' => Busy(u) /\ Version(u)' = Version(u)
                                   /\ (task'[u].smooth => task[u].smooth)
  BY <1>1 DEF Busy, Version, LocalStep
<1>3. Alone'
  BY <1>1, <1>2 DEF Inductive, Alone
<1>4. Own(t)'
  BY <1>1 DEF LocalStep, Own, Busy, Version, Files, At, Found
<1>5. ASSUME NEW u \in Tasks, u # t PROVE Own(u)'
  <2>1. task'[u] = task[u] /\ Own(u)
    BY <1>1, <1>5 DEF Inductive
  <2>2. CASE Busy(u) /\ Version(u) = Version(t)
    <3>1. Version(u) \in disturbed' /\ ~task[u].smooth
      BY <1>1, <1>5, <2>2 DEF Inductive, Alone
    <3>2. QED
      BY <2>1, <3>1 DEF Own, Busy, Version
  <2>3. CASE Busy(u) /\ Version(u) # Version(t)
    <3>1. Version(u) \in Versions
      BY <2>3 DEF Inductive, Placed, Busy, Installing
    <3>2. Files(u)' = Files(u)
      BY <1>1, <2>1, <2>3, <3>1 DEF Files, Version
    <3>3. QED
      BY <1>1, <2>1, <3>2 DEF Own, Busy, Version, At
  <2>4. CASE ~Busy(u)
    BY <2>1, <2>4 DEF Own, Busy
  <2>5. QED
    BY <2>2, <2>3, <2>4
<1>6. QED
  BY <1>3, <1>4, <1>5

\* A step makes a promise only with the binary in hand.
LEMMA LocalPromise ==
    ASSUME Inductive, NEW t \in Tasks, Busy(t), NEW c \in Call, NEW f \in Directory,
           LocalStep(t, c, f), NEW v, Promised(v)', ~Promised(v)
    PROVE  /\ v = Version(t) /\ c.at \notin Installing /\ f.binary # "torn"
           /\ Version(t) \notin disturbed' => Sealed(f)
<1>1. /\ task'[t] = c /\ \A u \in Tasks : u # t => task'[u] = task[u]
      /\ c.at # "alias" /\ Version(t) \in Versions
  BY LocalFrame
<1>2. \A u \in Tasks : task[u].got # v /\ ~(task[u].at \in {"unalias", "alias"} /\ Version(u) = v)
  BY DEF Promised
<1>3. \A w \in Versions \ forgotten : pinned[w] # v
  BY DEF Promised
<1>4. pinned \in [Versions -> Trusted \cup {None}]
  BY DEF Inductive, TypeOK
<1>5. CASE c.got = v
  <2>1. c.got # task[t].got
    BY <1>2, <1>5
  <2>2. c.at = "idle" /\ c.got = Version(t)
    BY <2>1 DEF LocalStep, Course
  <2>3. QED
    BY <1>5, <2>1, <2>2 DEF LocalStep, InHand, Installing
<1>6. CASE c.at = "unalias" /\ c.version = v
  <2>1. c.version = Version(t)
    BY <1>6 DEF LocalStep, Course, Installing
  <2>2. QED
    BY <1>6, <2>1 DEF LocalStep, InHand, Installing
<1>7. CASE \E w \in Versions \ forgotten' : pinned'[w] = v
  <2>1. c.got = v
    BY <1>1, <1>3, <1>4, <1>7 DEF LocalStep, Course, answers
  <2>2. QED
    BY <1>5, <2>1
<1>8. QED
  <2>1. (\E u \in Tasks : task'[u].got = v
                          \/ (task'[u].at \in {"unalias", "alias"} /\ task'[u].version = v))
        \/ (\E w \in Versions \ forgotten' : pinned'[w] = v)
    BY DEF Promised, Version
  <2>2. QED
    BY <1>1, <1>2, <1>5, <1>6, <1>7, <2>1 DEF Version

LEMMA LocalUntorn ==
    ASSUME Inductive, NEW t \in Tasks, Busy(t), NEW c \in Call, NEW f \in Directory,
           LocalStep(t, c, f)
    PROVE  Untorn'
<1>1. /\ task'[t] = c /\ \A u \in Tasks : u # t => task'[u] = task[u]
      /\ Version(t) \in Versions /\ dir'[Version(t)] = f
      /\ \A v \in Versions : v # Version(t) => dir'[v] = dir[v]
      /\ c.at \in Installing => c.version = Version(t)
  BY LocalFrame
<1>2. Carried(dir[Version(t)], c, f)
  BY DEF LocalStep, Files
<1>3. ASSUME NEW v \in Versions
      PROVE  /\ dir'[v].binary = "torn" => dir[v].binary = "torn"
             /\ dir'[v].staging = "torn" => dir[v].staging = "torn"
  BY <1>1, <1>2 DEF Carried
<1>4. ASSUME NEW u \in Tasks, u # t
      PROVE  /\ (Busy(u) /\ task[u].at \notin {"look", "discard"} => Files(u).binary # "torn")'
             /\ (task[u].at \in {"fetch", "install"} => Files(u).staging # "torn")'
  <2>1. task'[u] = task[u] /\ (Busy(u) => Version(u) \in Versions)
    BY <1>1, <1>4 DEF Inductive, Placed, Busy, Installing
  <2>2. /\ Busy(u) /\ task[u].at \notin {"look", "discard"} => Files(u).binary # "torn"
        /\ task[u].at \in {"fetch", "install"} => Files(u).staging # "torn"
    BY DEF Inductive, Untorn
  <2>3. QED
    BY <1>3, <2>1, <2>2 DEF Busy, Files, Version, Installing
<1>5. /\ (Busy(t) /\ task[t].at \notin {"look", "discard"} => Files(t).binary # "torn")'
      /\ (task[t].at \in {"fetch", "install"} => Files(t).staging # "torn")'
  BY <1>1, <1>2 DEF Carried, Busy, Files, Version, Installing
<1>6. ASSUME NEW v \in Versions, Promised(v)' PROVE dir'[v].binary # "torn"
  <2>1. CASE Promised(v)
    BY <1>3, <2>1 DEF Inductive, Untorn
  <2>2. CASE ~Promised(v)
    BY <1>1, <1>6, <2>2, LocalPromise
  <2>3. QED
    BY <2>1, <2>2
<1>7. QED
  BY <1>4, <1>5, <1>6 DEF Untorn

LEMMA LocalNoted ==
    ASSUME Inductive, NEW t \in Tasks, Busy(t), NEW c \in Call, NEW f \in Directory,
           LocalStep(t, c, f)
    PROVE  Noted' /\ DebrisIsHarmless'
<1>1. /\ task'[t] = c /\ \A u \in Tasks : u # t => task'[u] = task[u]
      /\ Version(t) \in Versions /\ dir'[Version(t)] = f
      /\ \A v \in Versions : v # Version(t) => dir'[v] = dir[v]
      /\ c.at # "alias"
  BY LocalFrame
<1>2. DebrisIsHarmless'
  BY <1>1 DEF LocalStep, DebrisIsHarmless, Inductive, At
<1>3. \A v \in Versions : dir'[v].alias = dir[v].alias
  BY <1>1 DEF LocalStep, Carried, Files
<1>4. pinned \in [Versions -> Trusted \cup {None}]
  BY DEF Inductive, TypeOK
<1>5. \A v \in Versions \ forgotten' :
        pinned'[v] # v => v \notin forgotten /\ pinned'[v] = pinned[v]
  BY <1>4 DEF LocalStep, Course, answers
<1>6. Noted'
  BY <1>3, <1>5 DEF Inductive, Noted
<1>7. QED
  BY <1>2, <1>6

LEMMA LocalUntouched ==
    ASSUME Inductive, NEW t \in Tasks, Busy(t), NEW c \in Call, NEW f \in Directory,
           LocalStep(t, c, f), NEW v \in Versions, v \notin disturbed'
    PROVE  Untouched(v)'
<1>1. /\ task'[t] = c /\ \A u \in Tasks : u # t => task'[u] = task[u]
      /\ Version(t) \in Versions /\ dir'[Version(t)] = f
      /\ \A w \in Versions : w # Version(t) => dir'[w] = dir[w]
      /\ disturbed \subseteq disturbed'
      /\ c.at \in Installing => c.version = Version(t)
  BY LocalFrame
<1>2. platform' = platform
  BY DEF LocalStep
<1>3. v \notin disturbed /\ Untouched(v)
  BY <1>1 DEF Inductive
<1>4. CASE v # Version(t)
  <2>1. dir'[v] = dir[v]
    BY <1>1, <1>4
  <2>2. Promised(v)' => Promised(v)
    BY <1>4, LocalPromise
  <2>3. \A u \in Tasks : (Busy(u) /\ Version(u) = v)' =>
            Busy(u) /\ Version(u) = v /\ task'[u] = task[u]
    BY <1>1, <1>4 DEF Busy, Version
  <2>4. QED
    BY <1>2, <1>3, <2>1, <2>2, <2>3 DEF Untouched, At, Sealed, AtRest
<1>5. CASE v = Version(t)
  <2>1. Kept(c, f) /\ dir'[v] = f
    BY <1>1, <1>5 DEF LocalStep
  <2>2. \A u \in Tasks : (Busy(u) /\ Version(u) = v)' => u = t
    BY <1>1, <1>3, <1>5 DEF Inductive, Alone, Busy, Version
  <2>3. Promised(v)' => Sealed(f) /\ (c.at \in Installing => c.at \in {"look", "probe"})
    <3>1. CASE Promised(v)
      BY <1>5, <3>1 DEF LocalStep
    <3>2. CASE ~Promised(v)
      BY <1>5, <3>2, LocalPromise
    <3>3. QED
      BY <3>1, <3>2
  <2>4. QED
    BY <1>1, <1>2, <2>1, <2>2, <2>3 DEF Untouched, Kept, At, Busy, Sealed, AtRest
<1>6. QED
  BY <1>4, <1>5

LEMMA BusyKeeps ==
    ASSUME Inductive, NEW t \in Tasks, BusyStep(t)
    PROVE  Inductive'
<1>1. Busy(t)
  BY EveryStepIsLocal
<1>2. PICK c \in Call, f \in Directory : LocalStep(t, c, f)
  BY EveryStepIsLocal
<1>3. TypeOK' /\ (\A u \in Tasks : Placed(u))'
  BY <1>1, <1>2, LocalFrame, LocalPlaced
<1>4. Alone' /\ (\A u \in Tasks : Own(u))'
  BY <1>1, <1>2, LocalAlone
<1>5. Untorn' /\ Noted' /\ DebrisIsHarmless'
  BY <1>1, <1>2, LocalUntorn, LocalNoted
<1>6. (\A v \in Versions \ disturbed : Untouched(v))'
  BY <1>1, <1>2, LocalUntouched
<1>7. QED
  BY <1>3, <1>4, <1>5, <1>6 DEF Inductive

-----------------------------------------------------------------------------
(* The steps that are not an install's, and what dies *)

\* A step leaves the files of v as they are, or as they are after a run.
SameFiles(v) ==
    /\ dir'[v].staging = dir[v].staging
    /\ dir'[v].binary = dir[v].binary \/ {dir'[v].binary, dir[v].binary} \subseteq Whole
    /\ v \notin disturbed' =>
          dir'[v].binary = dir[v].binary /\ (dir'[v].digest = dir[v].digest \/ Sealed(dir[v])')

\* A call that is busy after a step has just begun, or was busy there before.
SameCall(u) ==
    task'[u].at \in Installing \ {"look"} =>
        /\ task'[u].at = task[u].at /\ task'[u].version = task[u].version
        /\ task'[u].hash = task[u].hash /\ (task'[u].smooth => task[u].smooth)

LEMMA QuietKeeps ==
    ASSUME Inductive, TypeOK', (\A u \in Tasks : Placed(u))', Alone', Noted', DebrisIsHarmless',
           UNCHANGED platform, disturbed \subseteq disturbed',
           \A v \in Versions : SameFiles(v), \A u \in Tasks : SameCall(u),
           \A v \in Versions : Promised(v)' => Promised(v)
    PROVE  Inductive'
<1>1. ASSUME NEW u \in Tasks, (Busy(u) /\ task[u].at # "look")'
      PROVE  /\ Busy(u) /\ task[u].at # "look" /\ task'[u].at = task[u].at
             /\ Version(u)' = Version(u) /\ Version(u) \in Versions
             /\ task'[u].hash = task[u].hash /\ (task'[u].smooth => task[u].smooth)
             /\ SameFiles(Version(u)) /\ Files(u) = dir[Version(u)]
             /\ Files(u)' = dir'[Version(u)]
  <2>1. /\ task'[u].at = task[u].at /\ task'[u].version = task[u].version
        /\ task'[u].hash = task[u].hash /\ (task'[u].smooth => task[u].smooth) /\ Busy(u)
    BY <1>1 DEF SameCall, Busy
  <2>2. Version(u) \in Versions
    BY <2>1 DEF Inductive, Placed, Busy, Installing
  <2>3. QED
    BY <1>1, <2>1, <2>2 DEF Busy, Version, Files
<1>2. ASSUME NEW u \in Tasks PROVE Own(u)'
  <2>1. CASE (Busy(u) /\ task[u].at # "look" /\ (task[u].smooth \/ Version(u) \notin disturbed))'
    <3>1. Own(u)
      BY DEF Inductive
    <3>2. PICK o, f : o = Files(u) /\ f = Files(u)'
      OBVIOUS
    <3>3. /\ At(u, "discard") => o.binary # "none"
          /\ At(u, "install") => o.staging = "fresh"
          /\ task[u].at \in {"probe", "keep", "prove", "hash", "record"} => o.binary \in Whole
      BY <1>1, <2>1, <3>1, <3>2 DEF Own
    <3>4. f.staging = o.staging /\ (f.binary = o.binary \/ {f.binary, o.binary} \subseteq Whole)
      BY <1>1, <2>1, <3>2 DEF SameFiles
    <3>5. QED
      BY <1>1, <2>1, <3>2, <3>3, <3>4 DEF Own, At, Whole
  <2>2. CASE ~(Busy(u) /\ task[u].at # "look" /\ (task[u].smooth \/ Version(u) \notin disturbed))'
    BY <2>2 DEF Own, At
  <2>3. QED
    BY <2>1, <2>2
<1>3. Untorn'
  <2>1. ASSUME NEW u \in Tasks, (Busy(u) /\ task[u].at \notin {"look", "discard"})'
        PROVE  /\ (Files(u).binary # "torn")'
               /\ (task[u].at \in {"fetch", "install"} => Files(u).staging # "torn")'
    <3>1. /\ Files(u).binary # "torn"
          /\ task[u].at \in {"fetch", "install"} => Files(u).staging # "torn"
      BY <1>1, <2>1 DEF Inductive, Untorn
    <3>2. QED
      BY <1>1, <2>1, <3>1 DEF SameFiles, Whole
  <2>2. ASSUME NEW v \in Versions, Promised(v)' PROVE (dir[v].binary # "torn")'
    BY <2>2 DEF Inductive, Untorn, SameFiles, Whole
  <2>3. QED
    BY <2>1, <2>2 DEF Untorn, Busy, Installing
<1>4. ASSUME NEW v \in Versions, v \notin disturbed' PROVE Untouched(v)'
  <2>1. Untouched(v) /\ SameFiles(v)
    BY <1>4 DEF Inductive
  <2>2. PICK o, f : o = dir[v] /\ f = dir'[v]
    OBVIOUS
  <2>3. f.binary = o.binary /\ (f.digest = o.digest \/ Sealed(f))
    BY <1>4, <2>1, <2>2 DEF SameFiles, Sealed, AtRest
  <2>4. AtRest(o) => AtRest(f)
    BY <2>3 DEF AtRest
  <2>5. Sealed(o) => Sealed(f)
    BY <2>3, <2>4 DEF Sealed
  <2>6. platform = "macos" /\ o.digest \in {"none", "rested"} => f.digest \in {"none", "rested"}
    BY <2>3 DEF Sealed, AtRest
  <2>7. ASSUME NEW u \in Tasks, (Busy(u) /\ Version(u) = v)'
        PROVE  (/\ At(u, "probe") => Sealed(dir[v])
                /\ At(u, "hash") => AtRest(dir[v])
                /\ At(u, "record") => AtRest(dir[v]) /\ task[u].hash = dir[v].binary
                /\ Promised(v) => task[u].at \in {"look", "probe"})'
    <3>1. CASE (task[u].at = "look")'
      BY <3>1 DEF At
    <3>2. CASE (task[u].at # "look")'
      <4>1. Busy(u) /\ Version(u) = v /\ task'[u].at = task[u].at /\ task'[u].hash = task[u].hash
        BY <1>1, <2>7, <3>2
      <4>2. /\ At(u, "probe") => Sealed(o)
            /\ At(u, "hash") => AtRest(o)
            /\ At(u, "record") => AtRest(o) /\ task[u].hash = o.binary
            /\ Promised(v) => task[u].at \in {"look", "probe"}
        BY <2>1, <2>2, <4>1 DEF Untouched
      <4>3. QED
        BY <2>2, <2>3, <2>4, <2>5, <4>1, <4>2 DEF At, Sealed, AtRest
    <3>3. QED
      BY <3>1, <3>2
  <2>8. (Promised(v) => Sealed(dir[v]))'
    BY <2>1, <2>2, <2>5 DEF Untouched, Sealed, AtRest
  <2>9. (platform = "macos" => dir[v].digest \in {"none", "rested"})'
    BY <2>1, <2>2, <2>6 DEF Untouched
  <2>10. QED
    BY <2>7, <2>8, <2>9 DEF Untouched
<1>5. QED
  BY <1>2, <1>3, <1>4 DEF Inductive

LEMMA AskKeeps ==
    ASSUME Inductive, NEW t \in Tasks, NEW w \in Versions, Ask(t, w)
    PROVE  Inductive'
<1>1. PICK c : c = Asking(w)
  OBVIOUS
<1>2. c \in Call /\ c.at = "queue" /\ c.want = w /\ c.version = w /\ c.exact /\ c.got = None
  BY <1>1 DEF Asking, Call, Installing
<1>3. task \in [Tasks -> Call] /\ used \in [asked : 0..MaxAsked, faults : 0..MaxFaults]
      /\ MaxAsked \in Nat
  BY PinAssumption DEF Inductive, TypeOK
<1>4. task'[t] = c /\ (\A u \in Tasks : u # t => task'[u] = task[u]) /\ task' \in [Tasks -> Call]
      /\ task[t].at = "idle" /\ UNCHANGED <<platform, dir, lock, answers, disturbed>>
  BY <1>1, <1>2, <1>3 DEF Ask, At
<1>5. used' \in [asked : 0..MaxAsked, faults : 0..MaxFaults]
  BY <1>3 DEF Ask
<1>6. TypeOK'
  BY <1>4, <1>5 DEF Inductive, TypeOK, answers
<1>7. (\A u \in Tasks : Placed(u))'
  BY <1>2, <1>4 DEF Inductive, Placed, Busy, At, Version, Installing, OnRelease
<1>8. Alone'
  BY <1>2, <1>4 DEF Inductive, Alone, Busy, Version, Installing
<1>9. Noted'
  BY <1>4 DEF Inductive, Noted, answers
<1>10. DebrisIsHarmless'
  BY <1>2, <1>4 DEF Inductive, DebrisIsHarmless, At
<1>11. \A v \in Versions : SameFiles(v)
  BY <1>4 DEF SameFiles
<1>12. \A u \in Tasks : SameCall(u)
  BY <1>2, <1>4 DEF SameCall, Installing
<1>13. \A v \in Versions : Promised(v)' => Promised(v)
  BY <1>2, <1>4, PinAssumption DEF Promised, Version, answers
<1>14. QED
  BY <1>4, <1>6, <1>7, <1>8, <1>9, <1>10, <1>11, <1>12, <1>13, QuietKeeps

LEMMA EnterKeeps ==
    ASSUME Inductive, NEW t \in Tasks, Enter(t)
    PROVE  Inductive'
<1>1. PICK c : c = [task[t] EXCEPT !.at = "look", !.smooth = @ /\ Others(t) = {}]
  OBVIOUS
<1>2. task \in [Tasks -> Call] /\ lock \in [Processes -> Tasks \cup {None}]
      /\ task[t].at = "queue" /\ lock[Owner[t]] = None /\ Owner[t] \in Processes
  BY PinAssumption DEF Inductive, TypeOK, Enter, At
<1>3. /\ c \in Call /\ c.at = "look" /\ c.want = task[t].want /\ c.version = Version(t)
      /\ c.exact = task[t].exact /\ c.got = task[t].got
      /\ c.smooth => task[t].smooth /\ Others(t) = {}
  <2>1. PICK s : s = task[t]
    OBVIOUS
  <2>2. s \in Call /\ s.smooth \in BOOLEAN
    BY <1>2, <2>1 DEF Call
  <2>3. PICK b : b = (s.smooth /\ Others(t) = {})
    OBVIOUS
  <2>4. b \in BOOLEAN /\ (b => s.smooth /\ Others(t) = {})
    BY <2>2, <2>3, Zenon
  <2>5. c = [s EXCEPT !.at = "look", !.smooth = b]
    BY <1>1, <2>1, <2>3
  <2>6. QED
    BY <2>1, <2>2, <2>4, <2>5 DEF Call, Installing, Version
<1>4. task'[t] = c
  BY <1>1 DEF Enter
<1>5. ASSUME NEW u \in Tasks, u # t
      PROVE  /\ task'[u] \in Call /\ task'[u].at = task[u].at /\ task'[u].want = task[u].want
             /\ task'[u].version = task[u].version /\ task'[u].exact = task[u].exact
             /\ task'[u].got = task[u].got /\ task'[u].hash = task[u].hash
             /\ (task'[u].smooth => task[u].smooth /\ u \notin Others(t))
             /\ (u \notin Others(t) => task'[u] = task[u])
  <2>1. task'[u] = IF u \in Others(t) THEN [task[u] EXCEPT !.smooth = FALSE] ELSE task[u]
    BY <1>5 DEF Enter
  <2>2. task[u] \in Call
    BY <1>2
  <2>3. QED
    BY <2>1, <2>2 DEF Call
<1>6. lock' \in [Processes -> Tasks \cup {None}] /\ lock'[Owner[t]] = t
      /\ \A p \in Processes : p # Owner[t] => lock'[p] = lock[p]
  BY <1>2 DEF Enter
<1>7. UNCHANGED <<platform, used, dir, answers>> /\ disturbed \subseteq disturbed'
      /\ (Others(t) # {} => Version(t) \in disturbed')
  BY DEF Enter, local
<1>8. Version(t) \in Versions /\ task[t].want \in Versions /\ (task[t].exact \/ Version(t) \in Trusted)
  BY <1>2 DEF Inductive, Placed, At
<1>9. TypeOK'
  <2>1. task' \in [Tasks -> Call]
    <3>1. task' = [u \in Tasks |-> task'[u]]
      BY DEF Enter
    <3>2. \A u \in Tasks : task'[u] \in Call
      BY <1>3, <1>4, <1>5
    <3>3. QED
      BY <3>1, <3>2
  <2>2. disturbed' \subseteq Versions
    BY <1>8 DEF Inductive, TypeOK, Enter
  <2>3. QED
    BY <1>6, <1>7, <2>1, <2>2 DEF Inductive, TypeOK, answers
<1>10. ASSUME NEW u \in Tasks PROVE Placed(u)'
  <2>1. CASE u = t
    BY <1>3, <1>4, <1>6, <1>8, <2>1 DEF Placed, Busy, At, Version, OnRelease
  <2>2. CASE u # t
    <3>1. Placed(u) /\ Owner[u] \in Processes /\ None \notin Tasks
      BY PinAssumption DEF Inductive
    <3>2. Busy(u) => Owner[u] # Owner[t] /\ lock'[Owner[u]] = u
      BY <1>2, <1>6, <3>1 DEF Placed
    <3>3. QED
      BY <1>5, <2>2, <3>1, <3>2 DEF Placed, Busy, At, Version
  <2>3. QED
    BY <2>1, <2>2
<1>11. Alone'
  <2>1. ASSUME NEW u \in Tasks, u # t, Busy(u), Version(u) = Version(t)
        PROVE  u \in Others(t)
    <3>1. lock[Owner[u]] = u /\ None \notin Tasks
      BY PinAssumption, <2>1 DEF Inductive, Placed
    <3>2. QED
      BY <1>2, <2>1, <3>1 DEF Others, Busy
  <2>2. ASSUME NEW u \in Tasks, u # t, (Busy(u) /\ Version(u) = Version(t))'
        PROVE  (Version(t) \in disturbed /\ ~task[t].smooth /\ ~task[u].smooth)'
    BY <1>3, <1>4, <1>5, <1>7, <2>1, <2>2 DEF Busy, Version
  <2>3. ASSUME NEW u \in Tasks, NEW x \in Tasks, u # t, x # t, u # x,
               (Busy(u) /\ Busy(x) /\ Version(u) = Version(x))'
        PROVE  (Version(u) \in disturbed /\ ~task[u].smooth)'
    BY <1>5, <1>7, <2>3 DEF Inductive, Alone, Busy, Version
  <2>4. QED
    BY <2>2, <2>3 DEF Alone
<1>12. Noted'
  BY <1>7 DEF Inductive, Noted, answers
<1>13. DebrisIsHarmless'
  BY <1>3, <1>4, <1>5 DEF Inductive, DebrisIsHarmless, At
<1>14. \A v \in Versions : SameFiles(v)
  BY <1>7 DEF SameFiles
<1>15. \A u \in Tasks : SameCall(u)
  BY <1>3, <1>4, <1>5 DEF SameCall
<1>16. \A v \in Versions : Promised(v)' => Promised(v)
  BY <1>3, <1>4, <1>5, <1>7 DEF Promised, Version, answers
<1>17. QED
  BY <1>7, <1>9, <1>10, <1>11, <1>12, <1>13, <1>14, <1>15, <1>16, QuietKeeps

\* A call at its note keeps its version in promise, until it hands it out.
LEMMA NotingKeeps ==
    ASSUME Inductive, NEW t \in Tasks, task[t].at \in {"unalias", "alias"}, NEW c \in Call,
           task' = [task EXCEPT ![t] = c], NEW note \in Trusted \cup {None},
           dir' \in {dir, [dir EXCEPT ![task[t].want].alias = note]},
           UNCHANGED <<platform, lock, disturbed>>,
           used' \in [asked : 0..MaxAsked, faults : 0..MaxFaults],
           c.version = Version(t), c.want = task[t].want,
           \/ c.at = "alias" /\ c.got = task[t].got
           \/ c.at = "idle" /\ c.got = Version(t),
           \/ pinned' = pinned /\ forgotten \subseteq forgotten'
           \/ /\ pinned' = [pinned EXCEPT ![task[t].want] = Version(t)]
              /\ forgotten \ {task[t].want} \subseteq forgotten',
           forgotten' \subseteq Versions, Noted'
    PROVE  Inductive'
<1>1. /\ task \in [Tasks -> Call] /\ dir \in [Versions -> Directory]
      /\ pinned \in [Versions -> Trusted \cup {None}]
  BY DEF Inductive, TypeOK
<1>2. task[t].want \in Versions /\ Version(t) \in Versions /\ Version(t) \in Trusted
      /\ None \notin Versions
  BY PinAssumption DEF Inductive, Placed, OnRelease
<1>3. task'[t] = c /\ \A u \in Tasks : u # t => task'[u] = task[u]
  BY <1>1
<1>4. dir' \in [Versions -> Directory]
      /\ \A v \in Versions : dir'[v].binary = dir[v].binary /\ dir'[v].staging = dir[v].staging
                             /\ dir'[v].digest = dir[v].digest
  <2>1. PICK w : w = task[t].want
    OBVIOUS
  <2>2. PICK f : f = [dir[w] EXCEPT !.alias = note]
    OBVIOUS
  <2>3. PICK o : o = dir[w]
    OBVIOUS
  <2>4. o \in Directory /\ f = [o EXCEPT !.alias = note]
    BY <1>1, <1>2, <2>1, <2>2, <2>3
  <2>5. f \in Directory /\ f.binary = o.binary /\ f.staging = o.staging /\ f.digest = o.digest
    BY <2>4 DEF Directory
  <2>6. dir' = dir \/ dir' = [dir EXCEPT ![w] = f]
    BY <1>1, <1>2, <2>1, <2>2
  <2>7. QED
    BY <1>1, <1>2, <2>1, <2>3, <2>5, <2>6
<1>5. TypeOK'
  BY <1>1, <1>2, <1>4 DEF Inductive, TypeOK
<1>6. c.at \in {"alias", "idle"} /\ c.at \notin Installing
  BY DEF Installing
<1>7. (\A u \in Tasks : Placed(u))'
  BY <1>2, <1>3, <1>6 DEF Inductive, Placed, Busy, At, Version
<1>8. Alone'
  BY <1>3, <1>6 DEF Inductive, Alone, Busy, Version
<1>9. DebrisIsHarmless'
  BY <1>2, <1>3 DEF Inductive, DebrisIsHarmless, At
<1>10. \A v \in Versions : SameFiles(v)
  BY <1>4 DEF SameFiles
<1>11. \A u \in Tasks : SameCall(u)
  BY <1>3, <1>6 DEF SameCall
<1>12. ASSUME NEW v \in Versions, Promised(v)' PROVE Promised(v)
  <2>1. Version(t) = v => Promised(v)
    BY DEF Promised
  <2>2. \A w \in Versions \ forgotten' :
            pinned'[w] = v => (w \notin forgotten /\ pinned[w] = v) \/ Version(t) = v
    BY <1>1, <1>2
  <2>3. \A u \in Tasks : task'[u].got = v => task[u].got = v \/ Version(t) = v
    BY <1>3
  <2>4. \A u \in Tasks : (task[u].at \in {"unalias", "alias"} /\ Version(u) = v)' =>
            (task[u].at \in {"unalias", "alias"} /\ Version(u) = v) \/ Version(t) = v
    BY <1>3 DEF Version
  <2>5. QED
    BY <1>12, <2>1, <2>2, <2>3, <2>4 DEF Promised
<1>13. QED
  BY <1>5, <1>7, <1>8, <1>9, <1>10, <1>11, <1>12, QuietKeeps

\* It is answered, but the note could not be written.
LEMMA UnnotedKeeps ==
    ASSUME Inductive, NEW t \in Tasks, task[t].at \in {"unalias", "alias"},
           Fault, Unnoted(t), UNCHANGED <<platform, lock, disturbed>>
    PROVE  Inductive'
<1>1. /\ task \in [Tasks -> Call] /\ dir \in [Versions -> Directory]
      /\ pinned \in [Versions -> Trusted \cup {None}] /\ forgotten \subseteq Versions
  BY DEF Inductive, TypeOK
<1>2. task[t].want \in Versions /\ Version(t) \in Trusted
  BY DEF Inductive, Placed, OnRelease
<1>3. PICK s : s = task[t]
  OBVIOUS
<1>4. s \in Call /\ s.version = Version(t)
  BY <1>1, <1>3 DEF Version
<1>5. PICK c : c = [s EXCEPT !.at = "idle", !.got = Version(t)]
  OBVIOUS
<1>6. c \in Call /\ c.at = "idle" /\ c.version = Version(t) /\ c.want = s.want /\ c.got = Version(t)
  BY <1>2, <1>4, <1>5 DEF Call
<1>7. /\ task' = [task EXCEPT ![t] = c] /\ dir' = dir
      /\ pinned' = [pinned EXCEPT ![task[t].want] = Version(t)]
      /\ forgotten \subseteq forgotten' /\ forgotten' \subseteq Versions
      /\ dir[task[t].want].alias = Version(t) \/ task[t].want \in forgotten'
  BY <1>1, <1>2, <1>3, <1>5 DEF Unnoted, Answered
<1>8. ASSUME NEW v \in Versions \ forgotten', pinned'[v] \notin {None, v}
      PROVE  dir'[v].alias = pinned'[v]
  <2>1. CASE v = task[t].want
    BY <1>1, <1>7, <1>8, <2>1
  <2>2. CASE v # task[t].want
    <3>1. pinned'[v] = pinned[v] /\ v \notin forgotten
      BY <1>1, <1>7, <1>8, <2>2
    <3>2. QED
      BY <1>7, <1>8, <3>1 DEF Inductive, Noted
  <2>3. QED
    BY <2>1, <2>2
<1>9. Noted'
  BY <1>8 DEF Noted
<1>10. /\ used' \in [asked : 0..MaxAsked, faults : 0..MaxFaults]
       /\ dir' \in {dir, [dir EXCEPT ![task[t].want].alias = Version(t)]}
       /\ Version(t) \in Trusted \cup {None}
       /\ forgotten \ {task[t].want} \subseteq forgotten'
  BY <1>2, <1>7, FaultIsCounted
<1>11. QED
  BY <1>3, <1>6, <1>7, <1>9, <1>10, NotingKeeps

LEMMA UnaliasKeeps ==
    ASSUME Inductive, NEW t \in Tasks, Unalias(t)
    PROVE  Inductive'
<1>1. /\ task \in [Tasks -> Call] /\ dir \in [Versions -> Directory]
      /\ pinned \in [Versions -> Trusted \cup {None}] /\ task[t].at = "unalias"
      /\ forgotten \subseteq Versions
      /\ used \in [asked : 0..MaxAsked, faults : 0..MaxFaults]
      /\ UNCHANGED <<platform, lock, disturbed>>
  BY DEF Inductive, TypeOK, Unalias, At
<1>2. task[t].want \in Versions /\ Version(t) \in Trusted
  BY <1>1 DEF Inductive, Placed, OnRelease
<1>3. PICK s : s = task[t]
  OBVIOUS
<1>4. s \in Call /\ s.version = Version(t)
  BY <1>1, <1>3 DEF Version
<1>5. CASE /\ dir' = [dir EXCEPT ![task[t].want].alias = None]
           /\ forgotten' = forgotten \cup {task[t].want}
           /\ Goto(t, "alias") /\ UNCHANGED <<used, pinned>>
  <2>1. PICK c : c = [s EXCEPT !.at = "alias"]
    OBVIOUS
  <2>2. c \in Call /\ c.at = "alias" /\ c.version = Version(t) /\ c.want = s.want /\ c.got = s.got
    BY <1>4, <2>1 DEF Call
  <2>3. task' = [task EXCEPT ![t] = c]
    BY <1>1, <1>3, <1>5, <2>1 DEF Goto
  <2>4. \A v \in Versions \ forgotten' : dir'[v] = dir[v] /\ v \notin forgotten
    BY <1>1, <1>5
  <2>5. Noted'
    BY <1>5, <2>4 DEF Inductive, Noted
  <2>6. used' \in [asked : 0..MaxAsked, faults : 0..MaxFaults]
        /\ dir' \in {dir, [dir EXCEPT ![task[t].want].alias = None]} /\ pinned' = pinned
        /\ forgotten \subseteq forgotten' /\ forgotten' \subseteq Versions
    BY <1>1, <1>2, <1>5
  <2>7. QED
    BY <1>1, <1>3, <2>2, <2>3, <2>5, <2>6, NotingKeeps
<1>6. CASE Fault /\ Unnoted(t)
  BY <1>1, <1>6, UnnotedKeeps
<1>7. QED
  BY <1>5, <1>6 DEF Unalias

LEMMA SaveAliasKeeps ==
    ASSUME Inductive, NEW t \in Tasks, SaveAlias(t)
    PROVE  Inductive'
<1>1. /\ task \in [Tasks -> Call] /\ dir \in [Versions -> Directory]
      /\ pinned \in [Versions -> Trusted \cup {None}] /\ task[t].at = "alias"
      /\ forgotten \subseteq Versions
      /\ used \in [asked : 0..MaxAsked, faults : 0..MaxFaults]
      /\ UNCHANGED <<platform, lock, disturbed>>
  BY DEF Inductive, TypeOK, SaveAlias, At
<1>2. task[t].want \in Versions /\ Version(t) \in Trusted
  BY <1>1 DEF Inductive, Placed, OnRelease
<1>3. PICK s : s = task[t]
  OBVIOUS
<1>4. s \in Call /\ s.version = Version(t)
  BY <1>1, <1>3 DEF Version
<1>5. CASE /\ Answered(t) /\ dir' = [dir EXCEPT ![task[t].want].alias = Version(t)]
           /\ forgotten' = forgotten \ {task[t].want} /\ UNCHANGED used
  <2>1. PICK c : c = [s EXCEPT !.at = "idle", !.got = Version(t)]
    OBVIOUS
  <2>2. c \in Call /\ c.at = "idle" /\ c.version = Version(t) /\ c.want = s.want /\ c.got = Version(t)
    BY <1>2, <1>4, <2>1 DEF Call
  <2>3. task' = [task EXCEPT ![t] = c] /\ pinned' = [pinned EXCEPT ![task[t].want] = Version(t)]
    BY <1>1, <1>3, <1>5, <2>1 DEF Answered
  <2>4. dir'[task[t].want].alias = Version(t) /\ pinned'[task[t].want] = Version(t)
    <3>1. dir[task[t].want] \in Directory
      BY <1>1, <1>2
    <3>2. dir'[task[t].want] = [dir[task[t].want] EXCEPT !.alias = Version(t)]
      BY <1>1, <1>2, <1>5
    <3>3. QED
      BY <1>1, <1>2, <2>3, <3>1, <3>2 DEF Directory
  <2>5. \A v \in Versions : v # task[t].want =>
            pinned'[v] = pinned[v] /\ dir'[v] = dir[v] /\ (v \in forgotten => v \in forgotten')
    BY <1>1, <1>5, <2>3
  <2>6. Noted'
    BY <2>4, <2>5 DEF Inductive, Noted
  <2>7. used' \in [asked : 0..MaxAsked, faults : 0..MaxFaults]
        /\ dir' \in {dir, [dir EXCEPT ![task[t].want].alias = Version(t)]}
        /\ Version(t) \in Trusted \cup {None}
        /\ forgotten \ {task[t].want} \subseteq forgotten' /\ forgotten' \subseteq Versions
    BY <1>1, <1>2, <1>5
  <2>8. QED
    BY <1>1, <1>3, <2>2, <2>3, <2>6, <2>7, NotingKeeps
<1>6. CASE Fault /\ Unnoted(t)
  BY <1>1, <1>6, UnnotedKeeps
<1>7. QED
  BY <1>5, <1>6 DEF SaveAlias

LEMMA ConsultKeeps ==
    ASSUME Inductive, NEW w \in Versions, Consult(w)
    PROVE  Inductive'
<1>1. PICK r : r = Offline(w)
  OBVIOUS
<1>2. /\ dir \in [Versions -> Directory] /\ UNCHANGED <<platform, used, lock, task, answers, disturbed>>
      /\ platform \in {"macos", "linux"}
  BY DEF Inductive, TypeOK, Consult, local
<1>3. r \in Versions /\ Accepts(r)
  <2>1. r # None
    BY <1>1 DEF Consult
  <2>2. Trusted \subseteq Versions
    BY PinAssumption
  <2>3. QED
    BY <1>1, <2>1, <2>2 DEF Offline, Accepts
<1>4. PICK o : o = dir[r]
  OBVIOUS
<1>5. PICK g : g = Probed(o)
  OBVIOUS
<1>6. /\ g \in Directory /\ g.binary = o.binary /\ o.binary \in Whole
      /\ g.staging = o.staging /\ g.alias = o.alias
      /\ r \notin disturbed => Sealed(g)
  BY <1>3, <1>4, <1>5, AcceptedFile
<1>7. PICK f : f = Ran(g)
  OBVIOUS
<1>8. /\ f \in Directory /\ f.binary \in Whole
      /\ f.staging = o.staging /\ f.alias = o.alias
      /\ r \notin disturbed => Sealed(f) /\ f.binary = o.binary
  BY <1>6, <1>7 DEF Ran, Directory, Whole, Sealed, AtRest
<1>9. dir' = [dir EXCEPT ![r] = f]
  BY <1>1, <1>4, <1>5, <1>7 DEF Consult
<1>10. /\ dir' \in [Versions -> Directory] /\ dir'[r] = f
       /\ \A v \in Versions : v # r => dir'[v] = dir[v]
  BY <1>2, <1>3, <1>8, <1>9
<1>11. TypeOK'
  BY <1>2, <1>10 DEF Inductive, TypeOK, answers
<1>12. (\A u \in Tasks : Placed(u))' /\ Alone' /\ DebrisIsHarmless'
  BY <1>2 DEF Inductive, Placed, Alone, DebrisIsHarmless, Busy, At, Version
<1>13. Noted'
  <2>1. \A v \in Versions : dir'[v].alias = dir[v].alias
    BY <1>4, <1>8, <1>10
  <2>2. QED
    BY <1>2, <2>1 DEF Inductive, Noted, answers
<1>14. ASSUME NEW v \in Versions PROVE SameFiles(v)
  <2>1. CASE v = r
    <3>1. v \notin disturbed' => Sealed(dir[v])' /\ dir'[v].binary = dir[v].binary
      BY <1>2, <1>4, <1>8, <1>10, <2>1 DEF Sealed, AtRest
    <3>2. QED
      BY <1>4, <1>6, <1>8, <1>10, <2>1, <3>1 DEF SameFiles
  <2>2. CASE v # r
    BY <1>10, <2>2 DEF SameFiles
  <2>3. QED
    BY <2>1, <2>2
<1>15. \A u \in Tasks : SameCall(u)
  BY <1>2 DEF SameCall
<1>16. \A v \in Versions : Promised(v)' => Promised(v)
  BY <1>2 DEF Promised, Version, answers
<1>17. QED
  BY <1>2, <1>11, <1>12, <1>13, <1>14, <1>15, <1>16, QuietKeeps

LEMMA NoCallIs ==
    /\ NoCall \in Call /\ NoCall.at = "idle" /\ NoCall.got = None
    /\ NoCall.version = None /\ NoCall.want = None /\ ~NoCall.smooth
<1>1. PICK a : a = Asking(None)
  OBVIOUS
<1>2. a \in Call /\ a.got = None /\ a.version = None /\ a.want = None
  BY <1>1 DEF Asking, Call, Installing
<1>3. NoCall = [a EXCEPT !.at = "idle", !.smooth = FALSE]
  BY <1>1 DEF NoCall
<1>4. QED
  BY <1>2, <1>3 DEF Call

LEMMA CrashKeeps ==
    ASSUME Inductive, NEW p \in Processes, Crash(p)
    PROVE  Inductive'
<1>1. /\ task \in [Tasks -> Call] /\ lock \in [Processes -> Tasks \cup {None}]
      /\ None \notin Versions /\ None \notin Trusted
      /\ UNCHANGED <<platform, dir, pinned, forgotten, disturbed>>
  BY PinAssumption DEF Inductive, TypeOK, Crash, answers
<1>2. /\ task' \in [Tasks -> Call]
      /\ \A u \in Tasks : Owner[u] # p => task'[u] = task[u]
      /\ \A u \in Tasks : Owner[u] = p => task'[u] = NoCall
  BY <1>1, NoCallIs DEF Crash, Killed
<1>3. /\ lock' \in [Processes -> Tasks \cup {None}]
      /\ \A q \in Processes : q # p => lock'[q] = lock[q]
  BY <1>1 DEF Crash
<1>4. TypeOK'
  <2>1. used' \in [asked : 0..MaxAsked, faults : 0..MaxFaults]
    BY FaultIsCounted DEF Crash, Inductive, TypeOK
  <2>2. QED
    BY <1>1, <1>2, <1>3, <2>1 DEF Inductive, TypeOK
<1>5. \A u \in Tasks : task'[u].at # "idle" => Owner[u] # p /\ task'[u] = task[u]
  BY <1>2, NoCallIs
<1>6. \A u \in Tasks : task'[u].at \in Installing => Owner[u] # p /\ task'[u] = task[u]
  BY <1>5 DEF Installing
<1>7. ASSUME NEW u \in Tasks PROVE Placed(u)'
  <2>1. CASE Owner[u] = p
    <3>1. task'[u].at = "idle"
      BY <1>2, <2>1, NoCallIs
    <3>2. QED
      BY <3>1 DEF Placed, Busy, At, Installing, OnRelease
  <2>2. CASE Owner[u] # p
    <3>1. Placed(u) /\ Owner[u] \in Processes
      BY PinAssumption DEF Inductive
    <3>2. QED
      BY <1>2, <1>3, <2>2, <3>1 DEF Placed, Busy, At, Version
  <2>3. QED
    BY <2>1, <2>2
<1>8. Alone'
  BY <1>1, <1>6 DEF Inductive, Alone, Busy, Version
<1>9. Noted'
  BY <1>1 DEF Inductive, Noted
<1>10. DebrisIsHarmless'
  BY <1>2, NoCallIs DEF Inductive, DebrisIsHarmless, At
<1>11. \A v \in Versions : SameFiles(v)
  BY <1>1 DEF SameFiles
<1>12. \A u \in Tasks : SameCall(u)
  BY <1>6 DEF SameCall
<1>13. \A v \in Versions : Promised(v)' => Promised(v)
  BY <1>1, <1>2, NoCallIs DEF Promised, Version
<1>14. QED
  BY <1>1, <1>4, <1>7, <1>8, <1>9, <1>10, <1>11, <1>12, <1>13, QuietKeeps

\* After the machine died nobody is at work, and what is still promised is as it was.
LEMMA NobodyAtWork ==
    ASSUME Inductive, TypeOK', task' = [t \in Tasks |-> NoCall],
           UNCHANGED <<platform, pinned, disturbed>>, forgotten \subseteq forgotten',
           \A v \in Versions \ forgotten' :
                dir'[v] = dir[v] /\ (pinned[v] # None => dir'[pinned[v]] = dir[pinned[v]]),
           \A v \in Versions : v \notin disturbed' /\ platform' = "macos"
                => dir'[v].digest \in {"none", "rested"}
    PROVE  Inductive'
<1>1. \A u \in Tasks : task'[u].at = "idle" /\ task'[u].got = None /\ ~task'[u].smooth
  BY NoCallIs
<1>2. None \notin Versions
  BY PinAssumption
<1>3. \A u \in Tasks : ~Busy(u)'
  BY <1>1 DEF Busy, Installing
<1>4. ASSUME NEW v \in Versions, Promised(v)' PROVE Promised(v) /\ dir'[v] = dir[v]
  <2>1. PICK w \in Versions \ forgotten' : pinned[w] = v
    BY <1>1, <1>2, <1>4 DEF Promised
  <2>2. QED
    BY <1>2, <2>1 DEF Promised
<1>5. \A u \in Tasks : Placed(u)' /\ Own(u)'
  BY <1>1, <1>3 DEF Placed, Own, OnRelease, At
<1>6. Alone' /\ DebrisIsHarmless'
  BY <1>1, <1>3 DEF Alone, DebrisIsHarmless, At
<1>7. Noted'
  BY DEF Inductive, Noted
<1>8. Untorn'
  <2>1. \A v \in Versions : Promised(v)' => dir'[v].binary # "torn"
    BY <1>4 DEF Inductive, Untorn
  <2>2. QED
    BY <1>1, <1>3, <2>1 DEF Untorn
<1>9. ASSUME NEW v \in Versions, v \notin disturbed' PROVE Untouched(v)'
  <2>1. Promised(v)' => Sealed(dir[v]) /\ dir'[v] = dir[v]
    BY <1>4, <1>9 DEF Inductive, Untouched
  <2>2. QED
    BY <1>3, <1>9, <2>1 DEF Untouched, Sealed, AtRest
<1>10. QED
  BY <1>5, <1>6, <1>7, <1>8, <1>9 DEF Inductive

LEMMA AfterLossIs ==
    ASSUME TypeOK, NEW f \in Directory, NEW lost
    PROVE  /\ AfterLoss(f, lost) \in Directory
           /\ platform = "macos" => AfterLoss(f, lost).digest \in {f.digest, "none"}
<1> DEFINE Lost(file, what) == IF f[file] # "none" /\ file \in lost THEN what ELSE f[file]
           binary == IF platform = "linux" THEN "none" ELSE "torn"
           digest == IF platform = "linux" THEN "bad" ELSE "none"
<1>1. /\ binary \in {"none", "torn"}
      /\ digest \in {"bad", "none"} /\ (platform = "macos" => digest = "none")
  OBVIOUS
<1>2. f.binary \in Whole \cup {"none", "torn"} /\ f.staging \in {"none", "fresh", "torn"}
      /\ f.digest \in Whole \cup {"none", "bad"} /\ f.archive \in {"none", "whole", "torn"}
      /\ f.alias \in Trusted \cup {None}
  BY DEF Directory
<1>3. /\ Lost("binary", binary) \in Whole \cup {"none", "torn"}
      /\ Lost("staging", binary) \in {"none", "fresh", "torn"}
      /\ Lost("archive", "torn") \in {"none", "whole", "torn"}
      /\ Lost("digest", digest) \in Whole \cup {"none", "bad"}
      /\ platform = "macos" => Lost("digest", digest) \in {f.digest, "none"}
  BY <1>1, <1>2
<1>4. AfterLoss(f, lost) =
        [binary |-> Lost("binary", binary), staging |-> Lost("staging", binary),
         archive |-> Lost("archive", "torn"), digest |-> Lost("digest", digest),
         alias |-> IF "alias" \in lost THEN None ELSE f.alias]
  BY DEF AfterLoss
<1> HIDE DEF Lost, binary, digest
<1>5. (IF "alias" \in lost THEN None ELSE f.alias) \in Trusted \cup {None}
  BY <1>2
<1>6. QED
  BY <1>3, <1>4, <1>5 DEF Directory

LEMMA PowerLossKeeps ==
    ASSUME Inductive, PowerLoss
    PROVE  Inductive'
<1>1. \E lost : dir' = [v \in Versions |-> AfterLoss(dir[v], {file \in FileNames : <<v, file>> \in lost})]
  BY DEF PowerLoss
<1>2. \A v \in Versions : \E files : dir'[v] = AfterLoss(dir[v], files)
  BY <1>1
<1>3. /\ task' = [t \in Tasks |-> NoCall] /\ lock' = [p \in Processes |-> None]
      /\ UNCHANGED <<platform, pinned, disturbed>>
  BY PinAssumption DEF PowerLoss, Killed
<1>4. forgotten' = forgotten \cup
          {v \in Versions : dir'[v] # dir[v] \/ (pinned[v] # None /\ dir'[pinned[v]] # dir[pinned[v]])}
  BY DEF PowerLoss
<1>5. TypeOK /\ \A v \in Versions : dir[v] \in Directory
  BY DEF Inductive, TypeOK
<1>6. used' \in [asked : 0..MaxAsked, faults : 0..MaxFaults]
  BY FaultIsCounted, <1>5 DEF PowerLoss, TypeOK
<1>7. dir' \in [Versions -> Directory]
  <2>1. \A v \in Versions : dir'[v] \in Directory
    BY <1>2, <1>5, AfterLossIs
  <2>2. dir' = [v \in Versions |-> dir'[v]]
    BY <1>1
  <2>3. QED
    BY <2>1, <2>2
<1>8. TypeOK'
  BY <1>3, <1>4, <1>5, <1>6, <1>7, NoCallIs DEF TypeOK
<1>9. ASSUME NEW v \in Versions, v \notin disturbed', platform' = "macos"
      PROVE  dir'[v].digest \in {"none", "rested"}
  <2>1. dir[v].digest \in {"none", "rested"}
    BY <1>3, <1>9 DEF Inductive, Untouched
  <2>2. QED
    BY <1>2, <1>3, <1>5, <1>9, <2>1, AfterLossIs
<1>10. QED
  BY <1>3, <1>4, <1>8, <1>9, NobodyAtWork

LEMMA StutterKeeps ==
    ASSUME Inductive, UNCHANGED vars
    PROVE  Inductive'
BY DEF Inductive, vars, TypeOK, Placed, Own, Alone, Untorn, Noted, DebrisIsHarmless, Untouched,
       Promised, Sealed, AtRest, Busy, At, Version, Files

LEMMA InitInductive == Init => Inductive
<1> SUFFICES ASSUME Init PROVE Inductive
  OBVIOUS
<1>1. Empty \in Directory /\ Empty.digest = "none"
  BY DEF Empty, Directory, Whole
<1>2. task = [t \in Tasks |-> NoCall] /\ pinned = [v \in Versions |-> None]
      /\ \A v \in Versions : dir[v].digest = "none"
  BY <1>1 DEF Init
<1>3. TypeOK
  <2>1. used \in [asked : 0..MaxAsked, faults : 0..MaxFaults]
    BY PinAssumption DEF Init
  <2>2. QED
    BY <1>1, <1>2, <2>1, NoCallIs DEF Init, TypeOK
<1>4. \A u \in Tasks : task[u].at = "idle" /\ task[u].got = None /\ ~task[u].smooth
  BY <1>2, NoCallIs
<1>5. None \notin Versions
  BY PinAssumption
<1>6. \A u \in Tasks : ~Busy(u)
  BY <1>4 DEF Busy, Installing
<1>7. \A v \in Versions : ~Promised(v)
  BY <1>2, <1>4, <1>5 DEF Promised
<1>8. \A u \in Tasks : Placed(u) /\ Own(u)
  BY <1>4, <1>6 DEF Placed, Own, OnRelease, At
<1>9. Alone /\ Noted /\ DebrisIsHarmless
  BY <1>2, <1>4, <1>6 DEF Alone, Noted, DebrisIsHarmless, At
<1>10. Untorn
  BY <1>4, <1>6, <1>7 DEF Untorn
<1>11. \A v \in Versions : Untouched(v)
  BY <1>2, <1>6, <1>7 DEF Untouched
<1>12. QED
  BY <1>3, <1>8, <1>9, <1>10, <1>11 DEF Inductive

-----------------------------------------------------------------------------
\* Every reachable state of the cache: what each call relies on between two of
\* its steps (ensure_exact_binary), what other processes may have done to it,
\* and what the files of a promised version hold.
THEOREM Invariance == Spec => []Inductive
<1>1. ASSUME Inductive, [Next]_vars PROVE Inductive'
  <2>1. CASE \E t \in Tasks : Ensure(t)
    <3>1. PICK t \in Tasks : Ensure(t)
      BY <2>1
    <3>2. BusyStep(t) \/ Enter(t) \/ Unalias(t) \/ SaveAlias(t)
      BY <3>1 DEF Ensure, BusyStep
    <3>3. QED
      BY <1>1, <3>2, BusyKeeps, EnterKeeps, UnaliasKeeps, SaveAliasKeeps
  <2>2. CASE \E t \in Tasks, v \in Versions : Ask(t, v)
    BY <1>1, <2>2, AskKeeps
  <2>3. CASE \E v \in Versions : Consult(v)
    BY <1>1, <2>3, ConsultKeeps
  <2>4. CASE \E p \in Processes : Crash(p)
    BY <1>1, <2>4, CrashKeeps
  <2>5. CASE PowerLoss
    BY <1>1, <2>5, PowerLossKeeps
  <2>6. CASE UNCHANGED vars
    BY <1>1, <2>6, StutterKeeps
  <2>7. QED
    BY <1>1, <2>1, <2>2, <2>3, <2>4, <2>5, <2>6 DEF Next
<1>2. QED
  BY <1>1, InitInductive, PTL DEF Spec

\* The files of the cache, its locks and its calls stay within their types;
\* in particular what a call answers, notes or falls back to is a release of
\* the trust manifest.
THEOREM TypeCorrect == Spec => []TypeOK
<1>1. Inductive => TypeOK
  BY DEF Inductive
<1>2. QED
  BY <1>1, Invariance, PTL

\* ensure_binary hands out a path to a binary that stays whole: whatever other
\* calls, lookups and crashes do to the directory, it is not replaced by a
\* broken one, and it is taken away only if two processes installed the version
\* at once, or a run of it timed out.
THEOREM HandedOutIsWholeHolds == Spec => []HandedOutIsWhole
<1>1. ASSUME Inductive, NEW t \in Tasks, NEW v, v = task[t].got, v # None
      PROVE  dir[v].binary \in Whole \/ (dir[v].binary = "none" /\ v \in disturbed)
  <2>1. task[t] \in Call
    BY <1>1 DEF Inductive, TypeOK
  <2>2. v \in Versions
    BY <1>1, <2>1, PinAssumption DEF Call
  <2>3. dir[v] \in Directory
    BY <1>1, <2>2 DEF Inductive, TypeOK
  <2>4. dir[v].binary \in Whole \cup {"none", "torn"}
    BY <2>3 DEF Directory
  <2>5. Promised(v)
    BY <1>1 DEF Promised
  <2>6. dir[v].binary # "torn"
    BY <1>1, <2>2, <2>5 DEF Inductive, Untorn
  <2>7. v \notin disturbed => Sealed(dir[v])
    BY <1>1, <2>2, <2>5 DEF Inductive, Untouched
  <2>8. QED
    BY <2>4, <2>6, <2>7 DEF Sealed, AtRest
<1>2. Inductive => HandedOutIsWhole
  BY <1>1 DEF HandedOutIsWhole
<1>3. QED
  BY <1>2, Invariance, PTL

\* What `zedb pin` answered for a version is what the replay-backed commands
\* find offline (cached_binary_or_fallback), or by then the version itself,
\* through every later install, look, fault and crash of a process, while the
\* answer is not forgotten: its note not written, taken away to be replaced by a
\* second call (and lost, if that call dies there), or its files lost with the
\* machine's power.  Two processes at one version and runs that timed out are
\* left out.
THEOREM PinnedStaysUsableHolds == Spec => []PinnedStaysUsable
<1>1. ASSUME Inductive, NEW v \in Versions, pinned[v] # None, v \notin forgotten, disturbed = {}
      PROVE  Offline(v) \in {pinned[v], v}
  <2>1. PICK r : r = pinned[v]
    OBVIOUS
  <2>2. r \in Trusted /\ r \in Versions /\ r # None
    BY <1>1, <2>1, PinAssumption DEF Inductive, TypeOK
  <2>3. Promised(r)
    BY <1>1, <2>1 DEF Promised
  <2>4. Sealed(dir[r])
    BY <1>1, <2>2, <2>3 DEF Inductive, Untouched
  <2>5. Accepts(r)
    BY <2>2, <2>4 DEF Accepts, Recorded, Sealed, AtRest, Whole
  <2>6. CASE r = v
    BY <2>1, <2>5, <2>6 DEF Offline
  <2>7. CASE r # v
    <3>1. dir[v].alias = r
      BY <1>1, <2>1, <2>2, <2>7 DEF Inductive, Noted
    <3>2. QED
      BY <2>1, <2>2, <2>5, <3>1 DEF Offline
  <2>8. QED
    BY <2>6, <2>7
<1>2. Inductive => PinnedStaysUsable
  BY <1>1 DEF PinnedStaysUsable
<1>3. QED
  BY <1>2, Invariance, PTL

\* The next call repairs what an interrupted install left behind: torn files,
\* a binary without its digest, staging files and notes.
THEOREM DebrisIsHarmlessHolds == Spec => []DebrisIsHarmless
<1>1. Inductive => DebrisIsHarmless
  BY DEF Inductive
<1>2. QED
  BY <1>1, Invariance, PTL
=============================================================================
