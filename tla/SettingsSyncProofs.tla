-------------------------- MODULE SettingsSyncProofs --------------------------
(***************************************************************************)
(* Theorems about SettingsSync, for every number of machines, every        *)
(* content of settings and repository, every bound and, where a theorem    *)
(* does not say otherwise, every mix of faults.                            *)
(*                                                                         *)
(* Two things are behind all of them.  Merging a payload only lets a list  *)
(* of connections grow, by locked ones (MergeGrows); this is proved of the *)
(* loop of merge_synced_connections by its least counterexample.  And      *)
(* unless a commit has failed, whatever a tick compares with, records or   *)
(* gives up is in the history of its machine's clone, and the last commit  *)
(* a worker pushes is its own (Sound).  A third, Candid, is for machines   *)
(* that are enabled once: what was last synced is what they show, until    *)
(* their user edits.  And a worker knows the settings it started from and  *)
(* says so, unless an edit came since (Timely).                            *)
(***************************************************************************)
EXTENDS SettingsSync, FiniteSetsExt, SequenceTheorems, WellFoundedInduction, TLAPS

-----------------------------------------------------------------------------
(* The loop of Merge *)

\* Min of FiniteSetsExt is attained: some relation that contains < is
\* well-founded on Nat.
LEMMA MinAttained ==
    ASSUME NEW S, S \subseteq Nat, S # {}
    PROVE  Min(S) \in S /\ \A y \in S : Min(S) =< y
<1> DEFINE R == OpToRel(<, Nat)
<1>1. \A y, x \in Nat : y < x => <<y, x>> \in R
  BY Zenon DEF OpToRel
<1>2. IsWellFoundedOn(R, Nat)
  BY NatLessThanWellFounded, Zenon
<1> HIDE DEF R
<1>3. \E x \in S : \A y \in S : ~ (<<y, x>> \in R)
  BY <1>2, WFMin, Zenon
<1>4. PICK x \in S : \A y \in S : ~ (<<y, x>> \in R)
  BY <1>3
<1>5. ASSUME NEW y \in S PROVE x =< y
  <2>1. x \in Nat /\ y \in Nat
    OBVIOUS
  <2>2. ~ (y < x)
    BY <1>1, <1>4, <2>1, Zenon
  <2>3. QED
    BY <2>1, <2>2
<1>6. QED
  BY <1>5, Zenon DEF Min

LoopOf(f, mine, theirs, n) ==
    f = [i \in 0..n |-> IF i = 0 THEN mine ELSE Merged(f[i - 1], theirs, i)]

LEMMA LoopExists ==
    ASSUME NEW mine, NEW theirs, NEW n \in Nat
    PROVE  \E f : LoopOf(f, mine, theirs, n)
<1> DEFINE Bad == {k \in Nat : ~ \E f : LoopOf(f, mine, theirs, k)}
<1>1. Bad \subseteq Nat
  OBVIOUS
<1>2. SUFFICES ASSUME Bad # {} PROVE FALSE
  OBVIOUS
<1>3. Min(Bad) \in Bad /\ \A k \in Bad : Min(Bad) =< k
  BY <1>1, <1>2, MinAttained, Zenon
<1>4. PICK k \in Nat : k \in Bad /\ \A j \in Bad : k =< j
  BY <1>1, <1>3
<1>5. ~ \E f : LoopOf(f, mine, theirs, k)
  BY <1>4
<1>6. CASE k = 0
  <2>1. PICK f : f = [i \in 0..0 |-> mine]
    OBVIOUS
  <2>2. f = [i \in 0..0 |-> IF i = 0 THEN mine ELSE Merged(f[i - 1], theirs, i)]
    BY <2>1
  <2>3. QED
    BY <1>5, <1>6, <2>2 DEF LoopOf
<1>7. CASE k # 0
  <2>1. k - 1 \in Nat /\ k - 1 \notin Bad
    BY <1>4, <1>7
  <2>2. PICK g : LoopOf(g, mine, theirs, k - 1)
    BY <2>1
  <2>3. PICK last : last = Merged(g[k - 1], theirs, k)
    OBVIOUS
  <2>4. PICK f : f = [i \in 0..k |-> IF i = k THEN last ELSE g[i]]
    OBVIOUS
  <2>5. g = [i \in 0..(k - 1) |-> IF i = 0 THEN mine ELSE Merged(g[i - 1], theirs, i)]
    BY <2>2 DEF LoopOf
  <2>6. ASSUME NEW i \in 0..k
        PROVE  f[i] = IF i = 0 THEN mine ELSE Merged(f[i - 1], theirs, i)
    <3>1. CASE i = 0
      BY <1>7, <2>4, <2>5, <3>1
    <3>2. CASE i = k
      <4>1. f[i - 1] = g[k - 1]
        BY <1>7, <2>4, <3>2
      <4>2. QED
        BY <1>7, <2>3, <2>4, <3>2, <4>1
    <3>3. CASE i # 0 /\ i # k
      <4>1. f[i] = g[i] /\ f[i - 1] = g[i - 1] /\ i \in 0..(k - 1)
        BY <2>4, <3>3
      <4>2. g[i] = Merged(g[i - 1], theirs, i)
        BY <2>5, <3>3, <4>1
      <4>3. QED
        BY <3>3, <4>1, <4>2
    <3>4. QED
      BY <3>1, <3>2, <3>3
  <2>7. f = [i \in 0..k |-> IF i = 0 THEN mine ELSE Merged(f[i - 1], theirs, i)]
    BY <2>4, <2>6
  <2>8. QED
    BY <1>5, <2>7 DEF LoopOf
<1>8. QED
  BY <1>6, <1>7

LEMMA MergeIsLoop ==
    ASSUME NEW mine, NEW theirs \in Seq(Connection)
    PROVE  \E f : /\ Merge(mine, theirs) = f[Len(theirs)] /\ f[0] = mine
                  /\ \A i \in 1..Len(theirs) : f[i] = Merged(f[i - 1], theirs, i)
<1> DEFINE f == CHOOSE f : f = [i \in 0..Len(theirs) |->
                                  IF i = 0 THEN mine ELSE Merged(f[i - 1], theirs, i)]
<1>1. Len(theirs) \in Nat
  OBVIOUS
<1>2. \E g : LoopOf(g, mine, theirs, Len(theirs))
  BY <1>1, LoopExists
<1>3. f = [i \in 0..Len(theirs) |-> IF i = 0 THEN mine ELSE Merged(f[i - 1], theirs, i)]
  BY <1>2, Zenon DEF LoopOf
<1>4. Merge(mine, theirs) = f[Len(theirs)]
  BY Zenon DEF Merge
<1> HIDE DEF f
<1>5. f[0] = mine /\ \A i \in 1..Len(theirs) : f[i] = Merged(f[i - 1], theirs, i)
  BY <1>1, <1>3
<1>6. QED
  BY <1>4, <1>5
-----------------------------------------------------------------------------
(* Merging: whatever the payload, the local list is kept. *)

\* A list that has grown out of another: what was there keeps its name, its
\* endpoint and its trust; what is new is locked.
GrownFrom(new, old) ==
    /\ new \in Seq(Connection) /\ Len(old) <= Len(new) /\ Unique(new)
    /\ \A i \in DOMAIN old : /\ new[i].name = old[i].name /\ new[i].endpoint = old[i].endpoint
                             /\ new[i].trust = old[i].trust
    /\ \A i \in DOMAIN new : i > Len(old) => new[i].trust = "locked"

LEMMA MergedGrows ==
    ASSUME NEW mine \in Seq(Connection), NEW list, GrownFrom(list, mine),
           NEW theirs \in Seq(Connection), NEW i \in 1..Len(theirs)
    PROVE  GrownFrom(Merged(list, theirs, i), mine)
<1>1. PICK c \in Connection : c = theirs[i]
  OBVIOUS
<1>2. list \in Seq(Connection) /\ Len(list) \in Nat /\ DOMAIN list = 1..Len(list)
      /\ Len(mine) \in Nat /\ DOMAIN mine = 1..Len(mine) /\ Len(mine) <= Len(list)
  BY DEF GrownFrom
<1>3. PICK new : new = Merged(list, theirs, i)
  OBVIOUS
<1>4. NamesIn(list) = {list[j].name : j \in DOMAIN list}
  BY DEF NamesIn, Range
<1>5. CASE c.name \in NamesIn(list)
  <2>1. new = [j \in DOMAIN list |-> IF list[j].name = c.name THEN [list[j] EXCEPT !.user = c.user]
                                                             ELSE list[j]]
    BY <1>1, <1>3, <1>5 DEF Merged
  <2>2. ASSUME NEW j \in 1..Len(list)
        PROVE  /\ new[j] \in Connection /\ new[j].name = list[j].name
               /\ new[j].endpoint = list[j].endpoint /\ new[j].trust = list[j].trust
    <3>1. PICK d \in Connection : d = list[j]
      BY <1>2
    <3>2. [d EXCEPT !.user = c.user] \in Connection
          /\ [d EXCEPT !.user = c.user].name = d.name
          /\ [d EXCEPT !.user = c.user].endpoint = d.endpoint
          /\ [d EXCEPT !.user = c.user].trust = d.trust
      BY DEF Connection
    <3>3. QED
      BY <1>2, <2>1, <3>1, <3>2
  <2>3. new \in Seq(Connection) /\ Len(new) = Len(list) /\ DOMAIN new = DOMAIN list
    <3>1. new \in [1..Len(list) -> Connection]
      BY <1>2, <2>1, <2>2
    <3>2. QED
      BY <1>2, <3>1
  <2>4. Unique(new)
    BY <1>2, <2>2, <2>3 DEF GrownFrom, Unique
  <2>5. \A j \in DOMAIN mine : new[j].name = mine[j].name /\ new[j].endpoint = mine[j].endpoint
                               /\ new[j].trust = mine[j].trust
    BY <1>2, <2>2 DEF GrownFrom
  <2>6. \A j \in DOMAIN new : j > Len(mine) => new[j].trust = "locked"
    BY <1>2, <2>2, <2>3 DEF GrownFrom
  <2>7. QED
    BY <1>2, <1>3, <2>3, <2>4, <2>5, <2>6 DEF GrownFrom
<1>6. CASE c.name \notin NamesIn(list) /\ new = Append(list, [c EXCEPT !.trust = "locked"])
  <2>1. PICK d : d = [c EXCEPT !.trust = "locked"]
    OBVIOUS
  <2>2. d \in Connection /\ d.name = c.name /\ d.trust = "locked"
    BY <2>1 DEF Connection
  <2>3. /\ new \in Seq(Connection) /\ Len(new) = Len(list) + 1 /\ DOMAIN new = 1..(Len(list) + 1)
        /\ new[Len(list) + 1] = d
        /\ \A j \in 1..Len(list) : new[j] = list[j]
    BY <1>2, <1>6, <2>1, <2>2
  <2>4. \A j \in 1..Len(list) : list[j].name # c.name
    BY <1>2, <1>4, <1>6
  <2>5. Unique(new)
    BY <1>2, <2>2, <2>3, <2>4 DEF GrownFrom, Unique
  <2>6. QED
    BY <1>2, <1>3, <2>2, <2>3, <2>5 DEF GrownFrom
<1>7. CASE new = list
  BY <1>3, <1>7
<1>8. QED
  BY <1>1, <1>3, <1>5, <1>6, <1>7 DEF Merged

LEMMA MergeGrows ==
    ASSUME NEW mine \in Seq(Connection), Unique(mine), NEW theirs \in Seq(Connection)
    PROVE  GrownFrom(Merge(mine, theirs), mine)
<1>1. PICK f : /\ Merge(mine, theirs) = f[Len(theirs)] /\ f[0] = mine
               /\ \A i \in 1..Len(theirs) : f[i] = Merged(f[i - 1], theirs, i)
  BY MergeIsLoop
<1> DEFINE Bad == {k \in 0..Len(theirs) : ~GrownFrom(f[k], mine)}
<1>2. Bad \subseteq Nat /\ Len(theirs) \in Nat
  OBVIOUS
<1>3. SUFFICES ASSUME Bad # {} PROVE FALSE
  BY <1>1, <1>2
<1>4. Min(Bad) \in Bad /\ \A k \in Bad : Min(Bad) =< k
  BY <1>2, <1>3, MinAttained, Zenon
<1>5. PICK k \in 0..Len(theirs) : k \in Bad /\ \A j \in Bad : k =< j
  BY <1>4
<1>6. k # 0
  <2>1. GrownFrom(mine, mine)
    <3>1. Len(mine) \in Nat /\ DOMAIN mine = 1..Len(mine)
      OBVIOUS
    <3>2. QED
      BY <3>1 DEF GrownFrom
  <2>2. QED
    BY <1>1, <1>5, <2>1
<1>7. k \in 1..Len(theirs) /\ k - 1 \in 0..Len(theirs) /\ k - 1 \notin Bad
  BY <1>2, <1>5, <1>6
<1>8. GrownFrom(f[k - 1], mine)
  BY <1>7
<1>9. GrownFrom(f[k], mine)
  BY <1>1, <1>7, <1>8, MergedGrows
<1>10. QED
  BY <1>5, <1>9

-----------------------------------------------------------------------------
(* Histories *)

LEMMA ForwardsIs ==
    ASSUME NEW a \in Seq(Commit), NEW b \in Seq(Commit)
    PROVE  FastForwards(a, b) <=> (Len(a) <= Len(b) /\ \A i \in 1..Len(a) : b[i] = a[i])
<1>1. Len(a) \in Nat /\ Len(b) \in Nat /\ a = [i \in 1..Len(a) |-> a[i]]
  OBVIOUS
<1>2. ASSUME Len(a) <= Len(b)
      PROVE  SubSeq(b, 1, Len(a)) = [i \in 1..Len(a) |-> b[i]]
  <2>1. PICK p : p = SubSeq(b, 1, Len(a))
    OBVIOUS
  <2>2. p \in Seq(Commit) /\ Len(p) = Len(a) /\ \A i \in 1..Len(a) : p[i] = b[i]
    BY <1>1, <1>2, <2>1
  <2>3. p = [i \in 1..Len(a) |-> b[i]]
    BY <2>2
  <2>4. QED
    BY <2>1, <2>3
<1>3. QED
  BY <1>1, <1>2 DEF FastForwards

LEMMA ForwardsOn ==
    ASSUME NEW a \in Seq(Commit), NEW b \in Seq(Commit), NEW c \in Seq(Commit),
           FastForwards(a, b), FastForwards(b, c)
    PROVE  FastForwards(a, c)
BY ForwardsIs

LEMMA ForwardsBoth ==
    ASSUME NEW a \in Seq(Commit), NEW b \in Seq(Commit), FastForwards(a, b), FastForwards(b, a)
    PROVE  a = b
<1>1. Len(a) = Len(b) /\ \A i \in 1..Len(a) : a[i] = b[i]
  BY ForwardsIs
<1>2. QED
  BY <1>1

LEMMA ForwardsItself ==
    ASSUME NEW a \in Seq(Commit)
    PROVE  FastForwards(a, a)
BY ForwardsIs

-----------------------------------------------------------------------------
(* The inductive invariant, machine by machine. *)

Clone == [cloned : BOOLEAN, upstream : BOOLEAN, history : Seq(Commit), file : Content \cup {None}]
Worker == [at : Stages, mine : Content \cup {None}, online : BOOLEAN,
           payload : Content \cup {None}, read : Nat, current : BOOLEAN, result : Results]
Marks == [seen : BOOLEAN, unseen : BOOLEAN, uncommitted : BOOLEAN]
Counters == [edits : Nat, faults : Nat, toggles : Nat]

\* What the user of a machine opened is what is open, in memory and on disk:
\* l and d are its settings there, g what was granted.
Authorised(l, d, g) ==
    \A list \in {l.connections, d.connections} :
        /\ Unique(list)
        /\ \A i \in DOMAIN list : list[i].trust = "open" => <<list[i].name, list[i].endpoint>> \in g

ContentsOf(history) == {history[i].content : i \in DOMAIN history}

\* The last commit of clone c is the one the worker t of machine m has made
\* on top of what it had read.
OwnCommit(m, c, t) == Len(c.history) = t.read + 1 /\ c.history[Len(c.history)].by = m

\* With clone c, worker t, stamp s and seed sd: nothing a tick compares with or
\* gives up is outside the history.
RecordedIn(c, t, s, sd) ==
    /\ c.file = NewestContent(c.history)
    /\ s \in ContentsOf(c.history) \cup {sd, None}
    /\ t.at = "stamp" => t.mine \in ContentsOf(c.history)
    /\ t.at = "done" /\ t.result = "applied" =>
          /\ t.payload \in ContentsOf(c.history)
          /\ t.current => t.mine \in ContentsOf(c.history) \cup {sd}

\* Machine m, with clone c, worker t, stamp s, link k, marks e and seed sd, when
\* the history of the repository is r
Sound(m, c, t, s, k, e, sd, r) ==
    /\ c \in Clone /\ t \in Worker /\ e \in Marks /\ k \in BOOLEAN
    /\ s \in Content \cup {None} /\ sd \in Content \cup {None}
    /\ (t.payload # None) <=> (t.result = "applied")
    /\ t.at # "done" => t.payload = None
    /\ k => c.cloned
    /\ ~c.cloned => c.file = None /\ c.history = <<>> /\ s = None /\ t.at \in {"idle", "clone"}
    /\ t.at = "clone" => ~c.cloned
    /\ t.at \notin {"idle", "clone"} => t.mine \in Content /\ (t.current => k)
    /\ t.at = "commit" => t.read = Len(c.history)
    /\ t.at \in {"push", "retry", "repush"} => t.mine \in ContentsOf(c.history)
    /\ t.at \in {"push", "retry"} => OwnCommit(m, c, t)
    /\ t.at = "repush" => OwnCommit(m, c, t) \/ FastForwards(c.history, r)
    /\ ~e.uncommitted => RecordedIn(c, t, s, sd)

Inductive ==
    /\ TypeOK
    /\ \A m \in Machines :
          /\ Authorised(local[m], disk[m], granted[m])
          /\ Sound(m, checkout[m], tick[m], stamp[m], linked[m], edited[m], seed[m], remote)

-----------------------------------------------------------------------------
(* A step moves one machine, and the repository forwards. *)

\* What a step does to the settings of machine m
SettingsStep(m) ==
    \E l \in Content, d \in Content, g \in SUBSET (Names \X Endpoints) :
        /\ local' = [local EXCEPT ![m] = l] /\ disk' = [disk EXCEPT ![m] = d]
        /\ granted' = [granted EXCEPT ![m] = g]
        /\ Authorised(l, d, g)

\* What it does to its clone, its worker and its records, and to the repository
WorkerStep(m) ==
    /\ remote' \in Seq(Commit) /\ FastForwards(remote, remote')
    /\ \E c, t, s, k, e, sd :
          /\ checkout' = [checkout EXCEPT ![m] = c] /\ tick' = [tick EXCEPT ![m] = t]
          /\ stamp' = [stamp EXCEPT ![m] = s] /\ linked' = [linked EXCEPT ![m] = k]
          /\ edited' = [edited EXCEPT ![m] = e] /\ seed' = [seed EXCEPT ![m] = sd]
          /\ Sound(m, c, t, s, k, e, sd, remote')

LEMMA SoundElsewhere ==
    ASSUME NEW m, NEW c, NEW t, NEW s, NEW k, NEW e, NEW sd,
           NEW r \in Seq(Commit), NEW q \in Seq(Commit), FastForwards(r, q),
           Sound(m, c, t, s, k, e, sd, r)
    PROVE  Sound(m, c, t, s, k, e, sd, q)
<1>1. c.history \in Seq(Commit)
  BY DEF Sound, Clone
<1>2. FastForwards(c.history, r) => FastForwards(c.history, q)
  BY <1>1, ForwardsOn
<1>3. QED
  BY <1>2 DEF Sound

LEMMA StepKeeps ==
    ASSUME Inductive, NEW m \in Machines, SettingsStep(m), WorkerStep(m), used' \in Counters
    PROVE  Inductive'
<1>1. PICK l \in Content, d \in Content, g \in SUBSET (Names \X Endpoints) :
            /\ local' = [local EXCEPT ![m] = l] /\ disk' = [disk EXCEPT ![m] = d]
            /\ granted' = [granted EXCEPT ![m] = g]
            /\ Authorised(l, d, g)
  BY DEF SettingsStep
<1>2. remote' \in Seq(Commit) /\ FastForwards(remote, remote')
  BY DEF WorkerStep
<1>3. PICK c, t, s, k, e, sd :
          /\ checkout' = [checkout EXCEPT ![m] = c] /\ tick' = [tick EXCEPT ![m] = t]
          /\ stamp' = [stamp EXCEPT ![m] = s] /\ linked' = [linked EXCEPT ![m] = k]
          /\ edited' = [edited EXCEPT ![m] = e] /\ seed' = [seed EXCEPT ![m] = sd]
          /\ Sound(m, c, t, s, k, e, sd, remote')
  BY DEF WorkerStep
<1>4. c \in Clone /\ t \in Worker /\ e \in Marks /\ k \in BOOLEAN
      /\ s \in Content \cup {None} /\ sd \in Content \cup {None}
      /\ ((t.payload # None) <=> (t.result = "applied"))
  BY <1>3 DEF Sound
<1>5. /\ remote \in Seq(Commit)
      /\ checkout \in [Machines -> Clone] /\ tick \in [Machines -> Worker]
      /\ stamp \in [Machines -> Content \cup {None}] /\ seed \in [Machines -> Content \cup {None}]
      /\ linked \in [Machines -> BOOLEAN] /\ edited \in [Machines -> Marks]
      /\ local \in [Machines -> Content] /\ disk \in [Machines -> Content]
      /\ granted \in [Machines -> SUBSET (Names \X Endpoints)]
      /\ \A n \in Machines : (tick[n].payload # None) <=> (tick[n].result = "applied")
  BY DEF Inductive, TypeOK, Clone, Worker, Marks
<1>6. /\ checkout' \in [Machines -> Clone] /\ tick' \in [Machines -> Worker]
      /\ stamp' \in [Machines -> Content \cup {None}] /\ seed' \in [Machines -> Content \cup {None}]
      /\ linked' \in [Machines -> BOOLEAN] /\ edited' \in [Machines -> Marks]
  BY <1>3, <1>4, <1>5
<1>7. /\ local' \in [Machines -> Content] /\ disk' \in [Machines -> Content]
      /\ granted' \in [Machines -> SUBSET (Names \X Endpoints)]
  BY <1>1, <1>5
<1>8. \A n \in Machines : (tick'[n].payload # None) <=> (tick'[n].result = "applied")
  BY <1>3, <1>4, <1>5
<1>9. TypeOK'
  BY <1>2, <1>6, <1>7, <1>8 DEF TypeOK, Clone, Worker, Marks, Counters
<1>10. ASSUME NEW n \in Machines PROVE Authorised(local[n], disk[n], granted[n])'
  <2>1. CASE n = m
    BY <1>1, <1>5, <2>1 DEF Authorised
  <2>2. CASE n # m
    <3>1. local'[n] = local[n] /\ disk'[n] = disk[n] /\ granted'[n] = granted[n]
      BY <1>1, <1>5, <2>2
    <3>2. Authorised(local[n], disk[n], granted[n])
      BY DEF Inductive
    <3>3. QED
      BY <3>1, <3>2 DEF Authorised
  <2>3. QED
    BY <2>1, <2>2
<1>11. ASSUME NEW n \in Machines
       PROVE  Sound(n, checkout'[n], tick'[n], stamp'[n], linked'[n], edited'[n], seed'[n], remote')
  <2>1. CASE n = m
    BY <1>3, <1>5, <2>1
  <2>2. CASE n # m
    <3>1. /\ checkout'[n] = checkout[n] /\ tick'[n] = tick[n] /\ stamp'[n] = stamp[n]
          /\ linked'[n] = linked[n] /\ edited'[n] = edited[n] /\ seed'[n] = seed[n]
      BY <1>3, <1>5, <2>2
    <3>2. Sound(n, checkout[n], tick[n], stamp[n], linked[n], edited[n], seed[n], remote)
      BY DEF Inductive
    <3>3. Sound(n, checkout[n], tick[n], stamp[n], linked[n], edited[n], seed[n], remote')
      BY <1>2, <1>5, <3>2, SoundElsewhere
    <3>4. QED
      BY <3>1, <3>3
  <2>3. QED
    BY <2>1, <2>2
<1>12. QED
  BY <1>9, <1>10, <1>11 DEF Inductive

\* What does not change is written as if it had been written over.
LEMMA Stays ==
    ASSUME Inductive, NEW m \in Machines
    PROVE  /\ remote \in Seq(Commit) /\ FastForwards(remote, remote) /\ used \in Counters
           /\ checkout = [checkout EXCEPT ![m] = checkout[m]] /\ tick = [tick EXCEPT ![m] = tick[m]]
           /\ stamp = [stamp EXCEPT ![m] = stamp[m]] /\ linked = [linked EXCEPT ![m] = linked[m]]
           /\ edited = [edited EXCEPT ![m] = edited[m]] /\ seed = [seed EXCEPT ![m] = seed[m]]
           /\ local = [local EXCEPT ![m] = local[m]] /\ disk = [disk EXCEPT ![m] = disk[m]]
           /\ granted = [granted EXCEPT ![m] = granted[m]]
           /\ Sound(m, checkout[m], tick[m], stamp[m], linked[m], edited[m], seed[m], remote)
           /\ Authorised(local[m], disk[m], granted[m])
           /\ local[m] \in Content /\ disk[m] \in Content /\ granted[m] \subseteq Names \X Endpoints
<1>1. /\ remote \in Seq(Commit) /\ used \in Counters
      /\ checkout \in [Machines -> Clone] /\ tick \in [Machines -> Worker]
      /\ stamp \in [Machines -> Content \cup {None}] /\ seed \in [Machines -> Content \cup {None}]
      /\ linked \in [Machines -> BOOLEAN] /\ edited \in [Machines -> Marks]
      /\ local \in [Machines -> Content] /\ disk \in [Machines -> Content]
      /\ granted \in [Machines -> SUBSET (Names \X Endpoints)]
  BY DEF Inductive, TypeOK, Clone, Worker, Marks, Counters
<1>2. FastForwards(remote, remote)
  BY <1>1, ForwardsItself
<1>3. Sound(m, checkout[m], tick[m], stamp[m], linked[m], edited[m], seed[m], remote)
      /\ Authorised(local[m], disk[m], granted[m])
  BY DEF Inductive
<1>4. /\ checkout = [checkout EXCEPT ![m] = checkout[m]] /\ tick = [tick EXCEPT ![m] = tick[m]]
      /\ stamp = [stamp EXCEPT ![m] = stamp[m]] /\ linked = [linked EXCEPT ![m] = linked[m]]
      /\ edited = [edited EXCEPT ![m] = edited[m]] /\ seed = [seed EXCEPT ![m] = seed[m]]
  BY <1>1
<1>5. /\ local = [local EXCEPT ![m] = local[m]] /\ disk = [disk EXCEPT ![m] = disk[m]]
      /\ granted = [granted EXCEPT ![m] = granted[m]]
      /\ local[m] \in Content /\ disk[m] \in Content /\ granted[m] \subseteq Names \X Endpoints
  BY <1>1
<1>6. QED
  BY <1>1, <1>2, <1>3, <1>4, <1>5

LEMMA SettingsStay ==
    ASSUME Inductive, NEW m \in Machines, UNCHANGED <<local, disk, granted>>
    PROVE  SettingsStep(m)
<1>1. /\ local = [local EXCEPT ![m] = local[m]] /\ disk = [disk EXCEPT ![m] = disk[m]]
      /\ granted = [granted EXCEPT ![m] = granted[m]]
      /\ Authorised(local[m], disk[m], granted[m])
      /\ local[m] \in Content /\ disk[m] \in Content /\ granted[m] \subseteq Names \X Endpoints
  BY Stays
<1>2. QED
  BY <1>1 DEF SettingsStep

\* A worker goes on, or ends, with its clone and what it has recorded.
LEMMA WorkerIs ==
    ASSUME Inductive, NEW m \in Machines, NEW c, NEW t, NEW s,
           checkout' = [checkout EXCEPT ![m] = c], tick' = [tick EXCEPT ![m] = t],
           stamp' = [stamp EXCEPT ![m] = s], UNCHANGED <<linked, edited, seed>>,
           remote' \in Seq(Commit), FastForwards(remote, remote'),
           Sound(m, c, t, s, linked[m], edited[m], seed[m], remote')
    PROVE  WorkerStep(m)
<1>1. /\ linked = [linked EXCEPT ![m] = linked[m]]
      /\ edited = [edited EXCEPT ![m] = edited[m]] /\ seed = [seed EXCEPT ![m] = seed[m]]
  BY Stays
<1>2. PICK k, e, sd : k = linked[m] /\ e = edited[m] /\ sd = seed[m]
  OBVIOUS
<1>3. linked' = [linked EXCEPT ![m] = k] /\ edited' = [edited EXCEPT ![m] = e]
      /\ seed' = [seed EXCEPT ![m] = sd]
  BY <1>1, <1>2
<1>4. Sound(m, c, t, s, k, e, sd, remote')
  BY <1>2
<1>5. QED
  BY <1>3, <1>4 DEF WorkerStep

\* Only the marks of a machine and its worker change.
LEMMA MarksAre ==
    ASSUME Inductive, NEW m \in Machines, NEW t, NEW e,
           tick' = [tick EXCEPT ![m] = t], edited' = [edited EXCEPT ![m] = e],
           UNCHANGED <<remote, checkout, stamp, linked, seed>>,
           Sound(m, checkout[m], t, stamp[m], linked[m], e, seed[m], remote)
    PROVE  WorkerStep(m)
<1>1. /\ remote \in Seq(Commit) /\ FastForwards(remote, remote)
      /\ checkout = [checkout EXCEPT ![m] = checkout[m]]
      /\ stamp = [stamp EXCEPT ![m] = stamp[m]]
      /\ linked = [linked EXCEPT ![m] = linked[m]] /\ seed = [seed EXCEPT ![m] = seed[m]]
  BY Stays
<1>2. PICK c, s, k, sd : c = checkout[m] /\ s = stamp[m] /\ k = linked[m] /\ sd = seed[m]
  OBVIOUS
<1>3. checkout' = [checkout EXCEPT ![m] = c] /\ stamp' = [stamp EXCEPT ![m] = s]
      /\ linked' = [linked EXCEPT ![m] = k] /\ seed' = [seed EXCEPT ![m] = sd]
  BY <1>1, <1>2
<1>4. Sound(m, c, t, s, k, e, sd, remote')
  BY <1>2
<1>5. QED
  BY <1>1, <1>3, <1>4 DEF WorkerStep

LEMMA RecordsAre ==
    /\ Idle \in Worker /\ Idle.at = "idle" /\ Idle.payload = None /\ Idle.result = "none"
    /\ Idle.current = TRUE
    /\ \A mine \in Content :
          /\ Started(mine) \in Worker /\ Started(mine).at = "pull" /\ Started(mine).mine = mine
          /\ Started(mine).payload = None /\ Started(mine).result = "none"
<1>1. Idle \in Worker /\ Idle.at = "idle" /\ Idle.payload = None /\ Idle.result = "none"
      /\ Idle.current = TRUE
  BY DEF Idle, Worker, Stages, Results
<1>2. ASSUME NEW mine \in Content
      PROVE  /\ Started(mine) \in Worker /\ Started(mine).at = "pull" /\ Started(mine).mine = mine
             /\ Started(mine).payload = None /\ Started(mine).result = "none"
  BY DEF Started, Idle, Worker, Stages, Results
<1>3. QED
  BY <1>1, <1>2

LEMMA IdleIsSound ==
    ASSUME NEW m, NEW c, NEW t, NEW s, NEW k, NEW e, NEW sd, NEW r,
           Sound(m, c, t, s, k, e, sd, r)
    PROVE  Sound(m, c, Idle, s, k, e, sd, r)
BY RecordsAre DEF Sound, RecordedIn

\* A tick starts on a machine that is linked, with any settings.
LEMMA StartedIsSound ==
    ASSUME NEW m, NEW c, NEW t, NEW s, NEW k, NEW e, NEW sd, NEW r, NEW mine \in Content,
           Sound(m, c, t, s, k, e, sd, r), k
    PROVE  Sound(m, c, Started(mine), s, k, e, sd, r)
<1>1. c.cloned
  BY DEF Sound
<1>2. Started(mine).at \notin {"idle", "clone", "commit", "push", "retry", "repush", "stamp", "done"}
  BY RecordsAre
<1>3. QED
  BY <1>1, <1>2, RecordsAre DEF Sound, RecordedIn

\* Marks other than that a commit failed do not matter to a worker.
LEMMA SameMarks ==
    ASSUME NEW m, NEW c, NEW t, NEW s, NEW k, NEW e, NEW sd, NEW r, NEW e2 \in Marks,
           Sound(m, c, t, s, k, e, sd, r), e2.uncommitted = e.uncommitted
    PROVE  Sound(m, c, t, s, k, e2, sd, r)
BY DEF Sound

-----------------------------------------------------------------------------
(* The user edits. *)

LEMMA TickBegins ==
    ASSUME Inductive, NEW m \in Machines, NEW mine \in Content, NEW touched \in BOOLEAN,
           BeginTick(m, mine, linked[m], touched),
           UNCHANGED <<remote, checkout, stamp, linked, seed>>
    PROVE  WorkerStep(m)
<1>1. /\ Sound(m, checkout[m], tick[m], stamp[m], linked[m], edited[m], seed[m], remote)
      /\ tick = [tick EXCEPT ![m] = tick[m]]
  BY Stays
<1>2. PICK e : e = edited[m]
  OBVIOUS
<1>3. e \in Marks
  BY <1>1, <1>2 DEF Sound
<1>7. edited \in [Machines -> Marks]
  BY DEF Inductive, TypeOK, Marks
<1>8. CASE linked[m] /\ ~Busy(m) /\ Room(m)
  <2>1. tick' = [tick EXCEPT ![m] = Started(mine)]
    BY <1>8 DEF BeginTick
  <2>2. PICK seen : seen \in BOOLEAN /\ edited' = [edited EXCEPT ![m].seen = seen, ![m].unseen = FALSE]
    <3>1. edited' = [edited EXCEPT ![m].seen = e.seen \/ e.unseen \/ touched, ![m].unseen = FALSE]
      BY <1>2, <1>7, <1>8 DEF BeginTick
    <3>2. PICK seen : seen = (e.seen \/ e.unseen \/ touched)
      OBVIOUS
    <3>3. seen \in BOOLEAN
      BY <3>2, Zenon
    <3>4. QED
      BY <3>1, <3>2, <3>3
  <2>3. PICK n : n = [e EXCEPT !.seen = seen, !.unseen = FALSE]
    OBVIOUS
  <2>4. n \in Marks /\ n.uncommitted = e.uncommitted
    BY <1>3, <2>2, <2>3 DEF Marks
  <2>5. edited' = [edited EXCEPT ![m] = n]
    BY <1>2, <1>7, <2>2, <2>3
  <2>6. Sound(m, checkout[m], tick[m], stamp[m], linked[m], n, seed[m], remote)
    BY <1>1, <1>2, <2>4, SameMarks
  <2>7. Sound(m, checkout[m], Started(mine), stamp[m], linked[m], n, seed[m], remote)
    BY <1>8, <2>6, StartedIsSound
  <2>8. QED
    BY <2>1, <2>5, <2>7, MarksAre
<1>9. CASE ~(linked[m] /\ ~Busy(m) /\ Room(m))
  <2>1. tick' = [tick EXCEPT ![m] = tick[m]]
    BY <1>1, <1>9 DEF BeginTick
  <2>2. PICK unseen : unseen \in BOOLEAN /\ edited' = [edited EXCEPT ![m].unseen = unseen]
    <3>1. edited' = [edited EXCEPT ![m].unseen = e.unseen \/ touched]
      BY <1>2, <1>7, <1>9 DEF BeginTick
    <3>2. PICK unseen : unseen = (e.unseen \/ touched)
      OBVIOUS
    <3>3. unseen \in BOOLEAN
      BY <3>2, Zenon
    <3>4. QED
      BY <3>1, <3>2, <3>3
  <2>3. PICK n : n = [e EXCEPT !.unseen = unseen]
    OBVIOUS
  <2>4. n \in Marks /\ n.uncommitted = e.uncommitted
    BY <1>3, <2>2, <2>3 DEF Marks
  <2>5. edited' = [edited EXCEPT ![m] = n]
    BY <1>2, <1>7, <2>2, <2>3
  <2>6. Sound(m, checkout[m], tick[m], stamp[m], linked[m], n, seed[m], remote)
    BY <1>1, <1>2, <2>4, SameMarks
  <2>7. QED
    BY <2>1, <2>5, <2>6, MarksAre
<1>10. QED
  BY <1>8, <1>9

LEMMA EditKeeps ==
    ASSUME Inductive, NEW m \in Machines, NEW new \in Content, NEW ticks \in BOOLEAN,
           Edit(m, new, ticks)
    PROVE  WorkerStep(m) /\ used' \in Counters /\ used'.edits > used.edits
<1>1. used' = [used EXCEPT !.edits = @ + 1]
  BY DEF Edit, Spend
<1>2. used \in Counters
  BY Stays
<1>3. used' \in Counters /\ used'.edits > used.edits
  BY <1>1, <1>2 DEF Counters
<1>4. UNCHANGED <<remote, checkout, stamp, linked, seed>>
  BY DEF Edit
<1>5. CASE ticks
  <2>1. BeginTick(m, new, linked[m], TRUE)
    BY <1>5 DEF Edit
  <2>2. QED
    BY <1>3, <1>4, <2>1, TickBegins
<1>6. CASE ~ticks
  <2>1. edited' = [edited EXCEPT ![m].unseen = TRUE] /\ tick' = tick
    BY <1>6 DEF Edit
  <2>2. /\ Sound(m, checkout[m], tick[m], stamp[m], linked[m], edited[m], seed[m], remote)
        /\ tick = [tick EXCEPT ![m] = tick[m]]
    BY Stays
  <2>3. edited \in [Machines -> Marks]
    BY DEF Inductive, TypeOK, Marks
  <2>4. PICK n : n = [edited[m] EXCEPT !.unseen = TRUE]
    OBVIOUS
  <2>5. n \in Marks /\ n.uncommitted = edited[m].uncommitted
    <3>1. edited[m] \in Marks
      BY <2>3
    <3>2. QED
      BY <2>4, <3>1 DEF Marks
  <2>6. edited' = [edited EXCEPT ![m] = n]
    BY <2>1, <2>3, <2>4
  <2>7. Sound(m, checkout[m], tick[m], stamp[m], linked[m], n, seed[m], remote)
    BY <2>2, <2>5, SameMarks
  <2>8. WorkerStep(m)
    BY <1>4, <2>1, <2>2, <2>6, <2>7, MarksAre
  <2>9. QED
    BY <1>3, <2>8
<1>7. QED
  BY <1>5, <1>6

LEMMA TriggerKeeps ==
    ASSUME Inductive, NEW m \in Machines, Trigger(m)
    PROVE  Inductive'
<1>1. local[m] \in Content
  BY Stays
<1>2. WorkerStep(m)
  BY <1>1, TickBegins DEF Trigger
<1>3. SettingsStep(m)
  BY SettingsStay DEF Trigger
<1>4. used' \in Counters
  BY Stays DEF Trigger
<1>5. QED
  BY <1>2, <1>3, <1>4, StepKeeps

LEMMA EditPreferencesKeeps ==
    ASSUME Inductive, NEW m \in Machines, EditPreferences(m)
    PROVE  Inductive' /\ used'.edits > used.edits
<1>1. /\ local[m] \in Content /\ disk[m] \in Content /\ granted[m] \subseteq Names \X Endpoints
      /\ granted = [granted EXCEPT ![m] = granted[m]]
      /\ Authorised(local[m], disk[m], granted[m])
  BY Stays
<1>2. local \in [Machines -> Content] /\ disk \in [Machines -> Content]
  BY DEF Inductive, TypeOK
<1>3. PICK theme \in Themes, agents \in AgentLists \cup {None}, ticks \in BOOLEAN :
          Edit(m, [local[m] EXCEPT !.theme = theme, !.agents = agents], ticks)
  BY DEF EditPreferences
<1>4. PICK l : l = [local[m] EXCEPT !.theme = theme, !.agents = agents]
  OBVIOUS
<1>5. PICK d : d = [disk[m] EXCEPT !.theme = theme, !.agents = agents]
  OBVIOUS
<1>6. /\ l \in Content /\ l.connections = local[m].connections /\ l.theme = theme /\ l.agents = agents
      /\ d \in Content /\ d.connections = disk[m].connections
  BY <1>1, <1>4, <1>5 DEF Content
<1>7. WorkerStep(m) /\ used' \in Counters /\ used'.edits > used.edits
  BY <1>3, <1>4, <1>6, EditKeeps
<1>8. local' = [local EXCEPT ![m] = l]
  BY <1>3, <1>4 DEF Edit
<1>9. local'[m].theme = theme /\ local'[m].agents = agents
  BY <1>2, <1>6, <1>8
<1>10. disk' = [disk EXCEPT ![m].theme = theme, ![m].agents = agents]
  BY <1>9 DEF EditPreferences
<1>11. disk' = [disk EXCEPT ![m] = d]
  BY <1>2, <1>5, <1>10
<1>12. Authorised(l, d, granted[m])
  BY <1>1, <1>6 DEF Authorised
<1>13. granted' = [granted EXCEPT ![m] = granted[m]]
  BY <1>1 DEF EditPreferences
<1>14. SettingsStep(m)
  <2>1. PICK g : g = granted[m]
    OBVIOUS
  <2>2. granted' = [granted EXCEPT ![m] = g] /\ Authorised(l, d, g) /\ g \in SUBSET (Names \X Endpoints)
    BY <1>1, <1>12, <1>13, <2>1
  <2>3. QED
    BY <1>6, <1>8, <1>11, <2>2 DEF SettingsStep
<1>15. QED
  BY <1>7, <1>14, StepKeeps

LEMMA EditConnectionsKeeps ==
    ASSUME Inductive, NEW m \in Machines, NEW list \in Seq(Connection), EditConnections(m, list),
           NEW g \in SUBSET (Names \X Endpoints), granted' = [granted EXCEPT ![m] = g],
           Unique(list),
           \A i \in DOMAIN list : list[i].trust = "open" => <<list[i].name, list[i].endpoint>> \in g
    PROVE  Inductive' /\ used'.edits > used.edits
<1>1. local \in [Machines -> Content] /\ disk \in [Machines -> Content]
  BY DEF Inductive, TypeOK
<1>2. PICK l : l = [local[m] EXCEPT !.connections = list]
  OBVIOUS
<1>3. PICK d : d = [disk[m] EXCEPT !.connections = list]
  OBVIOUS
<1>4. l \in Content /\ d \in Content /\ l.connections = list /\ d.connections = list
  BY <1>1, <1>2, <1>3 DEF Content
<1>5. local' = [local EXCEPT ![m] = l]
  BY <1>2 DEF EditConnections, Edit
<1>6. disk' = [disk EXCEPT ![m] = d]
  BY <1>1, <1>3 DEF EditConnections
<1>7. Authorised(l, d, g)
  BY <1>4 DEF Authorised
<1>8. SettingsStep(m)
  BY <1>4, <1>5, <1>6, <1>7 DEF SettingsStep
<1>9. WorkerStep(m) /\ used' \in Counters /\ used'.edits > used.edits
  BY <1>2, <1>4, EditKeeps DEF EditConnections
<1>10. QED
  BY <1>8, <1>9, StepKeeps

\* What is granted once connection c has been saved in the place of one named dropped
Granted(g, dropped, c) ==
    {x \in g : x[1] \notin {dropped, c.name}}
    \cup (IF c.trust = "open" THEN {<<c.name, c.endpoint>>} ELSE {})

LEMMA GrantedIs ==
    ASSUME NEW g, g \subseteq Names \X Endpoints, NEW dropped, NEW c \in Connection
    PROVE  /\ Granted(g, dropped, c) \subseteq Names \X Endpoints
           /\ c.trust = "open" => <<c.name, c.endpoint>> \in Granted(g, dropped, c)
           /\ \A n \in Names, e \in Endpoints :
                 <<n, e>> \in g /\ n # dropped /\ n # c.name => <<n, e>> \in Granted(g, dropped, c)
BY DEF Granted, Connection

LEMMA SaveNewKeeps ==
    ASSUME Inductive, NEW m \in Machines, SaveNewConnection(m)
    PROVE  Inductive' /\ used'.edits > used.edits
<1>1. PICK c \in Connection :
        /\ c.name \notin NamesIn(local[m].connections)
        /\ EditConnections(m, Append(local[m].connections, c))
        /\ Granting(m, c.name, c)
  BY DEF SaveNewConnection
<1>2. PICK old : old = local[m].connections
  OBVIOUS
<1>3. local[m] \in Content /\ granted[m] \subseteq Names \X Endpoints /\ Authorised(local[m], disk[m], granted[m])
  BY Stays
<1>4. old \in Seq(Connection) /\ DOMAIN old = 1..Len(old) /\ Len(old) \in Nat
  BY <1>2, <1>3 DEF Content
<1>5. PICK list : list = Append(old, c)
  OBVIOUS
<1>6. /\ list \in Seq(Connection) /\ DOMAIN list = 1..(Len(old) + 1) /\ list[Len(old) + 1] = c
      /\ \A i \in 1..Len(old) : list[i] = old[i] /\ old[i] \in Connection
  BY <1>4, <1>5
<1>7. \A i \in 1..Len(old) : old[i].name # c.name
  BY <1>1, <1>2, <1>4 DEF NamesIn, Range
<1>8. Unique(old) /\ \A i \in 1..Len(old) : old[i].trust = "open" => <<old[i].name, old[i].endpoint>> \in granted[m]
  BY <1>2, <1>3, <1>4 DEF Authorised
<1>9. Unique(list)
  BY <1>4, <1>6, <1>7, <1>8 DEF Unique
<1>10. PICK g : g = Granted(granted[m], c.name, c)
  OBVIOUS
<1>11. /\ g \in SUBSET (Names \X Endpoints)
       /\ c.trust = "open" => <<c.name, c.endpoint>> \in g
       /\ \A n \in Names, e \in Endpoints : <<n, e>> \in granted[m] /\ n # c.name => <<n, e>> \in g
  BY <1>3, <1>10, GrantedIs
<1>12. granted' = [granted EXCEPT ![m] = g]
  <2>1. granted \in [Machines -> SUBSET (Names \X Endpoints)]
    BY DEF Inductive, TypeOK
  <2>2. QED
    BY <1>1, <1>10, <2>1 DEF Granting, Granted
<1>13. ASSUME NEW i \in DOMAIN list, list[i].trust = "open"
       PROVE  <<list[i].name, list[i].endpoint>> \in g
  <2>1. CASE i = Len(old) + 1
    BY <1>6, <1>11, <1>13, <2>1
  <2>2. CASE i \in 1..Len(old)
    <3>1. list[i] = old[i] /\ old[i].name \in Names /\ old[i].endpoint \in Endpoints
      BY <1>6, <2>2 DEF Connection
    <3>2. QED
      BY <1>7, <1>8, <1>11, <1>13, <2>2, <3>1
  <2>3. QED
    BY <1>4, <1>6, <2>1, <2>2
<1>14. EditConnections(m, list)
  BY <1>1, <1>2, <1>5
<1>15. QED
  BY <1>6, <1>9, <1>11, <1>12, <1>13, <1>14, EditConnectionsKeeps

LEMMA SaveKeeps ==
    ASSUME Inductive, NEW m \in Machines, SaveConnection(m)
    PROVE  Inductive' /\ used'.edits > used.edits
<1>1. PICK at \in DOMAIN local[m].connections, c \in Connection :
        /\ c.name \notin NamesIn(local[m].connections) \ {local[m].connections[at].name}
        /\ EditConnections(m, [local[m].connections EXCEPT ![at] = c])
        /\ Granting(m, local[m].connections[at].name, c)
  BY DEF SaveConnection
<1>2. PICK old : old = local[m].connections
  OBVIOUS
<1>3. local[m] \in Content /\ granted[m] \subseteq Names \X Endpoints /\ Authorised(local[m], disk[m], granted[m])
  BY Stays
<1>4. old \in Seq(Connection) /\ DOMAIN old = 1..Len(old) /\ Len(old) \in Nat /\ at \in 1..Len(old)
  BY <1>1, <1>2, <1>3 DEF Content
<1>5. PICK list : list = [old EXCEPT ![at] = c]
  OBVIOUS
<1>6. /\ list \in Seq(Connection) /\ DOMAIN list = 1..Len(old) /\ list[at] = c
      /\ \A i \in 1..Len(old) : i # at => list[i] = old[i]
      /\ \A i \in 1..Len(old) : old[i] \in Connection
  BY <1>4, <1>5
<1>7. Unique(old) /\ \A i \in 1..Len(old) : old[i].trust = "open" => <<old[i].name, old[i].endpoint>> \in granted[m]
  BY <1>2, <1>3, <1>4 DEF Authorised
<1>8. \A i \in 1..Len(old) : i # at => old[i].name # old[at].name
  BY <1>4, <1>7 DEF Unique
<1>9. \A i \in 1..Len(old) : i # at => old[i].name # c.name
  BY <1>1, <1>2, <1>4, <1>8 DEF NamesIn, Range
<1>10. Unique(list)
  BY <1>6, <1>7, <1>9 DEF Unique
<1>11. PICK g : g = Granted(granted[m], old[at].name, c)
  OBVIOUS
<1>12. /\ g \in SUBSET (Names \X Endpoints)
       /\ c.trust = "open" => <<c.name, c.endpoint>> \in g
       /\ \A n \in Names, e \in Endpoints :
             <<n, e>> \in granted[m] /\ n # old[at].name /\ n # c.name => <<n, e>> \in g
  BY <1>3, <1>11, GrantedIs
<1>13. granted' = [granted EXCEPT ![m] = g]
  <2>1. granted \in [Machines -> SUBSET (Names \X Endpoints)]
    BY DEF Inductive, TypeOK
  <2>2. QED
    BY <1>1, <1>2, <1>11, <2>1 DEF Granting, Granted
<1>14. ASSUME NEW i \in DOMAIN list, list[i].trust = "open"
       PROVE  <<list[i].name, list[i].endpoint>> \in g
  <2>1. CASE i = at
    BY <1>6, <1>12, <1>14, <2>1
  <2>2. CASE i # at
    <3>1. list[i] = old[i] /\ old[i].name \in Names /\ old[i].endpoint \in Endpoints
      BY <1>6, <2>2 DEF Connection
    <3>2. QED
      BY <1>6, <1>7, <1>8, <1>9, <1>12, <1>14, <2>2, <3>1
  <2>3. QED
    BY <2>1, <2>2
<1>15. EditConnections(m, list)
  BY <1>1, <1>2, <1>5
<1>16. QED
  BY <1>6, <1>10, <1>12, <1>13, <1>14, <1>15, EditConnectionsKeeps

LEMMA DeleteKeeps ==
    ASSUME Inductive, NEW m \in Machines, DeleteConnection(m)
    PROVE  Inductive' /\ used'.edits > used.edits
<1>1. PICK at \in DOMAIN local[m].connections :
        /\ EditConnections(m, SubSeq(local[m].connections, 1, at - 1)
                              \o SubSeq(local[m].connections, at + 1, Len(local[m].connections)))
        /\ granted' = [granted EXCEPT ![m] = {g \in @ : g[1] # local[m].connections[at].name}]
  BY DEF DeleteConnection
<1>2. PICK old : old = local[m].connections
  OBVIOUS
<1>3. local[m] \in Content /\ granted[m] \subseteq Names \X Endpoints /\ Authorised(local[m], disk[m], granted[m])
  BY Stays
<1>4. old \in Seq(Connection) /\ DOMAIN old = 1..Len(old) /\ Len(old) \in Nat /\ at \in 1..Len(old)
  BY <1>1, <1>2, <1>3 DEF Content
<1>5. PICK list : list = SubSeq(old, 1, at - 1) \o SubSeq(old, at + 1, Len(old))
  OBVIOUS
<1>6. PICK head, rest : head = SubSeq(old, 1, at - 1) /\ rest = SubSeq(old, at + 1, Len(old))
  OBVIOUS
<1>7. /\ head \in Seq(Connection) /\ Len(head) = at - 1 /\ \A i \in 1..(at - 1) : head[i] = old[i]
      /\ rest \in Seq(Connection) /\ Len(rest) = Len(old) - at
      /\ \A i \in 1..(Len(old) - at) : rest[i] = old[at + i]
  <2>1. SubSeq(old, 1, at - 1) \in Seq(Connection) /\ Len(SubSeq(old, 1, at - 1)) = at - 1
        /\ \A i \in 1..(at - 1) : SubSeq(old, 1, at - 1)[i] = old[i]
    BY <1>4
  <2>2. /\ SubSeq(old, at + 1, Len(old)) \in Seq(Connection)
        /\ Len(SubSeq(old, at + 1, Len(old))) = Len(old) - at
        /\ \A i \in 1..(Len(old) - at) : SubSeq(old, at + 1, Len(old))[i] = old[at + i]
    BY <1>4
  <2>3. QED
    BY <1>6, <2>1, <2>2
<1>8. /\ list \in Seq(Connection) /\ DOMAIN list = 1..(Len(old) - 1)
      /\ \A i \in 1..(Len(old) - 1) : list[i] = IF i < at THEN old[i] ELSE old[i + 1]
  <2>1. list = head \o rest
    BY <1>5, <1>6
  <2>2. Len(head) \in Nat /\ Len(rest) \in Nat /\ at \in Nat /\ Len(head) + Len(rest) = Len(old) - 1
    BY <1>4, <1>7
  <2>3. /\ list \in Seq(Connection) /\ Len(list) = Len(head) + Len(rest)
        /\ \A i \in 1..(Len(head) + Len(rest)) :
              list[i] = IF i <= Len(head) THEN head[i] ELSE rest[i - Len(head)]
    BY <1>7, <2>1, ConcatProperties
  <2>4. DOMAIN list = 1..(Len(old) - 1)
    BY <2>2, <2>3
  <2>5. ASSUME NEW i \in 1..(Len(old) - 1) PROVE list[i] = IF i < at THEN old[i] ELSE old[i + 1]
    <3>1. list[i] = IF i <= Len(head) THEN head[i] ELSE rest[i - Len(head)]
      BY <2>2, <2>3
    <3>2. CASE i < at
      BY <1>4, <1>7, <3>1, <3>2
    <3>3. CASE ~(i < at)
      <4>1. i - Len(head) \in 1..(Len(old) - at) /\ at + (i - Len(head)) = i + 1 /\ ~(i <= Len(head))
        BY <1>4, <1>7, <3>3
      <4>2. QED
        BY <1>7, <3>1, <3>3, <4>1
    <3>4. QED
      BY <3>2, <3>3
  <2>6. QED
    BY <2>3, <2>4, <2>5
<1>9. \A i \in 1..Len(old) : old[i] \in Connection
  BY <1>4
<1>10. Unique(old) /\ \A i \in 1..Len(old) : old[i].trust = "open" => <<old[i].name, old[i].endpoint>> \in granted[m]
  BY <1>2, <1>3, <1>4 DEF Authorised
<1>11. \A i \in 1..Len(old) : i # at => old[i].name # old[at].name
  BY <1>4, <1>10 DEF Unique
<1>12. Unique(list)
  <2>1. \A i, j \in 1..Len(old) : old[i].name = old[j].name => i = j
    BY <1>4, <1>10 DEF Unique
  <2>2. SUFFICES ASSUME NEW i \in 1..(Len(old) - 1), NEW j \in 1..(Len(old) - 1), list[i].name = list[j].name
                 PROVE  i = j
    BY <1>8 DEF Unique
  <2>3. PICK p \in 1..Len(old) : list[i] = old[p] /\ p = IF i < at THEN i ELSE i + 1
    BY <1>4, <1>8
  <2>4. PICK q \in 1..Len(old) : list[j] = old[q] /\ q = IF j < at THEN j ELSE j + 1
    BY <1>4, <1>8
  <2>5. p = q
    BY <2>1, <2>2, <2>3, <2>4
  <2>6. QED
    BY <1>4, <2>3, <2>4, <2>5
<1>13. PICK g : g = {x \in granted[m] : x[1] # old[at].name}
  OBVIOUS
<1>14. g \in SUBSET (Names \X Endpoints)
  BY <1>3, <1>13
<1>15. granted' = [granted EXCEPT ![m] = g]
  <2>1. granted \in [Machines -> SUBSET (Names \X Endpoints)]
    BY DEF Inductive, TypeOK
  <2>2. QED
    BY <1>1, <1>2, <1>13, <2>1
<1>16. ASSUME NEW i \in DOMAIN list, list[i].trust = "open"
       PROVE  <<list[i].name, list[i].endpoint>> \in g
  <2>1. PICK p \in 1..Len(old) : list[i] = old[p] /\ p # at
    BY <1>4, <1>8
  <2>2. <<old[p].name, old[p].endpoint>> \in granted[m] /\ old[p].name # old[at].name
    BY <1>10, <1>11, <1>16, <2>1
  <2>3. QED
    BY <1>13, <2>1, <2>2
<1>17. EditConnections(m, list)
  BY <1>1, <1>2, <1>5
<1>18. QED
  BY <1>8, <1>12, <1>14, <1>15, <1>16, <1>17, EditConnectionsKeeps

-----------------------------------------------------------------------------
(* Linking and unlinking. *)

LEMMA NewestIs ==
    ASSUME NEW h \in Seq(Commit)
    PROVE  /\ NewestContent(h) \in ContentsOf(h) \cup {None} /\ ContentsOf(h) \subseteq Content
           /\ NewestContent(h) # None => NewestContent(h) \in ContentsOf(h)
<1>1. Len(h) \in Nat /\ DOMAIN h = 1..Len(h) /\ \A i \in 1..Len(h) : h[i] \in Commit
  OBVIOUS
<1>2. h # <<>> => Len(h) \in 1..Len(h)
  OBVIOUS
<1>3. ContentsOf(h) \subseteq Content
  BY <1>1 DEF ContentsOf, Commit
<1>4. NewestContent(h) \in ContentsOf(h) \cup {None}
  BY <1>1, <1>2 DEF NewestContent, ContentsOf
<1>5. QED
  BY <1>3, <1>4

LEMMA SpendKeeps ==
    ASSUME Inductive, NEW what \in {"edits", "faults", "toggles"}, Spend(what)
    PROVE  used' \in Counters /\ used'[what] > used[what]
<1>1. used \in Counters
  BY DEF Inductive, TypeOK, Counters
<1>2. used' = [used EXCEPT ![what] = used[what] + 1]
  BY DEF Spend
<1>3. CASE what = "edits"
  BY <1>1, <1>2, <1>3 DEF Counters
<1>4. CASE what = "faults"
  BY <1>1, <1>2, <1>4 DEF Counters
<1>5. CASE what = "toggles"
  BY <1>1, <1>2, <1>5 DEF Counters
<1>6. QED
  BY <1>3, <1>4, <1>5

LEMMA EnableFirstKeeps ==
    ASSUME Inductive, NEW m \in Machines, EnableFirst(m)
    PROVE  Inductive'
<1>1. PICK t : t = [Idle EXCEPT !.at = "clone"]
  OBVIOUS
<1>2. t \in Worker /\ t.at = "clone" /\ t.payload = None /\ t.result = "none"
  BY <1>1 DEF Idle, Worker, Stages, Results
<1>3. /\ Sound(m, checkout[m], tick[m], stamp[m], linked[m], edited[m], seed[m], remote)
      /\ stamp = [stamp EXCEPT ![m] = stamp[m]] /\ remote \in Seq(Commit)
      /\ checkout = [checkout EXCEPT ![m] = checkout[m]] /\ FastForwards(remote, remote)
      /\ edited = [edited EXCEPT ![m] = edited[m]]
  BY Stays
<1>4. ~checkout[m].cloned /\ tick' = [tick EXCEPT ![m] = t]
      /\ UNCHANGED <<remote, checkout, local, disk, stamp, linked, edited, granted, seed>>
  BY <1>1 DEF EnableFirst
<1>5. Sound(m, checkout[m], t, stamp[m], linked[m], edited[m], seed[m], remote)
  BY <1>2, <1>3, <1>4 DEF Sound, RecordedIn
<1>6. WorkerStep(m)
  BY <1>3, <1>4, <1>5, MarksAre
<1>7. SettingsStep(m)
  BY <1>4, SettingsStay
<1>8. used' \in Counters
  BY SpendKeeps DEF EnableFirst
<1>9. QED
  BY <1>6, <1>7, <1>8, StepKeeps

LEMMA CloneFailsKeeps ==
    ASSUME Inductive, NEW m \in Machines, CloneFails(m)
    PROVE  Inductive'
<1>1. /\ Sound(m, checkout[m], tick[m], stamp[m], linked[m], edited[m], seed[m], remote)
      /\ edited = [edited EXCEPT ![m] = edited[m]]
  BY Stays
<1>2. tick' = [tick EXCEPT ![m] = Idle]
      /\ UNCHANGED <<remote, checkout, local, disk, stamp, linked, edited, granted, seed>>
  BY DEF CloneFails
<1>3. Sound(m, checkout[m], Idle, stamp[m], linked[m], edited[m], seed[m], remote)
  BY <1>1, IdleIsSound
<1>4. WorkerStep(m)
  BY <1>1, <1>2, <1>3, MarksAre
<1>5. SettingsStep(m)
  BY <1>2, SettingsStay
<1>6. used' \in Counters
  BY SpendKeeps DEF CloneFails
<1>7. QED
  BY <1>4, <1>5, <1>6, StepKeeps

LEMMA DisableKeeps ==
    ASSUME Inductive, NEW m \in Machines, Disable(m)
    PROVE  Inductive'
<1>1. /\ Sound(m, checkout[m], tick[m], stamp[m], linked[m], edited[m], seed[m], remote)
      /\ edited = [edited EXCEPT ![m] = edited[m]] /\ remote \in Seq(Commit)
      /\ checkout = [checkout EXCEPT ![m] = checkout[m]] /\ FastForwards(remote, remote)
      /\ stamp = [stamp EXCEPT ![m] = stamp[m]] /\ seed = [seed EXCEPT ![m] = seed[m]]
  BY Stays
<1>2. tick \in [Machines -> Worker] /\ tick[m] \in Worker
  <2>1. tick \in [Machines -> Worker]
    BY DEF Inductive, TypeOK, Worker
  <2>2. QED
    BY <2>1
<1>3. tick' = [tick EXCEPT ![m].current = ~Busy(m)] /\ linked' = [linked EXCEPT ![m] = FALSE]
      /\ UNCHANGED <<remote, checkout, local, disk, stamp, edited, granted, seed>>
  BY DEF Disable
<1>4. PICK busy : busy \in BOOLEAN /\ busy = ~Busy(m) /\ (busy <=> tick[m].at = "idle")
  BY Zenon DEF Busy
<1>5. PICK t : t = [tick[m] EXCEPT !.current = busy]
  OBVIOUS
<1>6. /\ t \in Worker /\ t.at = tick[m].at /\ t.mine = tick[m].mine /\ t.payload = tick[m].payload
      /\ t.read = tick[m].read /\ t.result = tick[m].result /\ t.current = busy
  BY <1>2, <1>4, <1>5 DEF Worker
<1>7. tick' = [tick EXCEPT ![m] = t]
  BY <1>2, <1>3, <1>4, <1>5
<1>8. Sound(m, checkout[m], t, stamp[m], FALSE, edited[m], seed[m], remote)
  BY <1>1, <1>4, <1>6 DEF Sound, RecordedIn, OwnCommit
<1>9. WorkerStep(m)
  <2>1. PICK c, s, e, sd : c = checkout[m] /\ s = stamp[m] /\ e = edited[m] /\ sd = seed[m]
    OBVIOUS
  <2>2. /\ checkout' = [checkout EXCEPT ![m] = c] /\ stamp' = [stamp EXCEPT ![m] = s]
        /\ edited' = [edited EXCEPT ![m] = e] /\ seed' = [seed EXCEPT ![m] = sd]
        /\ Sound(m, c, t, s, FALSE, e, sd, remote') /\ remote' \in Seq(Commit)
        /\ FastForwards(remote, remote')
    BY <1>1, <1>3, <1>8, <2>1
  <2>3. QED
    BY <1>3, <1>7, <2>2 DEF WorkerStep
<1>10. SettingsStep(m)
  BY <1>3, SettingsStay
<1>11. used' \in Counters
  BY SpendKeeps DEF Disable
<1>12. QED
  BY <1>9, <1>10, <1>11, StepKeeps

\* A link to a clone that is there, with what is now local as the stamp
LEMMA LinkedIsSound ==
    ASSUME NEW m, NEW c, NEW t, NEW s, NEW k, NEW e, NEW sd, NEW r, NEW mine \in Content,
           NEW on \in BOOLEAN, Sound(m, c, t, s, k, e, sd, r), c.cloned,
           t.at \notin {"idle", "clone"} => ~t.current
    PROVE  Sound(m, c, t, mine, on, e, mine, r)
<1>1. t.at \notin {"idle", "clone"} => ~t.current
  OBVIOUS
<1>2. t.at # "clone"
  BY DEF Sound
<1>3. RecordedIn(c, t, s, sd) => RecordedIn(c, t, mine, mine)
  BY <1>1 DEF RecordedIn
<1>4. c \in Clone /\ t \in Worker /\ e \in Marks /\ (~e.uncommitted => RecordedIn(c, t, mine, mine))
  BY <1>3 DEF Sound
<1>5. /\ (t.payload # None) <=> (t.result = "applied")
      /\ t.at # "done" => t.payload = None
      /\ t.at \notin {"idle", "clone"} => t.mine \in Content
      /\ t.at = "commit" => t.read = Len(c.history)
      /\ t.at \in {"push", "retry", "repush"} => t.mine \in ContentsOf(c.history)
      /\ t.at \in {"push", "retry"} => OwnCommit(m, c, t)
      /\ t.at = "repush" => OwnCommit(m, c, t) \/ FastForwards(c.history, r)
  BY DEF Sound
<1>6. QED
  BY <1>1, <1>2, <1>4, <1>5 DEF Sound

LEMMA Unmarked ==
    ASSUME Inductive, NEW m \in Machines
    PROVE  \E e \in Marks : /\ [edited EXCEPT ![m].seen = FALSE, ![m].unseen = FALSE] = [edited EXCEPT ![m] = e]
                            /\ e.uncommitted = edited[m].uncommitted
<1>1. edited \in [Machines -> Marks]
  BY DEF Inductive, TypeOK, Marks
<1>2. PICK e : e = [edited[m] EXCEPT !.seen = FALSE, !.unseen = FALSE]
  OBVIOUS
<1>3. e \in Marks /\ e.uncommitted = edited[m].uncommitted
  <2>1. edited[m] \in Marks
    BY <1>1
  <2>2. QED
    BY <1>2, <2>1 DEF Marks
<1>4. [edited EXCEPT ![m].seen = FALSE, ![m].unseen = FALSE] = [edited EXCEPT ![m] = e]
  BY <1>1, <1>2
<1>5. QED
  BY <1>3, <1>4

LEMMA EnableAgainKeeps ==
    ASSUME Inductive, NEW m \in Machines, EnableAgain(m)
    PROVE  Inductive'
<1>1. /\ Sound(m, checkout[m], tick[m], stamp[m], linked[m], edited[m], seed[m], remote)
      /\ edited = [edited EXCEPT ![m] = edited[m]] /\ remote \in Seq(Commit)
      /\ checkout = [checkout EXCEPT ![m] = checkout[m]] /\ FastForwards(remote, remote)
      /\ tick = [tick EXCEPT ![m] = tick[m]] /\ local[m] \in Content
  BY Stays
<1>2. PICK on \in BOOLEAN : on /\ on = TRUE
  OBVIOUS
<1>3. /\ ~linked[m] /\ checkout[m].cloned
      /\ linked' = [linked EXCEPT ![m] = on]
      /\ stamp' = [stamp EXCEPT ![m] = local[m]] /\ seed' = [seed EXCEPT ![m] = local[m]]
      /\ UNCHANGED <<remote, checkout, local, disk, granted>>
  BY <1>2 DEF EnableAgain, Link
<1>4. Sound(m, checkout[m], tick[m], local[m], on, edited[m], local[m], remote)
  <2>1. tick[m].at \notin {"idle", "clone"} => ~tick[m].current
    BY <1>1, <1>3 DEF Sound
  <2>2. QED
    BY <1>1, <1>3, <2>1, LinkedIsSound
<1>5. \E t, e : /\ tick' = [tick EXCEPT ![m] = t] /\ edited' = [edited EXCEPT ![m] = e]
                /\ Sound(m, checkout[m], t, local[m], on, e, local[m], remote)
  <2>1. CASE Busy(m)
    <3>1. tick' = tick /\ edited' = edited
      BY <2>1 DEF EnableAgain
    <3>2. PICK t, e : t = tick[m] /\ e = edited[m]
      OBVIOUS
    <3>3. tick' = [tick EXCEPT ![m] = t] /\ edited' = [edited EXCEPT ![m] = e]
      BY <1>1, <3>1, <3>2
    <3>4. Sound(m, checkout[m], t, local[m], on, e, local[m], remote)
      BY <1>4, <3>2
    <3>5. QED
      BY <3>3, <3>4
  <2>2. CASE ~Busy(m)
    <3>1. tick' = [tick EXCEPT ![m] = Started(local[m])]
          /\ edited' = [edited EXCEPT ![m].seen = FALSE, ![m].unseen = FALSE]
      BY <2>2 DEF EnableAgain
    <3>2. PICK e \in Marks : edited' = [edited EXCEPT ![m] = e] /\ e.uncommitted = edited[m].uncommitted
      BY <3>1, Unmarked
    <3>3. Sound(m, checkout[m], tick[m], local[m], on, e, local[m], remote)
      BY <1>4, <3>2, SameMarks
    <3>4. Sound(m, checkout[m], Started(local[m]), local[m], on, e, local[m], remote)
      BY <1>1, <1>2, <3>3, StartedIsSound
    <3>5. QED
      BY <3>1, <3>2, <3>4
  <2>3. QED
    BY <2>1, <2>2
<1>6. WorkerStep(m)
  <2>1. PICK t, e : /\ tick' = [tick EXCEPT ![m] = t] /\ edited' = [edited EXCEPT ![m] = e]
                    /\ Sound(m, checkout[m], t, local[m], on, e, local[m], remote)
    BY <1>5
  <2>2. PICK c, s : c = checkout[m] /\ s = local[m]
    OBVIOUS
  <2>3. /\ checkout' = [checkout EXCEPT ![m] = c] /\ stamp' = [stamp EXCEPT ![m] = s]
        /\ seed' = [seed EXCEPT ![m] = s] /\ Sound(m, c, t, s, on, e, s, remote')
        /\ remote' \in Seq(Commit) /\ FastForwards(remote, remote')
    BY <1>1, <1>3, <2>1, <2>2
  <2>4. QED
    BY <1>3, <1>2, <2>1, <2>3 DEF WorkerStep
<1>7. SettingsStep(m)
  BY <1>3, SettingsStay
<1>8. used' \in Counters
  BY SpendKeeps DEF EnableAgain
<1>9. QED
  BY <1>6, <1>7, <1>8, StepKeeps

LEMMA ClonedKeeps ==
    ASSUME Inductive, NEW m \in Machines, Cloned(m)
    PROVE  Inductive'
<1>1. /\ Sound(m, checkout[m], tick[m], stamp[m], linked[m], edited[m], seed[m], remote)
      /\ remote \in Seq(Commit) /\ FastForwards(remote, remote)
      /\ local[m] \in Content /\ used \in Counters
  BY Stays
<1>2. PICK c : c = [cloned |-> TRUE, upstream |-> remote # <<>>,
                    history |-> remote, file |-> NewestContent(remote)]
  OBVIOUS
<1>3. PICK up : up \in BOOLEAN /\ up = (remote # <<>>)
  BY Zenon
<1>4. c \in Clone /\ c.cloned /\ c.history = remote /\ c.file = NewestContent(remote)
  <2>1. NewestContent(remote) \in Content \cup {None}
    BY <1>1, NewestIs
  <2>2. c = [cloned |-> TRUE, upstream |-> up, history |-> remote, file |-> NewestContent(remote)]
    BY <1>2, <1>3
  <2>3. QED
    BY <1>1, <1>3, <2>1, <2>2 DEF Clone
<1>5. /\ checkout' = [checkout EXCEPT ![m] = c] /\ tick' = [tick EXCEPT ![m] = Started(local[m])]
      /\ linked' = [linked EXCEPT ![m] = TRUE]
      /\ stamp' = [stamp EXCEPT ![m] = local[m]] /\ seed' = [seed EXCEPT ![m] = local[m]]
      /\ edited' = [edited EXCEPT ![m].seen = FALSE, ![m].unseen = FALSE]
      /\ UNCHANGED <<remote, local, disk, used, granted>>
  BY <1>2 DEF Cloned, Link
<1>6. PICK e \in Marks : edited' = [edited EXCEPT ![m] = e]
  BY <1>5, Unmarked
<1>7. Sound(m, c, Started(local[m]), local[m], TRUE, e, local[m], remote)
  BY <1>1, <1>4, <1>6, RecordsAre DEF Sound, RecordedIn
<1>8. WorkerStep(m)
  <2>1. PICK t, s : t = Started(local[m]) /\ s = local[m]
    OBVIOUS
  <2>2. /\ tick' = [tick EXCEPT ![m] = t] /\ stamp' = [stamp EXCEPT ![m] = s]
        /\ seed' = [seed EXCEPT ![m] = s] /\ Sound(m, c, t, s, TRUE, e, s, remote')
        /\ remote' \in Seq(Commit) /\ FastForwards(remote, remote')
    BY <1>1, <1>5, <1>7, <2>1
  <2>3. QED
    BY <1>5, <1>6, <2>2 DEF WorkerStep
<1>9. SettingsStep(m)
  BY <1>5, SettingsStay
<1>10. used' \in Counters
  BY <1>1, <1>5
<1>11. QED
  BY <1>8, <1>9, <1>10, StepKeeps

-----------------------------------------------------------------------------
(* Pulling *)

LEMMA ContentsGrow ==
    ASSUME NEW a \in Seq(Commit), NEW b \in Seq(Commit), FastForwards(a, b)
    PROVE  ContentsOf(a) \subseteq ContentsOf(b)
<1>1. Len(a) \in Nat /\ Len(b) \in Nat /\ DOMAIN a = 1..Len(a) /\ DOMAIN b = 1..Len(b)
  OBVIOUS
<1>2. Len(a) <= Len(b) /\ \A i \in 1..Len(a) : b[i] = a[i]
  BY ForwardsIs
<1>3. QED
  BY <1>1, <1>2 DEF ContentsOf

\* What git pull --ff-only does to a clone c
LEMMA PulledIs ==
    ASSUME NEW c \in Clone, remote \in Seq(Commit)
    PROVE  /\ Pulled(c).checkout \in Clone /\ Pulled(c).checkout.cloned = c.cloned
           /\ Pulled(c).ok \in BOOLEAN
           /\ \/ Pulled(c).checkout.history = c.history /\ Pulled(c).checkout.file = c.file
              \/ /\ FastForwards(c.history, remote) /\ Pulled(c).checkout.history = remote
                 /\ Pulled(c).checkout.file = NewestContent(remote)
           /\ Pulled(c).ok => FastForwards(remote, Pulled(c).checkout.history)
<1>1. PICK up : up \in BOOLEAN /\ up = (c.upstream \/ remote # <<>>)
  BY Zenon
<1>2. PICK some : some \in BOOLEAN /\ some = (remote # <<>>)
  BY Zenon
<1>3. PICK d : d = [c EXCEPT !.upstream = up]
  OBVIOUS
<1>4. d = [c EXCEPT !.upstream = @ \/ remote # <<>>]
  BY <1>1, <1>3
<1>5. d \in Clone /\ d.cloned = c.cloned /\ d.history = c.history /\ d.file = c.file
  BY <1>1, <1>3 DEF Clone
<1>6. PICK e : e = [d EXCEPT !.history = remote, !.file = NewestContent(remote)]
  OBVIOUS
<1>7. e \in Clone /\ e.cloned = c.cloned /\ e.history = remote /\ e.file = NewestContent(remote)
  <2>1. NewestContent(remote) \in Content \cup {None}
    BY NewestIs
  <2>2. QED
    BY <1>5, <1>6, <2>1 DEF Clone
<1>8. FastForwards(remote, remote)
  BY ForwardsItself
<1>9. PICK p : p = Pulled(c)
  OBVIOUS
<1>10. p = IF FastForwards(remote, c.history)
           THEN [ok |-> some, checkout |-> d]
           ELSE IF FastForwards(c.history, remote) /\ c.file = NewestContent(c.history)
           THEN [ok |-> TRUE, checkout |-> e]
           ELSE [ok |-> FALSE, checkout |-> d]
  BY <1>2, <1>4, <1>6, <1>9, Zenon DEF Pulled
<1>11. CASE FastForwards(remote, c.history)
  <2>1. p.ok = some /\ p.checkout = d
    BY <1>10, <1>11
  <2>2. QED
    BY <1>2, <1>5, <1>9, <1>11, <2>1
<1>12. CASE ~FastForwards(remote, c.history) /\ FastForwards(c.history, remote)
            /\ c.file = NewestContent(c.history)
  <2>1. p.ok = TRUE /\ p.checkout = e
    BY <1>10, <1>12
  <2>2. QED
    BY <1>7, <1>8, <1>9, <1>12, <2>1
<1>13. CASE ~FastForwards(remote, c.history)
            /\ ~(FastForwards(c.history, remote) /\ c.file = NewestContent(c.history))
  <2>1. p.ok = FALSE /\ p.checkout = d
    BY <1>10, <1>13
  <2>2. QED
    BY <1>5, <1>9, <2>1
<1>14. QED
  BY <1>11, <1>12, <1>13

\* A clone that has been pulled keeps what the tick before it had recorded.
LEMMA PulledIsRecorded ==
    ASSUME NEW c \in Clone, NEW d \in Clone, NEW s, NEW sd, remote \in Seq(Commit),
           NEW t, NEW u, u.at \notin {"stamp", "done"} \/ u.result = "failed",
           u.at # "stamp",
           \/ d.history = c.history /\ d.file = c.file
           \/ FastForwards(c.history, remote) /\ d.history = remote /\ d.file = NewestContent(remote),
           RecordedIn(c, t, s, sd)
    PROVE  RecordedIn(d, u, s, sd)
<1>1. ContentsOf(c.history) \subseteq ContentsOf(d.history)
  BY ContentsGrow DEF Clone
<1>2. d.file = NewestContent(d.history)
  BY DEF RecordedIn
<1>3. QED
  BY <1>1, <1>2 DEF RecordedIn

LEMMA PullKeeps ==
    ASSUME Inductive, NEW m \in Machines, Pull(m)
    PROVE  Inductive'
<1>1. /\ Sound(m, checkout[m], tick[m], stamp[m], linked[m], edited[m], seed[m], remote)
      /\ stamp = [stamp EXCEPT ![m] = stamp[m]] /\ remote \in Seq(Commit)
      /\ checkout = [checkout EXCEPT ![m] = checkout[m]] /\ FastForwards(remote, remote)
      /\ used \in Counters
  BY Stays
<1>2. tick[m].at = "pull" /\ UNCHANGED <<local, disk, linked, granted, seed>>
      /\ UNCHANGED <<remote, stamp, edited>>
  BY DEF Pull, WorkerKeeps
<1>3. PICK c \in Clone : c = checkout[m]
  BY <1>1 DEF Sound
<1>4. PICK d, online : /\ d \in Clone /\ online \in BOOLEAN /\ d.cloned = c.cloned
                       /\ checkout' = [checkout EXCEPT ![m] = d]
                       /\ tick' = [tick EXCEPT ![m].at = "reconcile", ![m].online = online]
                       /\ \/ d.history = c.history /\ d.file = c.file
                          \/ /\ FastForwards(c.history, remote) /\ d.history = remote
                             /\ d.file = NewestContent(remote)
  <2>1. tick \in [Machines -> Worker] /\ tick[m] \in Worker
    <3>1. tick \in [Machines -> Worker]
      BY DEF Inductive, TypeOK, Worker
    <3>2. QED
      BY <3>1
  <2>2. CASE ~checkout[m].upstream /\ tick' = [tick EXCEPT ![m].at = "reconcile"] /\ checkout' = checkout
    <3>1. PICK online : online = tick[m].online
      OBVIOUS
    <3>2. online \in BOOLEAN
      BY <2>1, <3>1 DEF Worker
    <3>3. tick' = [tick EXCEPT ![m].at = "reconcile", ![m].online = online]
      <4>1. PICK w \in Worker : w = tick[m]
        BY <2>1
      <4>2. [w EXCEPT !.at = "reconcile"] = [w EXCEPT !.at = "reconcile", !.online = online]
        BY <3>1, <4>1 DEF Worker
      <4>3. QED
        BY <2>1, <2>2, <4>1, <4>2
    <3>4. checkout' = [checkout EXCEPT ![m] = c]
      BY <1>1, <1>3, <2>2
    <3>5. QED
      BY <1>3, <3>2, <3>3, <3>4
  <2>3. CASE /\ checkout' = [checkout EXCEPT ![m] = Pulled(@).checkout]
             /\ tick' = [tick EXCEPT ![m].at = "reconcile", ![m].online = Pulled(checkout[m]).ok]
    <3>1. checkout \in [Machines -> Clone]
      BY DEF Inductive, TypeOK, Clone
    <3>2. checkout' = [checkout EXCEPT ![m] = Pulled(c).checkout]
          /\ tick' = [tick EXCEPT ![m].at = "reconcile", ![m].online = Pulled(c).ok]
      BY <1>3, <2>3, <3>1
    <3>3. PICK d, online : d = Pulled(c).checkout /\ online = Pulled(c).ok
      OBVIOUS
    <3>4. /\ d \in Clone /\ d.cloned = c.cloned /\ online \in BOOLEAN
          /\ \/ d.history = c.history /\ d.file = c.file
             \/ FastForwards(c.history, remote) /\ d.history = remote /\ d.file = NewestContent(remote)
      BY <1>1, <3>3, PulledIs
    <3>5. QED
      BY <3>2, <3>3, <3>4
  <2>4. CASE /\ tick' = [tick EXCEPT ![m].at = "reconcile", ![m].online = FALSE]
             /\ checkout' = checkout
    <3>1. checkout' = [checkout EXCEPT ![m] = c]
      BY <1>1, <1>3, <2>4
    <3>2. PICK online \in BOOLEAN : online = FALSE
      OBVIOUS
    <3>3. QED
      BY <2>4, <3>1, <3>2
  <2>5. QED
    BY <2>2, <2>3, <2>4 DEF Pull
<1>5. PICK t : t = [tick[m] EXCEPT !.at = "reconcile", !.online = online]
  OBVIOUS
<1>6. tick \in [Machines -> Worker] /\ tick[m] \in Worker
  <2>1. tick \in [Machines -> Worker]
    BY DEF Inductive, TypeOK, Worker
  <2>2. QED
    BY <2>1
<1>7. /\ t \in Worker /\ t.at = "reconcile" /\ t.mine = tick[m].mine /\ t.payload = tick[m].payload
      /\ t.current = tick[m].current /\ t.result = tick[m].result
  BY <1>4, <1>5, <1>6 DEF Worker, Stages
<1>8. tick' = [tick EXCEPT ![m] = t]
  BY <1>4, <1>5, <1>6
<1>9. RecordedIn(c, tick[m], stamp[m], seed[m]) => RecordedIn(d, t, stamp[m], seed[m])
  BY <1>1, <1>3, <1>4, <1>7, PulledIsRecorded
<1>10. Sound(m, d, t, stamp[m], linked[m], edited[m], seed[m], remote)
  BY <1>1, <1>2, <1>3, <1>4, <1>7, <1>9 DEF Sound
<1>11. stamp' = [stamp EXCEPT ![m] = stamp[m]]
  BY <1>1, <1>2
<1>12. WorkerStep(m)
  BY <1>1, <1>2, <1>4, <1>8, <1>10, <1>11, WorkerIs
<1>13. SettingsStep(m)
  BY <1>2, SettingsStay
<1>14. used' \in Counters
  BY <1>1, SpendKeeps DEF Pull
<1>15. QED
  BY <1>12, <1>13, <1>14, StepKeeps

LEMMA PullAgainKeeps ==
    ASSUME Inductive, NEW m \in Machines, PullAgain(m)
    PROVE  Inductive'
<1>1. /\ Sound(m, checkout[m], tick[m], stamp[m], linked[m], edited[m], seed[m], remote)
      /\ stamp = [stamp EXCEPT ![m] = stamp[m]] /\ remote \in Seq(Commit)
      /\ checkout = [checkout EXCEPT ![m] = checkout[m]] /\ FastForwards(remote, remote)
      /\ used \in Counters
  BY Stays
<1>2. tick[m].at = "retry" /\ UNCHANGED <<local, disk, linked, granted, seed>>
      /\ UNCHANGED <<remote, stamp, edited>>
  BY DEF PullAgain, WorkerKeeps
<1>3. PICK c \in Clone : c = checkout[m]
  BY <1>1 DEF Sound
<1>4. tick \in [Machines -> Worker] /\ tick[m] \in Worker
  <2>1. tick \in [Machines -> Worker]
    BY DEF Inductive, TypeOK, Worker
  <2>2. QED
    BY <2>1
<1>5. PICK again : again = [tick[m] EXCEPT !.at = "repush"]
  OBVIOUS
<1>6. PICK ended : ended = Ended(tick[m], "failed")
  OBVIOUS
<1>7. /\ again \in Worker /\ again.at = "repush" /\ again.mine = tick[m].mine
      /\ again.payload = tick[m].payload /\ again.read = tick[m].read
      /\ again.current = tick[m].current /\ again.result = tick[m].result
  BY <1>4, <1>5 DEF Worker, Stages
<1>8. /\ ended \in Worker /\ ended.at = "done" /\ ended.mine = tick[m].mine
      /\ ended.payload = tick[m].payload /\ ended.read = tick[m].read
      /\ ended.current = tick[m].current /\ ended.result = "failed"
  BY <1>4, <1>6 DEF Worker, Stages, Results, Ended
<1>9. PICK d, t : /\ d \in Clone /\ d.cloned = c.cloned
                  /\ checkout' = [checkout EXCEPT ![m] = d] /\ tick' = [tick EXCEPT ![m] = t]
                  /\ t \in {again, ended}
                  /\ \/ d.history = c.history /\ d.file = c.file
                     \/ /\ FastForwards(c.history, remote) /\ d.history = remote
                        /\ d.file = NewestContent(remote)
  <2>1. CASE /\ checkout' = [checkout EXCEPT ![m] = Pulled(checkout[m]).checkout]
             /\ tick' = [tick EXCEPT ![m] = IF Pulled(checkout[m]).ok THEN [@ EXCEPT !.at = "repush"]
                                                                    ELSE Ended(@, "failed")]
    <3>1. PICK d : d = Pulled(c).checkout
      OBVIOUS
    <3>2. /\ d \in Clone /\ d.cloned = c.cloned
          /\ \/ d.history = c.history /\ d.file = c.file
             \/ FastForwards(c.history, remote) /\ d.history = remote /\ d.file = NewestContent(remote)
      BY <1>1, <3>1, PulledIs
    <3>3. PICK t : t \in {again, ended} /\ tick' = [tick EXCEPT ![m] = t]
      <4>1. tick' = [tick EXCEPT ![m] = IF Pulled(c).ok THEN again ELSE ended]
        BY <1>3, <1>4, <1>5, <1>6, <2>1
      <4>2. QED
        BY <4>1
    <3>4. checkout' = [checkout EXCEPT ![m] = d]
      BY <1>3, <2>1, <3>1
    <3>5. QED
      BY <3>2, <3>3, <3>4
  <2>2. CASE checkout' = checkout /\ tick' = [tick EXCEPT ![m] = Ended(@, "failed")]
    <3>1. tick' = [tick EXCEPT ![m] = ended]
      BY <1>4, <1>6, <2>2
    <3>2. checkout' = [checkout EXCEPT ![m] = c]
      BY <1>1, <1>3, <2>2
    <3>3. QED
      BY <3>1, <3>2
  <2>3. QED
    BY <2>1, <2>2 DEF PullAgain
<1>10. RecordedIn(c, tick[m], stamp[m], seed[m]) => RecordedIn(d, t, stamp[m], seed[m])
  BY <1>1, <1>3, <1>7, <1>8, <1>9, PulledIsRecorded
<1>11. ContentsOf(c.history) \subseteq ContentsOf(d.history)
  BY <1>1, <1>9, ContentsGrow DEF Clone
<1>12. OwnCommit(m, d, t) \/ FastForwards(d.history, remote)
  <2>1. OwnCommit(m, c, tick[m])
    BY <1>1, <1>2, <1>3 DEF Sound
  <2>2. QED
    BY <1>1, <1>7, <1>8, <1>9, <2>1 DEF OwnCommit
<1>13. t \in Worker /\ t.at \in {"repush", "done"} /\ t.mine = tick[m].mine /\ t.payload = tick[m].payload
       /\ t.current = tick[m].current /\ (t.result = tick[m].result \/ t.result = "failed")
  BY <1>7, <1>8, <1>9
<1>14. /\ tick[m].payload = None /\ tick[m].result # "applied"
       /\ tick[m].mine \in ContentsOf(c.history) /\ tick[m].mine \in Content
       /\ c.cloned /\ (tick[m].current => linked[m])
  BY <1>1, <1>2, <1>3 DEF Sound
<1>15. Sound(m, d, t, stamp[m], linked[m], edited[m], seed[m], remote)
  <2>1. /\ edited[m] \in Marks /\ linked[m] \in BOOLEAN
        /\ stamp[m] \in Content \cup {None} /\ seed[m] \in Content \cup {None}
        /\ linked[m] => c.cloned
        /\ ~edited[m].uncommitted => RecordedIn(c, tick[m], stamp[m], seed[m])
    BY <1>1, <1>3 DEF Sound
  <2>2. t.mine \in ContentsOf(d.history)
    BY <1>11, <1>13, <1>14
  <2>3. QED
    BY <1>9, <1>10, <1>12, <1>13, <1>14, <2>1, <2>2 DEF Sound
<1>16. stamp' = [stamp EXCEPT ![m] = stamp[m]]
  BY <1>1, <1>2
<1>17. WorkerStep(m)
  BY <1>1, <1>2, <1>9, <1>15, <1>16, WorkerIs
<1>18. SettingsStep(m)
  BY <1>2, SettingsStay
<1>19. used' \in Counters
  BY <1>1, SpendKeeps DEF PullAgain
<1>20. QED
  BY <1>17, <1>18, <1>19, StepKeeps

-----------------------------------------------------------------------------
(* Deciding, stamping and committing *)

LEMMA WorkerTyped ==
    ASSUME Inductive, NEW m \in Machines
    PROVE  tick \in [Machines -> Worker] /\ tick[m] \in Worker
<1>1. tick \in [Machines -> Worker]
  BY DEF Inductive, TypeOK, Worker
<1>2. QED
  BY <1>1

LEMMA ReconcileIs ==
    ASSUME NEW mine, NEW repo, NEW synced, mine # None
    PROVE  /\ Reconcile(mine, repo, synced) \in {"push", "uptodate", "apply"}
           /\ Reconcile(mine, repo, synced) = "uptodate" => repo # None /\ repo = mine
           /\ Reconcile(mine, repo, synced) = "apply" => repo # None /\ repo # mine /\ synced = mine
<1>1. CASE repo = None
  BY <1>1 DEF Reconcile
<1>2. CASE repo # None /\ repo = mine
  BY <1>2 DEF Reconcile
<1>3. CASE repo # None /\ repo # mine /\ synced # mine
  BY <1>3 DEF Reconcile
<1>4. CASE repo # None /\ repo # mine /\ synced = mine
  BY <1>4 DEF Reconcile
<1>5. QED
  BY <1>1, <1>2, <1>3, <1>4

LEMMA DecideKeeps ==
    ASSUME Inductive, NEW m \in Machines, Decide(m)
    PROVE  Inductive'
<1>1. /\ Sound(m, checkout[m], tick[m], stamp[m], linked[m], edited[m], seed[m], remote)
      /\ edited = [edited EXCEPT ![m] = edited[m]] /\ used \in Counters
  BY Stays
<1>2. tick[m].at = "reconcile" /\ UNCHANGED <<local, disk, linked, granted, seed>>
      /\ UNCHANGED <<remote, checkout, stamp, used, edited>>
  BY DEF Decide, WorkerKeeps
<1>3. PICK w \in Worker : w = tick[m]
  BY WorkerTyped
<1>4. PICK c \in Clone : c = checkout[m]
  BY <1>1 DEF Sound
<1>5. PICK repo : repo = c.file
  OBVIOUS
<1>6. PICK decision : decision = Reconcile(w.mine, repo, stamp[m])
  OBVIOUS
<1>7. w.mine # None
  BY <1>1, <1>2, <1>3, SyncAssumption DEF Sound
<1>8. /\ decision \in {"push", "uptodate", "apply"}
      /\ decision = "uptodate" => repo # None /\ repo = w.mine
      /\ decision = "apply" => repo # None /\ repo # w.mine /\ stamp[m] = w.mine
  BY <1>7, <1>6, ReconcileIs
<1>9. PICK read : read = [w EXCEPT !.read = Len(c.history)]
  OBVIOUS
<1>10. /\ read \in Worker /\ read.mine = w.mine /\ read.payload = w.payload /\ read.current = w.current
      /\ read.result = w.result /\ read.read = Len(c.history)
  <2>1. Len(c.history) \in Nat
    BY DEF Clone
  <2>2. QED
    BY <1>9, <2>1 DEF Worker
<1>11. PICK t : t = CASE decision = "uptodate" /\ stamp[m] = w.mine -> Ended(read, "uptodate")
           [] decision = "uptodate" /\ stamp[m] # w.mine ->
                  [read EXCEPT !.at = "stamp", !.result = "uptodate"]
           [] decision = "apply" -> [Ended(read, "applied") EXCEPT !.payload = repo]
           [] decision = "push" /\ ~w.online -> Ended(read, "failed")
           [] OTHER -> [read EXCEPT !.at = "commit"]
  OBVIOUS
<1>12. tick' = [tick EXCEPT ![m] = t]
  BY <1>3, <1>4, <1>5, <1>6, <1>9, <1>11, Zenon DEF Decide
<1>13. \/ t = Ended(read, "uptodate")
       \/ t = [read EXCEPT !.at = "stamp", !.result = "uptodate"] /\ decision = "uptodate"
       \/ t = [Ended(read, "applied") EXCEPT !.payload = repo] /\ decision = "apply"
       \/ t = Ended(read, "failed")
       \/ t = [read EXCEPT !.at = "commit"]
  <2>1. CASE decision = "uptodate" /\ stamp[m] = w.mine
    BY <1>11, <2>1
  <2>2. CASE decision = "uptodate" /\ stamp[m] # w.mine
    BY <1>11, <2>2
  <2>3. CASE decision = "apply"
    BY <1>11, <2>3
  <2>4. CASE decision = "push" /\ ~w.online
    BY <1>11, <2>4
  <2>5. CASE decision = "push" /\ w.online
    BY <1>11, <2>5
  <2>6. QED
    BY <1>8, <2>1, <2>2, <2>3, <2>4, <2>5
<1>14. /\ w.payload = None /\ w.result # "applied" /\ w.mine \in Content /\ c.cloned
       /\ w.current => linked[m]
       /\ ~edited[m].uncommitted => RecordedIn(c, w, stamp[m], seed[m])
       /\ edited[m] \in Marks /\ linked[m] \in BOOLEAN
       /\ stamp[m] \in Content \cup {None} /\ seed[m] \in Content \cup {None}
  BY <1>1, <1>2, <1>3, <1>4 DEF Sound
<1>15. Sound(m, c, t, stamp[m], linked[m], edited[m], seed[m], remote)
  <2>1. repo \in Content \cup {None}
    BY <1>5 DEF Clone
  <2>2. ~edited[m].uncommitted =>
          /\ repo = NewestContent(c.history) /\ stamp[m] \in ContentsOf(c.history) \cup {seed[m], None}
          /\ repo # None => repo \in ContentsOf(c.history)
    <3>1. c.history \in Seq(Commit)
      BY DEF Clone
    <3>2. QED
      BY <1>5, <1>14, <3>1, NewestIs DEF RecordedIn
  <2>3. ASSUME t \in Worker, t.at = "done", t.payload = None, t.result \in {"uptodate", "failed"},
               t.mine = w.mine, t.current = w.current
        PROVE  Sound(m, c, t, stamp[m], linked[m], edited[m], seed[m], remote)
    <3>1. ~edited[m].uncommitted => RecordedIn(c, t, stamp[m], seed[m])
      BY <1>5, <2>2, <2>3 DEF RecordedIn
    <3>2. QED
      BY <1>14, <2>3, <3>1 DEF Sound
  <2>4. CASE t = Ended(read, "uptodate")
    <3>1. /\ t \in Worker /\ t.at = "done" /\ t.payload = None /\ t.result = "uptodate"
          /\ t.mine = w.mine /\ t.current = w.current
      BY <1>10, <1>14, <2>4 DEF Ended, Worker, Stages, Results
    <3>2. QED
      BY <2>3, <3>1
  <2>5. CASE t = Ended(read, "failed")
    <3>1. /\ t \in Worker /\ t.at = "done" /\ t.payload = None /\ t.result = "failed"
          /\ t.mine = w.mine /\ t.current = w.current
      BY <1>10, <1>14, <2>5 DEF Ended, Worker, Stages, Results
    <3>2. QED
      BY <2>3, <3>1
  <2>6. CASE t = [read EXCEPT !.at = "commit"]
    <3>1. /\ t \in Worker /\ t.at = "commit" /\ t.payload = None /\ t.result = w.result
          /\ t.mine = w.mine /\ t.current = w.current /\ t.read = Len(c.history)
      BY <1>10, <1>14, <2>6 DEF Worker, Stages, Results
    <3>2. ~edited[m].uncommitted => RecordedIn(c, t, stamp[m], seed[m])
      BY <1>5, <2>2, <3>1 DEF RecordedIn
    <3>3. QED
      BY <1>14, <3>1, <3>2 DEF Sound
  <2>7. CASE t = [read EXCEPT !.at = "stamp", !.result = "uptodate"] /\ decision = "uptodate"
    <3>1. /\ t \in Worker /\ t.at = "stamp" /\ t.payload = None /\ t.result = "uptodate"
          /\ t.mine = w.mine /\ t.current = w.current
      BY <1>10, <1>14, <2>7 DEF Worker, Stages, Results
    <3>2. ~edited[m].uncommitted => RecordedIn(c, t, stamp[m], seed[m])
      BY <1>5, <1>8, <2>2, <2>7, <3>1 DEF RecordedIn
    <3>3. QED
      BY <1>14, <3>1, <3>2 DEF Sound
  <2>8. CASE t = [Ended(read, "applied") EXCEPT !.payload = repo] /\ decision = "apply"
    <3>1. PICK u : u = Ended(read, "applied")
      OBVIOUS
    <3>2. /\ u \in Worker /\ u.at = "done" /\ u.result = "applied"
          /\ u.mine = w.mine /\ u.current = w.current
      BY <1>10, <3>1 DEF Ended, Worker, Stages, Results
    <3>3. /\ t \in Worker /\ t.at = "done" /\ t.payload = repo /\ t.result = "applied"
          /\ t.mine = w.mine /\ t.current = w.current
      BY <2>1, <2>8, <3>1, <3>2 DEF Worker
    <3>4. ~edited[m].uncommitted => RecordedIn(c, t, stamp[m], seed[m])
      <4>1. None \notin Content
        BY SyncAssumption
      <4>2. QED
        BY <1>5, <1>8, <1>14, <2>2, <2>8, <3>3, <4>1 DEF RecordedIn
    <3>5. QED
      BY <1>8, <1>14, <2>8, <3>3, <3>4 DEF Sound
  <2>9. QED
    BY <1>13, <2>4, <2>5, <2>6, <2>7, <2>8
<1>16. WorkerStep(m)
  <2>1. edited' = [edited EXCEPT ![m] = edited[m]]
    BY <1>1, <1>2
  <2>2. QED
    BY <1>2, <1>4, <1>12, <1>15, <2>1, MarksAre
<1>17. SettingsStep(m)
  BY <1>2, SettingsStay
<1>18. used' \in Counters
  BY <1>1, <1>2
<1>19. QED
  BY <1>16, <1>17, <1>18, StepKeeps

LEMMA SaveStampKeeps ==
    ASSUME Inductive, NEW m \in Machines, SaveStamp(m)
    PROVE  Inductive'
<1>1. /\ Sound(m, checkout[m], tick[m], stamp[m], linked[m], edited[m], seed[m], remote)
      /\ checkout = [checkout EXCEPT ![m] = checkout[m]] /\ remote \in Seq(Commit)
      /\ FastForwards(remote, remote) /\ used \in Counters
  BY Stays
<1>2. tick[m].at = "stamp" /\ UNCHANGED <<local, disk, linked, granted, seed>>
      /\ UNCHANGED <<remote, checkout, used, edited>>
      /\ stamp' = [stamp EXCEPT ![m] = tick[m].mine]
      /\ tick' = [tick EXCEPT ![m] = Ended(@, @.result)]
  BY DEF SaveStamp, WorkerKeeps
<1>3. PICK w \in Worker : w = tick[m]
  BY WorkerTyped
<1>4. PICK t : t = Ended(w, w.result)
  OBVIOUS
<1>5. tick' = [tick EXCEPT ![m] = t]
  BY <1>2, <1>3, <1>4, WorkerTyped
<1>6. /\ t \in Worker /\ t.at = "done" /\ t.payload = w.payload /\ t.result = w.result
      /\ t.mine = w.mine /\ t.current = w.current
  BY <1>4 DEF Ended, Worker, Stages
<1>7. /\ w.payload = None /\ w.result # "applied" /\ w.mine \in Content
      /\ ~edited[m].uncommitted => w.mine \in ContentsOf(checkout[m].history)
  BY <1>1, <1>2, <1>3 DEF Sound, RecordedIn
<1>8. ~edited[m].uncommitted => RecordedIn(checkout[m], t, w.mine, seed[m])
  BY <1>1, <1>6, <1>7 DEF Sound, RecordedIn
<1>9. Sound(m, checkout[m], t, w.mine, linked[m], edited[m], seed[m], remote)
  BY <1>1, <1>2, <1>3, <1>6, <1>7, <1>8 DEF Sound
<1>10. checkout' = [checkout EXCEPT ![m] = checkout[m]] /\ stamp' = [stamp EXCEPT ![m] = w.mine]
  BY <1>1, <1>2, <1>3
<1>11. WorkerStep(m)
  BY <1>1, <1>2, <1>5, <1>9, <1>10, WorkerIs
<1>12. SettingsStep(m)
  BY <1>2, SettingsStay
<1>13. used' \in Counters
  BY <1>1, <1>2
<1>14. QED
  BY <1>11, <1>12, <1>13, StepKeeps

LEMMA CommitPayloadKeeps ==
    ASSUME Inductive, NEW m \in Machines, CommitPayload(m)
    PROVE  Inductive'
<1>1. /\ Sound(m, checkout[m], tick[m], stamp[m], linked[m], edited[m], seed[m], remote)
      /\ stamp = [stamp EXCEPT ![m] = stamp[m]] /\ remote \in Seq(Commit)
      /\ checkout = [checkout EXCEPT ![m] = checkout[m]]
      /\ linked = [linked EXCEPT ![m] = linked[m]] /\ seed = [seed EXCEPT ![m] = seed[m]]
      /\ FastForwards(remote, remote) /\ used \in Counters
  BY Stays
<1>2. tick[m].at = "commit" /\ UNCHANGED <<local, disk, linked, granted, seed>>
      /\ UNCHANGED <<remote, stamp>>
  BY DEF CommitPayload, WorkerKeeps
<1>3. PICK w \in Worker : w = tick[m]
  BY WorkerTyped
<1>4. PICK c \in Clone : c = checkout[m]
  BY <1>1 DEF Sound
<1>5. checkout \in [Machines -> Clone] /\ edited \in [Machines -> Marks]
  BY DEF Inductive, TypeOK, Clone, Marks
<1>6. /\ w.payload = None /\ w.result # "applied" /\ w.mine \in Content /\ c.cloned
      /\ w.current => linked[m]
      /\ w.read = Len(c.history)
      /\ ~edited[m].uncommitted => RecordedIn(c, w, stamp[m], seed[m])
      /\ edited[m] \in Marks /\ linked[m] \in BOOLEAN
      /\ stamp[m] \in Content \cup {None} /\ seed[m] \in Content \cup {None}
  BY <1>1, <1>2, <1>3, <1>4 DEF Sound
<1>7. used' \in Counters
  BY <1>1, SpendKeeps DEF CommitPayload
<1>8. SettingsStep(m)
  BY <1>2, SettingsStay
<1>9. CASE /\ checkout' = [checkout EXCEPT ![m].file = tick[m].mine,
                             ![m].history = Append(@, [by |-> m, content |-> tick[m].mine])]
           /\ tick' = [tick EXCEPT ![m].at = "push"]
           /\ UNCHANGED <<used, edited>>
  <2>1. PICK new : new = [by |-> m, content |-> w.mine]
    OBVIOUS
  <2>2. new \in Commit /\ new.by = m /\ new.content = w.mine
    BY <1>6, <2>1 DEF Commit
  <2>3. PICK h : h = Append(c.history, new)
    OBVIOUS
  <2>4. /\ h \in Seq(Commit) /\ Len(h) = Len(c.history) + 1 /\ h[Len(h)] = new
        /\ DOMAIN h = 1..Len(h) /\ Len(h) \in Nat /\ h # <<>>
        /\ \A i \in 1..Len(c.history) : h[i] = c.history[i]
    <3>1. c.history \in Seq(Commit) /\ Len(c.history) \in Nat
      BY DEF Clone
    <3>2. QED
      BY <2>2, <2>3, <3>1
  <2>5. PICK d : d = [c EXCEPT !.file = w.mine, !.history = h]
    OBVIOUS
  <2>6. d \in Clone /\ d.cloned /\ d.file = w.mine /\ d.history = h
    BY <1>6, <2>4, <2>5 DEF Clone
  <2>7. checkout' = [checkout EXCEPT ![m] = d]
    BY <1>3, <1>4, <1>5, <1>9, <2>1, <2>3, <2>5
  <2>8. PICK t : t = [w EXCEPT !.at = "push"]
    OBVIOUS
  <2>9. /\ t \in Worker /\ t.at = "push" /\ t.payload = w.payload /\ t.result = w.result
        /\ t.mine = w.mine /\ t.current = w.current /\ t.read = w.read
    BY <2>8 DEF Worker, Stages
  <2>10. tick' = [tick EXCEPT ![m] = t]
    BY <1>3, <1>9, <2>8, WorkerTyped
  <2>11. NewestContent(h) = w.mine /\ w.mine \in ContentsOf(h)
    BY <2>2, <2>4 DEF NewestContent, ContentsOf
  <2>12. ContentsOf(c.history) \subseteq ContentsOf(h)
    <3>1. c.history \in Seq(Commit) /\ DOMAIN c.history = 1..Len(c.history) /\ Len(c.history) \in Nat
      BY DEF Clone
    <3>2. QED
      BY <2>4, <3>1 DEF ContentsOf
  <2>13. ~edited[m].uncommitted => RecordedIn(d, t, stamp[m], seed[m])
    BY <1>6, <2>6, <2>9, <2>11, <2>12 DEF RecordedIn
  <2>14. OwnCommit(m, d, t)
    BY <1>6, <2>2, <2>4, <2>6, <2>9 DEF OwnCommit
  <2>15. Sound(m, d, t, stamp[m], linked[m], edited[m], seed[m], remote)
    BY <1>6, <2>6, <2>9, <2>11, <2>13, <2>14 DEF Sound
  <2>16. stamp' = [stamp EXCEPT ![m] = stamp[m]]
    BY <1>1, <1>2
  <2>17. WorkerStep(m)
    BY <1>1, <1>2, <1>9, <2>7, <2>10, <2>15, <2>16, WorkerIs
  <2>18. QED
    BY <1>7, <1>8, <2>17, StepKeeps
<1>10. CASE /\ checkout' \in {checkout, [checkout EXCEPT ![m].file = tick[m].mine]}
            /\ tick' = [tick EXCEPT ![m] = Ended(@, "failed")]
            /\ edited' = [edited EXCEPT ![m].uncommitted = TRUE]
  <2>1. PICK d : /\ d \in Clone /\ d.cloned /\ checkout' = [checkout EXCEPT ![m] = d]
    <3>1. PICK over : over = [c EXCEPT !.file = w.mine]
      OBVIOUS
    <3>2. over \in Clone /\ over.cloned
      BY <1>6, <3>1 DEF Clone
    <3>3. checkout' = [checkout EXCEPT ![m] = c] \/ checkout' = [checkout EXCEPT ![m] = over]
      BY <1>1, <1>3, <1>4, <1>5, <1>10, <3>1
    <3>4. QED
      BY <1>6, <3>2, <3>3
  <2>2. PICK t : t = Ended(w, "failed")
    OBVIOUS
  <2>3. /\ t \in Worker /\ t.at = "done" /\ t.payload = None /\ t.result = "failed"
        /\ t.mine = w.mine /\ t.current = w.current
    BY <1>6, <2>2 DEF Ended, Worker, Stages, Results
  <2>4. tick' = [tick EXCEPT ![m] = t]
    BY <1>3, <1>10, <2>2, WorkerTyped
  <2>5. PICK e : e = [edited[m] EXCEPT !.uncommitted = TRUE]
    OBVIOUS
  <2>6. e \in Marks /\ e.uncommitted
    BY <1>6, <2>5 DEF Marks
  <2>7. edited' = [edited EXCEPT ![m] = e]
    BY <1>5, <1>10, <2>5
  <2>8. Sound(m, d, t, stamp[m], linked[m], e, seed[m], remote)
    BY <1>6, <2>1, <2>3, <2>6 DEF Sound
  <2>9. WorkerStep(m)
    <3>1. PICK s, k, sd : s = stamp[m] /\ k = linked[m] /\ sd = seed[m]
      OBVIOUS
    <3>2. /\ stamp' = [stamp EXCEPT ![m] = s] /\ linked' = [linked EXCEPT ![m] = k]
          /\ seed' = [seed EXCEPT ![m] = sd] /\ Sound(m, d, t, s, k, e, sd, remote')
          /\ remote' \in Seq(Commit) /\ FastForwards(remote, remote')
      BY <1>1, <1>2, <2>8, <3>1
    <3>3. QED
      BY <2>1, <2>4, <2>7, <3>2 DEF WorkerStep
  <2>10. QED
    BY <1>7, <1>8, <2>9, StepKeeps
<1>11. QED
  BY <1>9, <1>10 DEF CommitPayload

-----------------------------------------------------------------------------
(* Pushing, and what the app does with the result *)

\* Once it has been pushed a clone has an upstream; nothing else differs.
LEMMA SameClone ==
    ASSUME NEW m, NEW c, NEW d \in Clone, NEW t, NEW s, NEW k, NEW e, NEW sd, NEW r,
           d.cloned = c.cloned, d.history = c.history, d.file = c.file,
           Sound(m, c, t, s, k, e, sd, r)
    PROVE  Sound(m, d, t, s, k, e, sd, r)
BY DEF Sound, RecordedIn, OwnCommit

LEMMA PushKeepsAll ==
    ASSUME Inductive, NEW m \in Machines, NEW success, NEW failure,
           PushTo(m, success, failure), WorkerKeeps, UNCHANGED <<stamp, edited>>,
           \A r : /\ Sound(m, checkout[m], success, stamp[m], linked[m], edited[m], seed[m], r)
                  /\ Sound(m, checkout[m], failure, stamp[m], linked[m], edited[m], seed[m], r)
    PROVE  Inductive'
<1>1. /\ stamp = [stamp EXCEPT ![m] = stamp[m]] /\ remote \in Seq(Commit)
      /\ checkout = [checkout EXCEPT ![m] = checkout[m]]
      /\ FastForwards(remote, remote) /\ used \in Counters
  BY Stays
<1>2. checkout \in [Machines -> Clone] /\ checkout[m] \in Clone /\ checkout[m].history \in Seq(Commit)
  <2>1. checkout \in [Machines -> Clone]
    BY DEF Inductive, TypeOK, Clone
  <2>2. checkout[m] \in Clone
    BY <2>1
  <2>3. checkout[m].history \in Seq(Commit)
    BY <2>2 DEF Clone
  <2>4. QED
    BY <2>1, <2>2, <2>3
<1>3. used' \in Counters
  BY <1>1, SpendKeeps DEF PushTo
<1>4. SettingsStep(m)
  BY SettingsStay DEF WorkerKeeps
<1>5. remote' \in Seq(Commit) /\ FastForwards(remote, remote')
  BY <1>1, <1>2 DEF PushTo, Accepted
<1>6. PICK d : d = [checkout[m] EXCEPT !.upstream = TRUE]
  OBVIOUS
<1>7. /\ d \in Clone /\ d.cloned = checkout[m].cloned /\ d.history = checkout[m].history
      /\ d.file = checkout[m].file
  BY <1>2, <1>6 DEF Clone
<1>8. UNCHANGED <<linked, edited, seed>> /\ stamp' = [stamp EXCEPT ![m] = stamp[m]]
  BY <1>1 DEF WorkerKeeps
<1>9. CASE checkout' = [checkout EXCEPT ![m].upstream = TRUE] /\ tick' = [tick EXCEPT ![m] = success]
  <2>1. checkout' = [checkout EXCEPT ![m] = d]
    BY <1>2, <1>6, <1>9
  <2>2. Sound(m, checkout[m], success, stamp[m], linked[m], edited[m], seed[m], remote')
    OBVIOUS
  <2>3. Sound(m, d, success, stamp[m], linked[m], edited[m], seed[m], remote')
    BY <1>7, <2>2, SameClone
  <2>4. WorkerStep(m)
    BY <1>5, <1>8, <1>9, <2>1, <2>3, WorkerIs
  <2>5. QED
    BY <1>3, <1>4, <2>4, StepKeeps
<1>10. CASE checkout' = checkout /\ tick' = [tick EXCEPT ![m] = failure]
  <2>1. checkout' = [checkout EXCEPT ![m] = checkout[m]]
    BY <1>1, <1>10
  <2>2. Sound(m, checkout[m], failure, stamp[m], linked[m], edited[m], seed[m], remote')
    OBVIOUS
  <2>3. WorkerStep(m)
    BY <1>5, <1>8, <1>10, <2>1, <2>2, WorkerIs
  <2>4. QED
    BY <1>3, <1>4, <2>3, StepKeeps
<1>11. QED
  BY <1>9, <1>10 DEF PushTo

LEMMA PushesKeep ==
    ASSUME Inductive, NEW m \in Machines, Push(m) \/ PushAgain(m)
    PROVE  Inductive'
<1>1. Sound(m, checkout[m], tick[m], stamp[m], linked[m], edited[m], seed[m], remote)
  BY Stays
<1>2. PICK w \in Worker : w = tick[m]
  BY WorkerTyped
<1>3. w.at \in {"push", "repush"} /\ WorkerKeeps /\ UNCHANGED <<stamp, edited>>
  BY <1>2 DEF Push, PushAgain
<1>4. /\ w.payload = None /\ w.result # "applied" /\ w.mine \in Content /\ checkout[m].cloned
      /\ w.current => linked[m]
      /\ w.mine \in ContentsOf(checkout[m].history)
      /\ w.at = "push" => OwnCommit(m, checkout[m], w)
      /\ ~edited[m].uncommitted => RecordedIn(checkout[m], w, stamp[m], seed[m])
      /\ edited[m] \in Marks /\ linked[m] \in BOOLEAN /\ checkout[m] \in Clone
      /\ stamp[m] \in Content \cup {None} /\ seed[m] \in Content \cup {None}
  BY <1>1, <1>2, <1>3 DEF Sound
<1>5. ASSUME NEW t \in Worker, t.mine = w.mine, t.payload = None, t.current = w.current,
             \/ t.at = "stamp" /\ t.result = "pushed"
             \/ t.at = "done" /\ t.result = "failed"
             \/ w.at = "push" /\ t.at = "retry" /\ t.read = w.read /\ t.result = w.result,
             NEW r
      PROVE  Sound(m, checkout[m], t, stamp[m], linked[m], edited[m], seed[m], r)
  <2>1. ~edited[m].uncommitted => RecordedIn(checkout[m], t, stamp[m], seed[m])
    BY <1>4, <1>5 DEF RecordedIn
  <2>2. t.at = "retry" => OwnCommit(m, checkout[m], t)
    BY <1>4, <1>5 DEF OwnCommit
  <2>3. QED
    BY <1>4, <1>5, <2>1, <2>2 DEF Sound
<1>6. PICK pushed, again, ended : /\ pushed = Stamping(w) /\ again = [w EXCEPT !.at = "retry"]
                                  /\ ended = Ended(w, "failed")
  OBVIOUS
<1>7. /\ pushed \in Worker /\ pushed.at = "stamp" /\ pushed.result = "pushed"
      /\ pushed.mine = w.mine /\ pushed.payload = w.payload /\ pushed.current = w.current
  BY <1>6 DEF Stamping, Worker, Stages, Results
<1>8. /\ again \in Worker /\ again.at = "retry" /\ again.result = w.result /\ again.read = w.read
      /\ again.mine = w.mine /\ again.payload = w.payload /\ again.current = w.current
  BY <1>6 DEF Worker, Stages, Results
<1>9. /\ ended \in Worker /\ ended.at = "done" /\ ended.result = "failed"
      /\ ended.mine = w.mine /\ ended.payload = w.payload /\ ended.current = w.current
  BY <1>6 DEF Ended, Worker, Stages, Results
<1>10. ASSUME NEW r
       PROVE  /\ Sound(m, checkout[m], pushed, stamp[m], linked[m], edited[m], seed[m], r)
              /\ Sound(m, checkout[m], ended, stamp[m], linked[m], edited[m], seed[m], r)
              /\ w.at = "push" => Sound(m, checkout[m], again, stamp[m], linked[m], edited[m], seed[m], r)
  BY <1>4, <1>5, <1>7, <1>8, <1>9
<1>11. CASE Push(m)
  <2>1. w.at = "push" /\ PushTo(m, pushed, again)
    BY <1>2, <1>6, <1>11 DEF Push
  <2>2. QED
    BY <1>3, <1>10, <2>1, PushKeepsAll
<1>12. CASE PushAgain(m)
  <2>1. PushTo(m, pushed, ended)
    BY <1>2, <1>6, <1>12 DEF PushAgain
  <2>2. QED
    BY <1>3, <1>10, <2>1, PushKeepsAll
<1>13. QED
  BY <1>11, <1>12

LEMMA Unseen ==
    ASSUME Inductive, NEW m \in Machines
    PROVE  \E e \in Marks : /\ [edited EXCEPT ![m].seen = FALSE] = [edited EXCEPT ![m] = e]
                            /\ e.uncommitted = edited[m].uncommitted
<1>1. edited \in [Machines -> Marks]
  BY DEF Inductive, TypeOK, Marks
<1>2. PICK e : e = [edited[m] EXCEPT !.seen = FALSE]
  OBVIOUS
<1>3. e \in Marks /\ e.uncommitted = edited[m].uncommitted
  <2>1. edited[m] \in Marks
    BY <1>1
  <2>2. QED
    BY <1>2, <2>1 DEF Marks
<1>4. [edited EXCEPT ![m].seen = FALSE] = [edited EXCEPT ![m] = e]
  BY <1>1, <1>2
<1>5. QED
  BY <1>3, <1>4

LEMMA ReportKeeps ==
    ASSUME Inductive, NEW m \in Machines, Report(m)
    PROVE  Inductive'
<1>1. /\ Sound(m, checkout[m], tick[m], stamp[m], linked[m], edited[m], seed[m], remote)
      /\ edited = [edited EXCEPT ![m] = edited[m]] /\ used \in Counters
  BY Stays
<1>2. /\ tick' = [tick EXCEPT ![m] = Idle]
      /\ UNCHANGED <<remote, checkout, local, disk, stamp, linked, used, granted, seed>>
  BY DEF Report, Release
<1>3. PICK e \in Marks : edited' = [edited EXCEPT ![m] = e] /\ e.uncommitted = edited[m].uncommitted
  <2>1. CASE edited' = edited
    <3>1. edited[m] \in Marks
      BY <1>1 DEF Sound
    <3>2. QED
      BY <1>1, <2>1, <3>1
  <2>2. CASE edited' = [edited EXCEPT ![m].seen = FALSE]
    BY <2>2, Unseen
  <2>3. QED
    BY <2>1, <2>2 DEF Report, Settled
<1>4. Sound(m, checkout[m], tick[m], stamp[m], linked[m], e, seed[m], remote)
  BY <1>1, <1>3, SameMarks
<1>5. Sound(m, checkout[m], Idle, stamp[m], linked[m], e, seed[m], remote)
  BY <1>4, IdleIsSound
<1>6. WorkerStep(m)
  BY <1>2, <1>3, <1>5, MarksAre
<1>7. SettingsStep(m)
  BY <1>2, SettingsStay
<1>8. used' \in Counters
  BY <1>1, <1>2
<1>9. QED
  BY <1>6, <1>7, <1>8, StepKeeps

\* What a payload does to the settings of a machine
LEMMA AdoptedIs ==
    ASSUME Inductive, NEW m \in Machines, Applying(m)
    PROVE  /\ tick[m].payload \in Content
           /\ Preferred(m) \in Content /\ Preferred(m).connections = local[m].connections
           /\ Adopted(m) \in Content
           /\ GrownFrom(Adopted(m).connections, local[m].connections)
           /\ local[m].connections \in Seq(Connection)
<1>1. /\ Sound(m, checkout[m], tick[m], stamp[m], linked[m], edited[m], seed[m], remote)
      /\ local[m] \in Content /\ Authorised(local[m], disk[m], granted[m])
  BY Stays
<1>2. tick[m].payload \in Content
  BY <1>1 DEF Sound, Worker, Applying
<1>3. PICK p \in Content : p = tick[m].payload
  BY <1>2
<1>4. PICK l \in Content : l = local[m]
  BY <1>1
<1>5. PICK q : q = Preferred(m)
  OBVIOUS
<1>6. q = [l EXCEPT !.theme = p.theme, !.agents = IF p.agents = None THEN l.agents ELSE p.agents]
  BY <1>3, <1>4, <1>5 DEF Preferred, WithPreferences, Content
<1>7. q \in Content /\ q.connections = l.connections
  BY <1>6 DEF Content
<1>8. PICK list : list = Merge(l.connections, p.connections)
  OBVIOUS
<1>9. GrownFrom(list, l.connections)
  <2>1. Unique(l.connections)
    BY <1>1, <1>4 DEF Authorised
  <2>2. l.connections \in Seq(Connection) /\ p.connections \in Seq(Connection)
    BY DEF Content
  <2>3. QED
    BY <1>8, <2>1, <2>2, MergeGrows
<1>10. PICK a : a = Adopted(m)
  OBVIOUS
<1>11. a = [q EXCEPT !.connections = list]
  BY <1>3, <1>5, <1>7, <1>8, <1>10 DEF Adopted, WithConnections
<1>12. a \in Content /\ a.connections = list
  BY <1>7, <1>9, <1>11 DEF Content, GrownFrom
<1>13. l.connections \in Seq(Connection)
  BY DEF Content
<1>14. QED
  BY <1>2, <1>4, <1>5, <1>7, <1>9, <1>10, <1>12, <1>13

\* What has grown out of a list opens nothing.
LEMMA GrownIsAuthorised ==
    ASSUME NEW l \in Content, NEW d, NEW g, NEW a, Authorised(l, d, g),
           GrownFrom(a.connections, l.connections)
    PROVE  Authorised(a, d, g) /\ Authorised(a, a, g)
<1>1. PICK old, new : old = l.connections /\ new = a.connections
  OBVIOUS
<1>2. old \in Seq(Connection) /\ Len(old) \in Nat /\ DOMAIN old = 1..Len(old)
  BY <1>1 DEF Content
<1>3. new \in Seq(Connection) /\ Len(new) \in Nat /\ DOMAIN new = 1..Len(new) /\ Len(old) <= Len(new)
  BY <1>1 DEF GrownFrom
<1>4. Unique(new)
  BY <1>1 DEF GrownFrom
<1>5. ASSUME NEW i \in DOMAIN new, new[i].trust = "open"
      PROVE  <<new[i].name, new[i].endpoint>> \in g
  <2>1. i \in DOMAIN old
    BY <1>1, <1>2, <1>3, <1>5 DEF GrownFrom
  <2>2. /\ new[i].name = old[i].name /\ new[i].endpoint = old[i].endpoint
        /\ new[i].trust = old[i].trust
    BY <1>1, <2>1 DEF GrownFrom
  <2>3. \A j \in DOMAIN old : old[j].trust = "open" => <<old[j].name, old[j].endpoint>> \in g
    BY <1>1 DEF Authorised
  <2>4. QED
    BY <1>5, <2>1, <2>2, <2>3
<1>6. QED
  BY <1>1, <1>4, <1>5 DEF Authorised

LEMMA ApplyKeeps ==
    ASSUME Inductive, NEW m \in Machines, Apply(m)
    PROVE  Inductive'
<1>1. /\ Sound(m, checkout[m], tick[m], stamp[m], linked[m], edited[m], seed[m], remote)
      /\ granted = [granted EXCEPT ![m] = granted[m]] /\ granted[m] \subseteq Names \X Endpoints
      /\ checkout = [checkout EXCEPT ![m] = checkout[m]] /\ linked = [linked EXCEPT ![m] = linked[m]]
      /\ seed = [seed EXCEPT ![m] = seed[m]] /\ local[m] \in Content
      /\ Authorised(local[m], disk[m], granted[m])
      /\ remote \in Seq(Commit) /\ FastForwards(remote, remote) /\ used \in Counters
  BY Stays
<1>2. /\ Applying(m) /\ local' = [local EXCEPT ![m] = Adopted(m)] /\ disk' = [disk EXCEPT ![m] = Adopted(m)]
      /\ stamp' = [stamp EXCEPT ![m] = tick[m].payload]
      /\ tick' = [tick EXCEPT ![m] = Idle] /\ edited' = [edited EXCEPT ![m].seen = FALSE]
      /\ UNCHANGED <<remote, checkout, linked, used, granted, seed>>
  BY DEF Apply, Release, Settled
<1>3. /\ tick[m].payload \in Content /\ Adopted(m) \in Content
      /\ GrownFrom(Adopted(m).connections, local[m].connections)
  BY <1>2, AdoptedIs
<1>4. Authorised(Adopted(m), Adopted(m), granted[m])
  BY <1>1, <1>3, GrownIsAuthorised
<1>5. SettingsStep(m)
  <2>1. PICK l, g : l = Adopted(m) /\ g = granted[m]
    OBVIOUS
  <2>2. /\ local' = [local EXCEPT ![m] = l] /\ disk' = [disk EXCEPT ![m] = l]
        /\ granted' = [granted EXCEPT ![m] = g] /\ Authorised(l, l, g)
        /\ l \in Content /\ g \in SUBSET (Names \X Endpoints)
    BY <1>1, <1>2, <1>3, <1>4, <2>1
  <2>3. QED
    BY <2>2 DEF SettingsStep
<1>6. PICK e \in Marks : edited' = [edited EXCEPT ![m] = e] /\ e.uncommitted = edited[m].uncommitted
  BY <1>2, Unseen
<1>7. Sound(m, checkout[m], Idle, tick[m].payload, linked[m], e, seed[m], remote)
  <2>1. tick[m].at = "done" /\ tick[m].result = "applied"
    BY <1>2 DEF Applying
  <2>2. checkout[m].cloned
    BY <1>1, <2>1 DEF Sound
  <2>3. Sound(m, checkout[m], Idle, stamp[m], linked[m], e, seed[m], remote)
    BY <1>1, <1>6, SameMarks, IdleIsSound
  <2>4. ~e.uncommitted => RecordedIn(checkout[m], Idle, tick[m].payload, seed[m])
    BY <1>1, <1>6, <2>1, RecordsAre DEF Sound, RecordedIn
  <2>5. QED
    BY <1>3, <2>2, <2>3, <2>4 DEF Sound
<1>8. WorkerStep(m)
  <2>1. PICK c, s, k, sd, t : c = checkout[m] /\ s = tick[m].payload /\ k = linked[m] /\ sd = seed[m] /\ t = Idle
    OBVIOUS
  <2>2. /\ checkout' = [checkout EXCEPT ![m] = c] /\ stamp' = [stamp EXCEPT ![m] = s]
        /\ linked' = [linked EXCEPT ![m] = k] /\ seed' = [seed EXCEPT ![m] = sd]
        /\ tick' = [tick EXCEPT ![m] = t]
        /\ Sound(m, c, t, s, k, e, sd, remote')
        /\ remote' \in Seq(Commit) /\ FastForwards(remote, remote')
    BY <1>1, <1>2, <1>7, <2>1
  <2>3. QED
    BY <1>6, <2>2 DEF WorkerStep
<1>9. used' \in Counters
  BY <1>1, <1>2
<1>10. QED
  BY <1>5, <1>8, <1>9, StepKeeps

-----------------------------------------------------------------------------
(* Failures and relaunches; the invariant *)

LEMMA ApplyUnsavedKeeps ==
    ASSUME Inductive, NEW m \in Machines, ApplyUnsaved(m)
    PROVE  Inductive'
<1>1. /\ Sound(m, checkout[m], tick[m], stamp[m], linked[m], edited[m], seed[m], remote)
      /\ granted = [granted EXCEPT ![m] = granted[m]] /\ granted[m] \subseteq Names \X Endpoints
      /\ disk = [disk EXCEPT ![m] = disk[m]] /\ disk[m] \in Content
      /\ edited = [edited EXCEPT ![m] = edited[m]]
      /\ Authorised(local[m], disk[m], granted[m])
  BY Stays
<1>2. /\ Applying(m) /\ local' = [local EXCEPT ![m] = Preferred(m)]
      /\ tick' = [tick EXCEPT ![m] = Idle]
      /\ UNCHANGED <<remote, checkout, disk, stamp, linked, edited, granted, seed>>
  BY DEF ApplyUnsaved, Release
<1>3. Preferred(m) \in Content /\ Preferred(m).connections = local[m].connections
  BY <1>2, AdoptedIs
<1>4. Authorised(Preferred(m), disk[m], granted[m])
  BY <1>1, <1>3 DEF Authorised
<1>5. SettingsStep(m)
  <2>1. PICK l, d, g : l = Preferred(m) /\ d = disk[m] /\ g = granted[m]
    OBVIOUS
  <2>2. /\ local' = [local EXCEPT ![m] = l] /\ disk' = [disk EXCEPT ![m] = d]
        /\ granted' = [granted EXCEPT ![m] = g] /\ Authorised(l, d, g)
        /\ l \in Content /\ d \in Content /\ g \in SUBSET (Names \X Endpoints)
    BY <1>1, <1>2, <1>3, <1>4, <2>1
  <2>3. QED
    BY <2>2 DEF SettingsStep
<1>6. WorkerStep(m)
  <2>1. Sound(m, checkout[m], Idle, stamp[m], linked[m], edited[m], seed[m], remote)
    BY <1>1, IdleIsSound
  <2>2. QED
    BY <1>1, <1>2, <2>1, MarksAre
<1>7. used' \in Counters
  BY SpendKeeps DEF ApplyUnsaved
<1>8. QED
  BY <1>5, <1>6, <1>7, StepKeeps

\* Settings with the preferences of others, as they are written to settings.json
LEMMA HalfSavedIs ==
    ASSUME NEW d \in Content, NEW p \in Content
    PROVE  /\ [d EXCEPT !.theme = p.theme, !.agents = p.agents] \in Content
           /\ [d EXCEPT !.theme = p.theme, !.agents = p.agents].connections = d.connections
BY DEF Content

LEMMA ApplyHalfSavedKeeps ==
    ASSUME Inductive, NEW m \in Machines, ApplyHalfSaved(m)
    PROVE  Inductive'
<1>1. /\ Sound(m, checkout[m], tick[m], stamp[m], linked[m], edited[m], seed[m], remote)
      /\ granted = [granted EXCEPT ![m] = granted[m]] /\ granted[m] \subseteq Names \X Endpoints
      /\ disk[m] \in Content /\ local[m] \in Content
      /\ edited = [edited EXCEPT ![m] = edited[m]]
      /\ Authorised(local[m], disk[m], granted[m])
  BY Stays
<1>2. /\ Applying(m) /\ local' = [local EXCEPT ![m] = Adopted(m)]
      /\ disk' = [disk EXCEPT ![m].theme = Preferred(m).theme, ![m].agents = Preferred(m).agents]
      /\ tick' = [tick EXCEPT ![m] = Idle]
      /\ UNCHANGED <<remote, checkout, stamp, linked, edited, granted, seed>>
  BY DEF ApplyHalfSaved, Release
<1>3. /\ Preferred(m) \in Content /\ Adopted(m) \in Content
      /\ GrownFrom(Adopted(m).connections, local[m].connections)
  BY <1>2, AdoptedIs
<1>4. PICK d : d = [disk[m] EXCEPT !.theme = Preferred(m).theme, !.agents = Preferred(m).agents]
  OBVIOUS
<1>5. d \in Content /\ d.connections = disk[m].connections
  BY <1>1, <1>3, <1>4, HalfSavedIs
<1>6. disk' = [disk EXCEPT ![m] = d]
  <2>1. disk \in [Machines -> Content]
    BY DEF Inductive, TypeOK
  <2>2. QED
    BY <1>2, <1>4, <2>1
<1>7. Authorised(Adopted(m), d, granted[m])
  <2>1. Authorised(Adopted(m), disk[m], granted[m])
    BY <1>1, <1>3, GrownIsAuthorised
  <2>2. QED
    BY <1>5, <2>1 DEF Authorised
<1>8. SettingsStep(m)
  <2>1. PICK l, g : l = Adopted(m) /\ g = granted[m]
    OBVIOUS
  <2>2. /\ local' = [local EXCEPT ![m] = l]
        /\ granted' = [granted EXCEPT ![m] = g] /\ Authorised(l, d, g)
        /\ l \in Content /\ g \in SUBSET (Names \X Endpoints)
    BY <1>1, <1>2, <1>3, <1>7, <2>1
  <2>3. QED
    BY <1>5, <1>6, <2>2 DEF SettingsStep
<1>9. WorkerStep(m)
  <2>1. Sound(m, checkout[m], Idle, stamp[m], linked[m], edited[m], seed[m], remote)
    BY <1>1, IdleIsSound
  <2>2. QED
    BY <1>1, <1>2, <2>1, MarksAre
<1>10. used' \in Counters
  BY SpendKeeps DEF ApplyHalfSaved
<1>11. QED
  BY <1>8, <1>9, <1>10, StepKeeps

LEMMA RelaunchKeeps ==
    ASSUME Inductive, NEW m \in Machines, Relaunch(m)
    PROVE  Inductive'
<1>1. /\ Sound(m, checkout[m], tick[m], stamp[m], linked[m], edited[m], seed[m], remote)
      /\ granted = [granted EXCEPT ![m] = granted[m]] /\ granted[m] \subseteq Names \X Endpoints
      /\ disk[m] \in Content /\ local[m] \in Content
      /\ Authorised(local[m], disk[m], granted[m])
  BY Stays
<1>2. PICK found \in OnDisk(m) :
          /\ local' = [local EXCEPT ![m] = found]
          /\ disk' = [disk EXCEPT ![m] = found]
          /\ tick' = [tick EXCEPT ![m] = IF linked[m] /\ Room(m) THEN Started(found) ELSE Idle]
  BY DEF Relaunch
<1>3. /\ edited' = [edited EXCEPT ![m].seen = @ \/ edited[m].unseen, ![m].unseen = FALSE]
      /\ UNCHANGED <<remote, checkout, stamp, linked, granted, seed>>
  BY DEF Relaunch
<1>4. Authorised(disk[m], disk[m], granted[m])
  BY <1>1 DEF Authorised
<1>5. found \in Content /\ Authorised(found, found, granted[m])
  <2>1. CASE found = disk[m]
    BY <1>1, <1>4, <2>1
  <2>2. CASE Applying(m) /\ found = [disk[m] EXCEPT !.theme = Preferred(m).theme, !.agents = Preferred(m).agents]
    <3>1. Preferred(m) \in Content
      BY <2>2, AdoptedIs
    <3>2. found \in Content /\ found.connections = disk[m].connections
      BY <1>1, <2>2, <3>1, HalfSavedIs
    <3>3. QED
      BY <1>4, <3>2 DEF Authorised
  <2>3. CASE Applying(m) /\ found = Adopted(m)
    <3>1. Adopted(m) \in Content /\ GrownFrom(Adopted(m).connections, local[m].connections)
      BY <2>3, AdoptedIs
    <3>2. QED
      BY <1>1, <2>3, <3>1, GrownIsAuthorised
  <2>4. QED
    BY <2>1, <2>2, <2>3 DEF OnDisk
<1>6. SettingsStep(m)
  <2>1. PICK g : g = granted[m]
    OBVIOUS
  <2>2. granted' = [granted EXCEPT ![m] = g] /\ Authorised(found, found, g) /\ g \in SUBSET (Names \X Endpoints)
    BY <1>1, <1>3, <1>5, <2>1
  <2>3. QED
    BY <1>2, <1>5, <2>2 DEF SettingsStep
<1>7. PICK e \in Marks : edited' = [edited EXCEPT ![m] = e] /\ e.uncommitted = edited[m].uncommitted
  <2>1. edited \in [Machines -> Marks] /\ edited[m] \in Marks
    <3>1. edited \in [Machines -> Marks]
      BY DEF Inductive, TypeOK, Marks
    <3>2. QED
      BY <3>1
  <2>2. PICK seen : seen \in BOOLEAN /\ seen = (edited[m].seen \/ edited[m].unseen)
    BY Zenon
  <2>3. PICK old : old = edited[m]
    OBVIOUS
  <2>4. edited' = [edited EXCEPT ![m].seen = seen, ![m].unseen = FALSE]
    BY <1>3, <2>1, <2>2
  <2>5. PICK e : e = [old EXCEPT !.seen = seen, !.unseen = FALSE]
    OBVIOUS
  <2>6. e \in Marks /\ e.uncommitted = old.uncommitted
    BY <2>1, <2>2, <2>3, <2>5 DEF Marks
  <2>7. edited' = [edited EXCEPT ![m] = e]
    BY <2>1, <2>3, <2>4, <2>5
  <2>8. QED
    BY <2>3, <2>6, <2>7
<1>8. Sound(m, checkout[m], tick[m], stamp[m], linked[m], e, seed[m], remote)
  BY <1>1, <1>7, SameMarks
<1>9. PICK t : tick' = [tick EXCEPT ![m] = t] /\ Sound(m, checkout[m], t, stamp[m], linked[m], e, seed[m], remote)
  <2>1. CASE linked[m] /\ Room(m)
    BY <1>2, <1>5, <1>8, <2>1, StartedIsSound
  <2>2. CASE ~(linked[m] /\ Room(m))
    BY <1>2, <1>8, <2>2, IdleIsSound
  <2>3. QED
    BY <2>1, <2>2
<1>10. WorkerStep(m)
  BY <1>3, <1>7, <1>9, MarksAre
<1>11. used' \in Counters
  BY SpendKeeps DEF Relaunch
<1>12. QED
  BY <1>6, <1>10, <1>11, StepKeeps

LEMMA NextKeeps ==
    ASSUME Inductive, [Next]_vars
    PROVE  Inductive'
<1>1. CASE UNCHANGED vars
  <2>1. TypeOK'
    BY <1>1 DEF Inductive, TypeOK, vars
  <2>2. ASSUME NEW n \in Machines
        PROVE  /\ Authorised(local[n], disk[n], granted[n])'
               /\ Sound(n, checkout[n], tick[n], stamp[n], linked[n], edited[n], seed[n], remote)'
    <3>1. /\ Authorised(local[n], disk[n], granted[n])
          /\ Sound(n, checkout[n], tick[n], stamp[n], linked[n], edited[n], seed[n], remote)
      BY DEF Inductive
    <3>2. QED
      BY <1>1, <3>1 DEF vars
  <2>3. QED
    BY <2>1, <2>2 DEF Inductive
<1>2. ASSUME NEW m \in Machines, ByUser(m) PROVE Inductive'
  <2>1. CASE EditPreferences(m)
    BY <2>1, EditPreferencesKeeps
  <2>2. CASE SaveNewConnection(m)
    BY <2>2, SaveNewKeeps
  <2>3. CASE SaveConnection(m)
    BY <2>3, SaveKeeps
  <2>4. CASE DeleteConnection(m)
    BY <2>4, DeleteKeeps
  <2>5. CASE EnableFirst(m)
    BY <2>5, EnableFirstKeeps
  <2>6. CASE EnableAgain(m)
    BY <2>6, EnableAgainKeeps
  <2>7. CASE Disable(m)
    BY <2>7, DisableKeeps
  <2>8. QED
    BY <1>2, <2>1, <2>2, <2>3, <2>4, <2>5, <2>6, <2>7 DEF ByUser
<1>3. ASSUME NEW m \in Machines, ByWorker(m) PROVE Inductive'
  <2>1. CASE Cloned(m)
    BY <2>1, ClonedKeeps
  <2>2. CASE Pull(m)
    BY <2>2, PullKeeps
  <2>3. CASE Decide(m)
    BY <2>3, DecideKeeps
  <2>4. CASE CommitPayload(m)
    BY <2>4, CommitPayloadKeeps
  <2>5. CASE Push(m) \/ PushAgain(m)
    BY <2>5, PushesKeep
  <2>6. CASE PullAgain(m)
    BY <2>6, PullAgainKeeps
  <2>7. CASE SaveStamp(m)
    BY <2>7, SaveStampKeeps
  <2>8. QED
    BY <1>3, <2>1, <2>2, <2>3, <2>4, <2>5, <2>6, <2>7 DEF ByWorker
<1>4. ASSUME NEW m \in Machines, ByApp(m) PROVE Inductive'
  <2>1. CASE Report(m)
    BY <2>1, ReportKeeps
  <2>2. CASE Apply(m)
    BY <2>2, ApplyKeeps
  <2>3. CASE ApplyUnsaved(m)
    BY <2>3, ApplyUnsavedKeeps
  <2>4. CASE ApplyHalfSaved(m)
    BY <2>4, ApplyHalfSavedKeeps
  <2>5. QED
    BY <1>4, <2>1, <2>2, <2>3, <2>4 DEF ByApp
<1>5. QED
  BY <1>1, <1>2, <1>3, <1>4, TriggerKeeps, CloneFailsKeeps, RelaunchKeeps DEF Next

LEMMA InitHolds ==
    ASSUME Init
    PROVE  Inductive
<1>1. /\ remote \in Seq(Commit) /\ Initial \in [Machines -> Content]
      /\ \A m \in Machines : Unique(Initial[m].connections)
  BY SyncAssumption DEF Init
<1>2. /\ checkout = [m \in Machines |-> NoClone] /\ local = Initial /\ disk = Initial
      /\ stamp = [m \in Machines |-> None] /\ linked = [m \in Machines |-> FALSE]
      /\ tick = [m \in Machines |-> Idle]
      /\ used = [edits |-> 0, faults |-> 0, toggles |-> 0]
      /\ seed = [m \in Machines |-> None]
  BY DEF Init
<1>3. PICK fresh : fresh = [seen |-> FALSE, unseen |-> FALSE, uncommitted |-> FALSE]
  OBVIOUS
<1>4. fresh \in Marks /\ edited = [m \in Machines |-> fresh] /\ fresh.uncommitted = FALSE
  BY <1>3 DEF Init, Marks
<1>5. NoClone \in Clone /\ NoClone.cloned = FALSE /\ NoClone.history = <<>> /\ NoClone.file = None
  BY DEF NoClone, Clone
<1>6. /\ checkout \in [Machines -> Clone] /\ tick \in [Machines -> Worker] /\ edited \in [Machines -> Marks]
      /\ stamp \in [Machines -> Content \cup {None}] /\ seed \in [Machines -> Content \cup {None}]
      /\ linked \in [Machines -> BOOLEAN] /\ local \in [Machines -> Content] /\ disk \in [Machines -> Content]
  BY <1>1, <1>2, <1>4, <1>5, RecordsAre
<1>7. used \in Counters
  BY <1>2 DEF Counters
<1>8. \A m \in Machines : DOMAIN Initial[m].connections = 1..Len(Initial[m].connections)
                          /\ Initial[m].connections \in Seq(Connection)
  BY <1>1 DEF Content
<1>9. ASSUME NEW m \in Machines
      PROVE  granted[m] = {<<c.name, c.endpoint>> : c \in {d \in Range(Initial[m].connections) : d.trust = "open"}}
  BY DEF Init
<1>10. granted \in [Machines -> SUBSET (Names \X Endpoints)]
  <2>1. DOMAIN granted = Machines /\ granted = [m \in Machines |-> granted[m]]
    BY DEF Init
  <2>2. ASSUME NEW m \in Machines PROVE granted[m] \subseteq Names \X Endpoints
    <3>1. ASSUME NEW c \in Range(Initial[m].connections) PROVE c.name \in Names /\ c.endpoint \in Endpoints
      <4>1. PICK i \in DOMAIN Initial[m].connections : Initial[m].connections[i] = c
        BY DEF Range
      <4>2. c \in Connection
        BY <1>8, <4>1
      <4>3. QED
        BY <4>2 DEF Connection
    <3>2. ASSUME NEW x \in granted[m] PROVE x \in Names \X Endpoints
      <4>1. PICK c \in Range(Initial[m].connections) : x = <<c.name, c.endpoint>>
        BY <1>9
      <4>2. QED
        BY <3>1, <4>1
    <3>3. QED
      BY <3>2
  <2>3. QED
    BY <2>1, <2>2
<1>11. ASSUME NEW m \in Machines PROVE Authorised(local[m], disk[m], granted[m])
  <2>1. ASSUME NEW i \in DOMAIN Initial[m].connections, Initial[m].connections[i].trust = "open"
        PROVE  <<Initial[m].connections[i].name, Initial[m].connections[i].endpoint>> \in granted[m]
    <3>1. Initial[m].connections[i] \in Range(Initial[m].connections)
      BY DEF Range
    <3>2. QED
      BY <1>9, <2>1, <3>1
  <2>2. QED
    BY <1>1, <1>2, <2>1 DEF Authorised
<1>12. ASSUME NEW m \in Machines
       PROVE  Sound(m, checkout[m], tick[m], stamp[m], linked[m], edited[m], seed[m], remote)
  <2>1. /\ checkout[m] = NoClone /\ tick[m] = Idle /\ stamp[m] = None /\ linked[m] = FALSE
        /\ edited[m] = fresh /\ seed[m] = None
    BY <1>2, <1>4
  <2>2. NoClone.file = NewestContent(NoClone.history)
    BY <1>5 DEF NewestContent
  <2>3. RecordedIn(NoClone, Idle, None, None)
    BY <2>2, RecordsAre DEF RecordedIn
  <2>4. PICK k \in BOOLEAN : k = linked[m] /\ ~k
    BY <2>1
  <2>5. Sound(m, NoClone, Idle, None, k, fresh, None, remote)
    BY <1>4, <1>5, <2>3, <2>4, RecordsAre DEF Sound
  <2>6. QED
    BY <2>1, <2>4, <2>5
<1>13. \A m \in Machines : (tick[m].payload # None) <=> (tick[m].result = "applied")
  BY <1>2, RecordsAre
<1>14. TypeOK
  BY <1>1, <1>6, <1>7, <1>10, <1>13 DEF TypeOK, Clone, Worker, Marks, Counters
<1>15. QED
  BY <1>11, <1>12, <1>14 DEF Inductive

\* Every reachable state of the machines and the repository: what the worker of
\* each machine may rely on at each of its steps, whatever its user, the app
\* thread and the other machines do in between (run_sync_tick).
THEOREM Invariance == Spec => []Inductive
<1>1. Init => Inductive
  BY InitHolds
<1>2. Inductive /\ [Next]_vars => Inductive'
  BY NextKeeps
<1>3. QED
  BY <1>1, <1>2, PTL DEF Spec

\* Settings, clones, stamps and workers stay within their types; a tick carries a
\* payload exactly when it ends in applying one (the expect calls of
\* run_sync_tick and settings_sync_apply).
THEOREM TypeCorrect == Spec => []TypeOK
<1>1. Inductive => TypeOK
  BY DEF Inductive
<1>2. QED
  BY <1>1, Invariance, PTL

\* No chain of pushes, merges, edits, deletions and relaunches opens a
\* connection that the machine's own user did not open with that endpoint under
\* that name: what merge_synced_connections brings in is locked, and what it
\* updates keeps its trust and its endpoint.
THEOREM AuthorityIsLocalHolds == Spec => []AuthorityIsLocal
<1>1. ASSUME Inductive PROVE AuthorityIsLocal
  <2>1. SUFFICES ASSUME NEW m \in Machines, NEW c \in Range(local[m].connections), c.trust = "open"
                 PROVE  <<c.name, c.endpoint>> \in granted[m]
    BY DEF AuthorityIsLocal
  <2>2. Authorised(local[m], disk[m], granted[m])
    BY <1>1 DEF Inductive
  <2>3. PICK i \in DOMAIN local[m].connections : local[m].connections[i] = c
    BY DEF Range
  <2>4. QED
    BY <2>1, <2>2, <2>3 DEF Authorised
<1>2. QED
  BY <1>1, Invariance, PTL

-----------------------------------------------------------------------------
(* What a worker started from, and what it says *)

\* With worker t, settings l, marks e and the repository's history r: unless the
\* user has edited since, or the machine has been disabled, what a worker has
\* compared is what the machine shows; "pushed" is said of what is in r.
Timely(t, l, e, r) ==
    /\ t.at \notin {"idle", "clone"} /\ t.current /\ ~e.unseen => l = t.mine
    /\ t.result = "pushed" => t.mine \in ContentsOf(r)

AllTimely == \A m \in Machines : Timely(tick[m], local[m], edited[m], remote)

\* A worker has not started, or starts, or goes on, perhaps after an edit.
TickMoves(m) ==
    \/ tick'[m].at \in {"idle", "clone"} /\ tick'[m].result = "none"
    \/ tick'[m] = Started(local'[m])
    \/ /\ tick'[m].mine = tick[m].mine
       /\ tick'[m].at \notin {"idle", "clone"} /\ tick'[m].current
            => tick[m].at \notin {"idle", "clone"} /\ tick[m].current
       /\ tick'[m].result = "pushed" => tick[m].result = "pushed" \/ tick[m].mine \in ContentsOf(remote')
       /\ edited'[m].unseen \/ (local'[m] = local[m] /\ (edited[m].unseen => edited'[m].unseen))

LEMMA TimelyStep ==
    ASSUME Inductive, AllTimely, NEW m \in Machines, TickMoves(m), local'[m] \in Content,
           remote' \in Seq(Commit), ContentsOf(remote) \subseteq ContentsOf(remote')
    PROVE  Timely(tick'[m], local'[m], edited'[m], remote')
<1>1. Timely(tick[m], local[m], edited[m], remote)
  BY DEF AllTimely
<1>2. CASE tick'[m].at \in {"idle", "clone"} /\ tick'[m].result = "none"
  BY <1>2 DEF Timely
<1>3. CASE tick'[m] = Started(local'[m])
  <2>1. Started(local'[m]).mine = local'[m] /\ Started(local'[m]).result = "none"
    BY RecordsAre
  <2>2. QED
    BY <1>3, <2>1 DEF Timely
<1>4. QED
  BY <1>1, <1>2, <1>3 DEF Timely, TickMoves

\* Nothing happens to the other machines.
Elsewhere(n) ==
    \A k \in Machines \ {n} : tick'[k] = tick[k] /\ local'[k] = local[k] /\ edited'[k] = edited[k]

\* A machine the step leaves alone, or one whose worker and marks are kept
LEMMA UntouchedMoves ==
    ASSUME NEW m \in Machines, tick'[m] = tick[m], local'[m] = local[m], edited'[m] = edited[m]
    PROVE  TickMoves(m)
BY DEF TickMoves

LEMMA MapsAre ==
    ASSUME Inductive
    PROVE  /\ tick \in [Machines -> Worker] /\ local \in [Machines -> Content]
           /\ edited \in [Machines -> Marks] /\ remote \in Seq(Commit)
           /\ checkout \in [Machines -> Clone]
BY DEF Inductive, TypeOK, Worker, Marks, Clone

LEMMA BeginMoves ==
    ASSUME Inductive, NEW n \in Machines, NEW l, NEW touched \in BOOLEAN, NEW isLinked \in BOOLEAN,
           BeginTick(n, l, isLinked, touched), local' = [local EXCEPT ![n] = l],
           touched \/ l = local[n]
    PROVE  TickMoves(n) /\ Elsewhere(n)
<1>1. tick \in [Machines -> Worker] /\ local \in [Machines -> Content] /\ edited \in [Machines -> Marks]
  BY MapsAre
<1>2. local'[n] = l /\ \A k \in Machines \ {n} : local'[k] = local[k]
  BY <1>1
<1>3. CASE isLinked /\ ~Busy(n) /\ Room(n)
  <2>1. tick' = [tick EXCEPT ![n] = Started(l)]
        /\ edited' = [edited EXCEPT ![n].seen = @ \/ edited[n].unseen \/ touched, ![n].unseen = FALSE]
    BY <1>3 DEF BeginTick
  <2>2. tick'[n] = Started(local'[n]) /\ \A k \in Machines \ {n} : tick'[k] = tick[k]
    BY <1>1, <1>2, <2>1
  <2>3. \A k \in Machines \ {n} : edited'[k] = edited[k]
    BY <1>1, <2>1
  <2>4. QED
    BY <1>2, <2>2, <2>3 DEF TickMoves, Elsewhere
<1>4. CASE ~(isLinked /\ ~Busy(n) /\ Room(n))
  <2>1. tick' = tick /\ edited' = [edited EXCEPT ![n].unseen = @ \/ touched]
    BY <1>4 DEF BeginTick
  <2>2. edited'[n].unseen = (edited[n].unseen \/ touched) /\ \A k \in Machines \ {n} : edited'[k] = edited[k]
    <3>1. PICK u \in BOOLEAN : u = (edited[n].unseen \/ touched)
      BY Zenon
    <3>2. edited' = [edited EXCEPT ![n].unseen = u]
      BY <1>1, <2>1, <3>1
    <3>3. edited'[n].unseen = u /\ \A k \in Machines \ {n} : edited'[k] = edited[k]
      BY <1>1, <3>2 DEF Marks
    <3>4. QED
      BY <3>1, <3>3
  <2>3. QED
    BY <1>2, <2>1, <2>2 DEF TickMoves, Elsewhere
<1>5. QED
  BY <1>3, <1>4

LEMMA EditMoves ==
    ASSUME Inductive, NEW n \in Machines, NEW new, NEW ticks \in BOOLEAN, Edit(n, new, ticks)
    PROVE  TickMoves(n) /\ Elsewhere(n)
<1>1. tick \in [Machines -> Worker] /\ local \in [Machines -> Content] /\ edited \in [Machines -> Marks]
      /\ linked[n] \in BOOLEAN
  BY MapsAre DEF Inductive, TypeOK
<1>2. local' = [local EXCEPT ![n] = new]
  BY DEF Edit
<1>3. CASE ticks
  BY <1>1, <1>2, <1>3, BeginMoves DEF Edit
<1>4. CASE ~ticks
  <2>1. tick' = tick /\ edited' = [edited EXCEPT ![n].unseen = TRUE]
    BY <1>4 DEF Edit
  <2>2. edited'[n].unseen = TRUE /\ \A k \in Machines \ {n} : edited'[k] = edited[k]
    BY <1>1, <2>1 DEF Marks
  <2>3. QED
    BY <1>1, <1>2, <2>1, <2>2 DEF TickMoves, Elsewhere
<1>5. QED
  BY <1>3, <1>4

LEMMA UserMoves ==
    ASSUME Inductive, NEW n \in Machines, ByUser(n) \/ Trigger(n)
    PROVE  TickMoves(n) /\ Elsewhere(n)
<1>1. tick \in [Machines -> Worker] /\ local \in [Machines -> Content] /\ edited \in [Machines -> Marks]
      /\ linked[n] \in BOOLEAN
  BY MapsAre DEF Inductive, TypeOK
<1>2. CASE EditPreferences(n) \/ SaveNewConnection(n) \/ SaveConnection(n) \/ DeleteConnection(n)
  <2>1. ASSUME NEW list, EditConnections(n, list) PROVE \E new : \E ticks \in BOOLEAN : Edit(n, new, ticks)
    BY <2>1 DEF EditConnections
  <2>2. CASE EditPreferences(n)
    <3>1. \E theme \in Themes, agents \in AgentLists \cup {None}, ticks \in BOOLEAN :
             /\ ticks => agents = local[n].agents
             /\ Edit(n, [local[n] EXCEPT !.theme = theme, !.agents = agents], ticks)
      BY <2>2, Zenon DEF EditPreferences
    <3>2. \E new : \E ticks \in BOOLEAN : Edit(n, new, ticks)
      BY <3>1
    <3>3. QED
      BY <3>2, EditMoves
  <2>3. CASE SaveNewConnection(n) \/ SaveConnection(n)
    BY <2>1, <2>3, EditMoves DEF SaveNewConnection, SaveConnection
  <2>4. CASE DeleteConnection(n)
    <3>1. \E list : EditConnections(n, list)
      BY <2>4, Zenon DEF DeleteConnection
    <3>2. QED
      BY <2>1, <3>1, EditMoves
  <2>5. QED
    BY <1>2, <2>2, <2>3, <2>4
<1>3. CASE Trigger(n)
  <2>1. local' = [local EXCEPT ![n] = local[n]]
    BY <1>1, <1>3 DEF Trigger
  <2>2. BeginTick(n, local[n], linked[n], FALSE)
    BY <1>3 DEF Trigger
  <2>3. QED
    BY <1>1, <2>1, <2>2, BeginMoves
<1>4. CASE EnableFirst(n)
  <2>1. tick' = [tick EXCEPT ![n] = [Idle EXCEPT !.at = "clone"]] /\ UNCHANGED <<local, edited>>
    BY <1>4 DEF EnableFirst
  <2>2. tick'[n].at = "clone" /\ tick'[n].result = "none"
    BY <1>1, <2>1 DEF Idle
  <2>3. QED
    BY <1>1, <2>1, <2>2 DEF TickMoves, Elsewhere
<1>5. CASE EnableAgain(n)
  <2>1. CASE Busy(n)
    <3>1. UNCHANGED <<tick, local, edited>>
      BY <1>5, <2>1 DEF EnableAgain
    <3>2. QED
      BY <3>1, UntouchedMoves DEF Elsewhere
  <2>2. CASE ~Busy(n)
    <3>1. tick' = [tick EXCEPT ![n] = Started(local[n])] /\ local' = local
          /\ edited' = [edited EXCEPT ![n].seen = FALSE, ![n].unseen = FALSE]
      BY <1>5, <2>2 DEF EnableAgain
    <3>2. QED
      BY <1>1, <3>1 DEF TickMoves, Elsewhere
  <2>3. QED
    BY <2>1, <2>2
<1>6. CASE Disable(n)
  <2>1. tick' = [tick EXCEPT ![n].current = ~Busy(n)] /\ UNCHANGED <<local, edited>>
    BY <1>6 DEF Disable
  <2>2. PICK b \in BOOLEAN : b = ~Busy(n)
    BY Zenon
  <2>3. tick' = [tick EXCEPT ![n] = [tick[n] EXCEPT !.current = b]]
    BY <1>1, <2>1, <2>2
  <2>4. /\ tick'[n].mine = tick[n].mine /\ tick'[n].result = tick[n].result
        /\ tick'[n].at = tick[n].at /\ tick'[n].current = b
    BY <1>1, <2>3 DEF Worker
  <2>5. tick[n].at \notin {"idle", "clone"} => ~b
    BY <2>2 DEF Busy
  <2>6. QED
    BY <1>1, <2>1, <2>3, <2>4, <2>5 DEF TickMoves, Elsewhere
<1>7. QED
  BY <1>2, <1>3, <1>4, <1>5, <1>6 DEF ByUser

\* A worker goes on to record t.
LEMMA GoingOnMoves ==
    ASSUME Inductive, NEW n \in Machines, NEW t, tick' = [tick EXCEPT ![n] = t],
           UNCHANGED local, \A k \in Machines : edited'[k].unseen = edited[k].unseen,
           \A k \in Machines \ {n} : edited'[k] = edited[k],
           t.mine = tick[n].mine, t.current = tick[n].current, tick[n].at \notin {"idle", "clone"},
           t.result = "pushed" => tick[n].result = "pushed" \/ tick[n].mine \in ContentsOf(remote')
    PROVE  TickMoves(n) /\ Elsewhere(n)
<1>1. tick \in [Machines -> Worker]
  BY MapsAre
<1>2. tick'[n] = t /\ \A k \in Machines \ {n} : tick'[k] = tick[k]
  BY <1>1
<1>3. QED
  BY <1>2 DEF TickMoves, Elsewhere

LEMMA PushesMove ==
    ASSUME Inductive, NEW n \in Machines, Push(n) \/ PushAgain(n)
    PROVE  TickMoves(n) /\ Elsewhere(n)
<1>1. tick \in [Machines -> Worker] /\ tick[n] \in Worker
  <2>1. tick \in [Machines -> Worker]
    BY MapsAre
  <2>2. QED
    BY <2>1
<1>2. tick[n].at \in {"push", "repush"} /\ UNCHANGED <<local, edited>>
  BY DEF Push, PushAgain, WorkerKeeps
<1>3. tick[n].mine \in ContentsOf(checkout[n].history)
  <2>1. Sound(n, checkout[n], tick[n], stamp[n], linked[n], edited[n], seed[n], remote)
    BY DEF Inductive
  <2>2. QED
    BY <1>2, <2>1 DEF Sound
<1>4. PICK s, f1, f2 : s = Stamping(tick[n]) /\ f1 = [tick[n] EXCEPT !.at = "retry"] /\ f2 = Ended(tick[n], "failed")
  OBVIOUS
<1>5. /\ s.mine = tick[n].mine /\ s.current = tick[n].current
      /\ f1.mine = tick[n].mine /\ f1.current = tick[n].current /\ f1.result = tick[n].result
      /\ f2.mine = tick[n].mine /\ f2.current = tick[n].current /\ f2.result = "failed"
  BY <1>1, <1>4 DEF Stamping, Ended, Worker
<1>6. PICK f \in {f1, f2} : PushTo(n, s, f)
  BY <1>4 DEF Push, PushAgain
<1>7. \/ tick' = [tick EXCEPT ![n] = s] /\ remote' = checkout[n].history
      \/ tick' = [tick EXCEPT ![n] = f]
  BY <1>6 DEF PushTo
<1>8. QED
  BY <1>2, <1>3, <1>5, <1>7, GoingOnMoves

LEMMA WorkerMoves ==
    ASSUME Inductive, NEW n \in Machines, ByWorker(n)
    PROVE  TickMoves(n) /\ Elsewhere(n)
<1>1. tick \in [Machines -> Worker] /\ tick[n] \in Worker /\ edited \in [Machines -> Marks]
  <2>1. tick \in [Machines -> Worker] /\ edited \in [Machines -> Marks]
    BY MapsAre
  <2>2. QED
    BY <2>1
<1>2. PICK w : w = tick[n]
  OBVIOUS
<1>3. CASE Cloned(n)
  <2>1. tick' = [tick EXCEPT ![n] = Started(local[n])] /\ local' = local
        /\ edited' = [edited EXCEPT ![n].seen = FALSE, ![n].unseen = FALSE]
    BY <1>3 DEF Cloned
  <2>2. QED
    BY <1>1, <2>1 DEF TickMoves, Elsewhere
<1>4. CASE Pull(n)
  <2>1. PICK o : tick' = [tick EXCEPT ![n] = [w EXCEPT !.at = "reconcile", !.online = o]]
    <3>1. \/ tick' = [tick EXCEPT ![n].at = "reconcile"]
          \/ tick' = [tick EXCEPT ![n].at = "reconcile", ![n].online = Pulled(checkout[n]).ok]
          \/ tick' = [tick EXCEPT ![n].at = "reconcile", ![n].online = FALSE]
      BY <1>4 DEF Pull
    <3>2. \E o : tick' = [tick EXCEPT ![n].at = "reconcile", ![n].online = o]
      <4>1. CASE tick' = [tick EXCEPT ![n].at = "reconcile"]
        <5>1. tick' = [tick EXCEPT ![n].at = "reconcile", ![n].online = w.online]
          BY <1>1, <1>2, <4>1 DEF Worker
        <5>2. QED
          BY <5>1
      <4>2. QED
        BY <3>1, <4>1
    <3>3. QED
      BY <1>1, <1>2, <3>2
  <2>2. PICK t : t = [w EXCEPT !.at = "reconcile", !.online = o]
    OBVIOUS
  <2>3. t.mine = w.mine /\ t.current = w.current /\ t.result = w.result
    BY <1>1, <1>2, <2>2 DEF Worker
  <2>4. tick[n].at = "pull" /\ UNCHANGED <<local, edited>>
    BY <1>4 DEF Pull, WorkerKeeps
  <2>5. QED
    BY <1>2, <2>1, <2>2, <2>3, <2>4, GoingOnMoves
<1>5. CASE Decide(n)
  <2>1. tick[n].at = "reconcile" /\ UNCHANGED <<local, edited>>
    BY <1>5 DEF Decide, WorkerKeeps
  <2>2. PICK read : read = [w EXCEPT !.read = Len(checkout[n].history)]
    OBVIOUS
  <2>3. read.mine = w.mine /\ read.current = w.current /\ read.result = w.result
        /\ DOMAIN read = {"at", "mine", "online", "payload", "read", "current", "result"}
    BY <1>1, <1>2, <2>2 DEF Worker
  <2>4. PICK t : /\ tick' = [tick EXCEPT ![n] = t]
                 /\ \/ \E r \in {"uptodate", "applied", "failed"} : t = Ended(read, r)
                    \/ t = [Ended(read, "applied") EXCEPT !.payload = checkout[n].file]
                    \/ t = [read EXCEPT !.at = "stamp", !.result = "uptodate"]
                    \/ t = [read EXCEPT !.at = "commit"]
    BY <1>2, <1>5, <2>2 DEF Decide
  <2>5. t.mine = w.mine /\ t.current = w.current /\ (t.result = "pushed" => w.result = "pushed")
    BY <2>3, <2>4 DEF Ended
  <2>6. QED
    BY <1>2, <2>1, <2>4, <2>5, GoingOnMoves
<1>6. CASE CommitPayload(n)
  <2>1. tick[n].at = "commit" /\ UNCHANGED local
    BY <1>6 DEF CommitPayload, WorkerKeeps
  <2>2. PICK t : tick' = [tick EXCEPT ![n] = t] /\ t \in {[w EXCEPT !.at = "push"], Ended(w, "failed")}
    <3>1. tick' = [tick EXCEPT ![n].at = "push"] \/ tick' = [tick EXCEPT ![n] = Ended(w, "failed")]
      BY <1>2, <1>6 DEF CommitPayload
    <3>2. QED
      BY <1>1, <1>2, <3>1
  <2>3. t.mine = w.mine /\ t.current = w.current /\ (t.result = "pushed" => w.result = "pushed")
    BY <1>1, <1>2, <2>2 DEF Ended, Worker
  <2>4. edited' = edited \/ edited' = [edited EXCEPT ![n].uncommitted = TRUE]
    BY <1>6 DEF CommitPayload
  <2>5. \A k \in Machines : edited'[k].unseen = edited[k].unseen /\ (k # n => edited'[k] = edited[k])
    BY <1>1, <2>4 DEF Marks
  <2>6. QED
    BY <1>2, <2>1, <2>2, <2>3, <2>5, GoingOnMoves
<1>7. CASE PullAgain(n)
  <2>1. tick[n].at = "retry" /\ UNCHANGED <<local, edited>>
    BY <1>7 DEF PullAgain, WorkerKeeps
  <2>2. PICK t : tick' = [tick EXCEPT ![n] = t] /\ t \in {[w EXCEPT !.at = "repush"], Ended(w, "failed")}
    BY <1>2, <1>7 DEF PullAgain
  <2>3. t.mine = w.mine /\ t.current = w.current /\ (t.result = "pushed" => w.result = "pushed")
    BY <1>1, <1>2, <2>2 DEF Ended, Worker
  <2>4. QED
    BY <1>2, <2>1, <2>2, <2>3, GoingOnMoves
<1>8. CASE SaveStamp(n)
  <2>1. tick[n].at = "stamp" /\ UNCHANGED <<local, edited>>
    BY <1>8 DEF SaveStamp, WorkerKeeps
  <2>2. PICK t : tick' = [tick EXCEPT ![n] = t] /\ t = Ended(w, w.result)
    BY <1>2, <1>8 DEF SaveStamp
  <2>3. t.mine = w.mine /\ t.current = w.current /\ t.result = w.result
    BY <1>1, <1>2, <2>2 DEF Ended, Worker
  <2>4. QED
    BY <1>2, <2>1, <2>2, <2>3, GoingOnMoves
<1>9. QED
  BY <1>3, <1>4, <1>5, <1>6, <1>7, <1>8, PushesMove DEF ByWorker

LEMMA AppMoves ==
    ASSUME Inductive, NEW n \in Machines, ByApp(n) \/ CloneFails(n) \/ Relaunch(n)
    PROVE  TickMoves(n) /\ Elsewhere(n)
<1>1. tick \in [Machines -> Worker] /\ local \in [Machines -> Content] /\ edited \in [Machines -> Marks]
  BY MapsAre
<1>2. CASE ByApp(n) \/ CloneFails(n)
  <2>1. tick' = [tick EXCEPT ![n] = Idle]
    BY <1>2 DEF ByApp, Report, Apply, ApplyUnsaved, ApplyHalfSaved, CloneFails, Release
  <2>2. edited' = edited \/ edited' = [edited EXCEPT ![n].seen = FALSE]
    BY <1>2 DEF ByApp, Report, Apply, ApplyUnsaved, ApplyHalfSaved, CloneFails, Settled
  <2>3. local' = local \/ \E l : local' = [local EXCEPT ![n] = l]
    BY <1>2 DEF ByApp, Report, Apply, ApplyUnsaved, ApplyHalfSaved, CloneFails
  <2>4. \A k \in Machines \ {n} : edited'[k] = edited[k]
    BY <1>1, <2>2
  <2>5. \A k \in Machines \ {n} : local'[k] = local[k]
    BY <1>1, <2>3
  <2>6. tick'[n] = Idle /\ \A k \in Machines \ {n} : tick'[k] = tick[k]
    BY <1>1, <2>1
  <2>7. QED
    BY <2>4, <2>5, <2>6, RecordsAre DEF TickMoves, Elsewhere
<1>3. CASE Relaunch(n)
  <2>1. PICK found : /\ local' = [local EXCEPT ![n] = found]
                     /\ tick' = [tick EXCEPT ![n] = IF linked[n] /\ Room(n) THEN Started(found) ELSE Idle]
    BY <1>3 DEF Relaunch
  <2>2. edited' = [edited EXCEPT ![n].seen = @ \/ edited[n].unseen, ![n].unseen = FALSE]
    BY <1>3 DEF Relaunch
  <2>3. \A k \in Machines \ {n} : edited'[k] = edited[k]
    BY <1>1, <2>2
  <2>4. local'[n] = found /\ \A k \in Machines \ {n} : local'[k] = local[k] /\ tick'[k] = tick[k]
    BY <1>1, <2>1
  <2>5. tick'[n] \in {Started(found), Idle}
    BY <1>1, <2>1
  <2>6. QED
    BY <2>3, <2>4, <2>5, RecordsAre DEF TickMoves, Elsewhere
<1>4. QED
  BY <1>2, <1>3

LEMMA AllMove ==
    ASSUME Inductive, [Next]_vars, NEW m \in Machines
    PROVE  TickMoves(m)
<1>1. CASE UNCHANGED vars
  BY <1>1, UntouchedMoves DEF vars
<1>2. CASE Next
  <2>1. PICK n \in Machines : ByUser(n) \/ Trigger(n) \/ ByWorker(n) \/ ByApp(n) \/ CloneFails(n) \/ Relaunch(n)
    BY <1>2 DEF Next
  <2>2. TickMoves(n) /\ Elsewhere(n)
    BY <2>1, UserMoves, WorkerMoves, AppMoves
  <2>3. CASE m # n
    BY <2>2, <2>3, UntouchedMoves DEF Elsewhere
  <2>4. QED
    BY <2>2, <2>3
<1>3. QED
  BY <1>1, <1>2

LEMMA RemoteMoves ==
    ASSUME Next, remote' # remote
    PROVE  \E n \in Machines : /\ tick[n].at \in {"push", "repush"} /\ Accepted(n)
                               /\ remote' = checkout[n].history
<1>1. PICK n \in Machines : ByUser(n) \/ Trigger(n) \/ ByWorker(n) \/ ByApp(n) \/ CloneFails(n) \/ Relaunch(n)
  BY DEF Next
<1>2. CASE Push(n) \/ PushAgain(n)
  <2>1. tick[n].at \in {"push", "repush"} /\ \E success, failure : PushTo(n, success, failure)
    BY <1>2 DEF Push, PushAgain
  <2>2. QED
    BY <2>1 DEF PushTo
<1>3. CASE EditPreferences(n) \/ SaveNewConnection(n) \/ SaveConnection(n) \/ DeleteConnection(n)
  BY <1>3 DEF EditPreferences, SaveNewConnection, SaveConnection, DeleteConnection, EditConnections, Edit
<1>4. CASE EnableFirst(n) \/ EnableAgain(n) \/ Disable(n) \/ Trigger(n) \/ CloneFails(n) \/ Cloned(n) \/ Relaunch(n)
  BY <1>4 DEF EnableFirst, EnableAgain, Disable, Trigger, CloneFails, Cloned, Relaunch
<1>5. CASE Pull(n) \/ Decide(n) \/ CommitPayload(n) \/ PullAgain(n) \/ SaveStamp(n)
  BY <1>5 DEF Pull, Decide, CommitPayload, PullAgain, SaveStamp
<1>6. CASE ByApp(n)
  BY <1>6 DEF ByApp, Report, Apply, ApplyUnsaved, ApplyHalfSaved
<1>7. QED
  BY <1>1, <1>2, <1>3, <1>4, <1>5, <1>6 DEF ByUser, ByWorker

LEMMA RemoteGrows ==
    ASSUME Inductive, [Next]_vars
    PROVE  ContentsOf(remote) \subseteq ContentsOf(remote')
<1>1. CASE remote' = remote
  BY <1>1
<1>2. CASE remote' # remote
  <2>1. PICK n \in Machines : Accepted(n) /\ remote' = checkout[n].history
    BY <1>2, RemoteMoves DEF vars
  <2>2. remote \in Seq(Commit) /\ remote' \in Seq(Commit)
    BY <2>1, MapsAre DEF Clone
  <2>3. QED
    BY <2>1, <2>2, ContentsGrow DEF Accepted
<1>3. QED
  BY <1>1, <1>2

LEMMA AllTimelyNext ==
    ASSUME Inductive, AllTimely, [Next]_vars
    PROVE  AllTimely'
<1>1. Inductive'
  BY NextKeeps
<1>2. ASSUME NEW m \in Machines PROVE Timely(tick'[m], local'[m], edited'[m], remote')
  <2>1. local'[m] \in Content /\ remote' \in Seq(Commit)
    BY <1>1 DEF Inductive, TypeOK
  <2>2. QED
    BY <2>1, AllMove, RemoteGrows, TimelyStep
<1>3. QED
  BY <1>2 DEF AllTimely

LEMMA AllTimelyHolds == Spec => []AllTimely
<1>1. Init => AllTimely
  <2>1. SUFFICES ASSUME Init, NEW m \in Machines PROVE Timely(tick[m], local[m], edited[m], remote)
    BY DEF AllTimely
  <2>2. tick[m] = Idle
    BY <2>1 DEF Init
  <2>3. QED
    BY <2>2, RecordsAre DEF Timely
<1>2. Inductive /\ AllTimely /\ [Next]_vars => AllTimely'
  BY AllTimelyNext
<1>3. QED
  BY <1>1, <1>2, Invariance, PTL DEF Spec

\* A tick about to replace the settings of a machine gives up nothing that is in
\* no history, unless a commit of that machine has failed (commit_paths after
\* write_payload) or its user has edited since the tick started: then the edit is
\* what settings_sync_apply overwrites.
THEOREM GivenUpIsInHistoryHolds == Spec => []GivenUpIsInHistory
<1>1. ASSUME Inductive, AllTimely PROVE GivenUpIsInHistory
  <2>1. SUFFICES ASSUME NEW m \in Machines, Applying(m), ~edited[m].uncommitted
                 PROVE  tick[m].mine \in Kept(m) /\ (local[m] \in Kept(m) \/ edited[m].unseen)
    BY DEF GivenUpIsInHistory
  <2>2. Sound(m, checkout[m], tick[m], stamp[m], linked[m], edited[m], seed[m], remote)
    BY <1>1 DEF Inductive
  <2>3. tick[m].mine \in ContentsOf(checkout[m].history) \cup {seed[m]}
    BY <2>1, <2>2 DEF Sound, RecordedIn, Applying
  <2>4. ContentsOf(checkout[m].history) \cup {seed[m]} \subseteq Kept(m)
    BY DEF ContentsOf, Kept, Range
  <2>5. edited[m].unseen \/ local[m] = tick[m].mine
    BY <1>1, <2>1 DEF AllTimely, Timely, Applying
  <2>6. QED
    BY <2>3, <2>4, <2>5
<1>2. QED
  BY <1>1, Invariance, AllTimelyHolds, PTL

\* "Pushed local settings" is said only of settings that are in the history of
\* the repository, after whichever push of run_sync_tick, whatever became of the
\* other one, and stays true while the stamp is written.
THEOREM PushedIsSharedHolds == Spec => []PushedIsShared
<1>1. ASSUME AllTimely PROVE PushedIsShared
  BY <1>1 DEF AllTimely, Timely, PushedIsShared, Shared, ContentsOf
<1>2. QED
  BY <1>1, AllTimelyHolds, PTL

-----------------------------------------------------------------------------
(* Action properties *)

LEMMA LocalMoves ==
    ASSUME Inductive, Next, NEW m \in Machines
    PROVE  \/ local'[m] = local[m]
           \/ used'.edits > used.edits
           \/ used'.faults > used.faults
           \/ Apply(m)
<1>1. local \in [Machines -> Content]
  BY DEF Inductive, TypeOK
<1>2. PICK n \in Machines : ByUser(n) \/ Trigger(n) \/ ByWorker(n) \/ ByApp(n) \/ CloneFails(n) \/ Relaunch(n)
  BY DEF Next
<1>3. CASE EditPreferences(n) \/ SaveNewConnection(n) \/ SaveConnection(n) \/ DeleteConnection(n)
  BY <1>3, EditPreferencesKeeps, SaveNewKeeps, SaveKeeps, DeleteKeeps
<1>4. CASE ApplyUnsaved(n) \/ ApplyHalfSaved(n) \/ Relaunch(n)
  <2>1. Spend("faults")
    BY <1>4 DEF ApplyUnsaved, ApplyHalfSaved, Relaunch
  <2>2. used'["faults"] > used["faults"]
    BY <2>1, SpendKeeps
  <2>3. QED
    BY <2>2
<1>5. CASE Apply(n)
  <2>1. CASE n = m
    BY <1>5, <2>1
  <2>2. CASE n # m
    <3>1. local' = [local EXCEPT ![n] = Adopted(n)]
      BY <1>5 DEF Apply
    <3>2. QED
      BY <1>1, <2>2, <3>1
  <2>3. QED
    BY <2>1, <2>2
<1>6. CASE EnableFirst(n) \/ EnableAgain(n) \/ Disable(n) \/ Trigger(n) \/ CloneFails(n) \/ Cloned(n)
  BY <1>6 DEF EnableFirst, EnableAgain, Disable, Trigger, CloneFails, Cloned
<1>7. CASE Pull(n) \/ Decide(n) \/ CommitPayload(n) \/ Push(n) \/ PullAgain(n) \/ PushAgain(n) \/ SaveStamp(n)
  BY <1>7 DEF Pull, Decide, CommitPayload, Push, PullAgain, PushAgain, SaveStamp, WorkerKeeps
<1>8. CASE Report(n)
  BY <1>8 DEF Report
<1>9. QED
  BY <1>2, <1>3, <1>4, <1>5, <1>6, <1>7, <1>8 DEF ByUser, ByWorker, ByApp

\* What a worker brings back changes nothing on a machine that was unlinked in
\* the meantime (the generation check of settings_sync_tick), and on a linked
\* one takes away, reorders, retargets or opens none of its connections and
\* leaves no two of one name (merge_synced_connections).
THEOREM KeepsWhatIsLocalHolds == Spec => KeepsWhatIsLocal
<1>1. ASSUME Inductive, [Next]_vars, NEW m \in Machines
      PROVE  KeepsWhenDisabled(m) /\ KeepsConnections(m)
  <2>1. CASE UNCHANGED vars
    BY <2>1 DEF vars, KeepsWhenDisabled, KeepsConnections
  <2>2. CASE local'[m] = local[m]
    BY <2>2 DEF KeepsWhenDisabled, KeepsConnections
  <2>3. CASE used'.edits > used.edits \/ used'.faults > used.faults
    <3>1. used \in Counters
      BY <1>1 DEF Inductive, TypeOK, Counters
    <3>2. used' # used
      BY <2>3, <3>1 DEF Counters
    <3>3. QED
      BY <2>3, <3>2 DEF KeepsWhenDisabled, KeepsConnections
  <2>4. CASE Apply(m)
    <3>1. Applying(m) /\ local' = [local EXCEPT ![m] = Adopted(m)]
      BY <2>4 DEF Apply
    <3>2. local'[m] = Adopted(m)
      <4>1. local \in [Machines -> Content]
        BY <1>1 DEF Inductive, TypeOK
      <4>2. QED
        BY <3>1, <4>1
    <3>3. linked[m]
      <4>1. Sound(m, checkout[m], tick[m], stamp[m], linked[m], edited[m], seed[m], remote)
        BY <1>1 DEF Inductive
      <4>2. QED
        BY <3>1, <4>1 DEF Sound, Applying
    <3>4. GrownFrom(Adopted(m).connections, local[m].connections)
      BY <1>1, <3>1, AdoptedIs
    <3>5. KeepsWhenDisabled(m)
      BY <3>3 DEF KeepsWhenDisabled
    <3>6. KeepsConnections(m)
      BY <3>2, <3>4 DEF KeepsConnections, GrownFrom
    <3>7. QED
      BY <3>5, <3>6
  <2>5. QED
    BY <1>1, <2>1, <2>2, <2>3, <2>4, LocalMoves
<1>2. Inductive /\ [Next]_vars => [\A m \in Machines : KeepsWhenDisabled(m) /\ KeepsConnections(m)]_vars
  BY <1>1
<1>3. QED
  BY <1>2, Invariance, PTL DEF Spec, KeepsWhatIsLocal

\* Of a tick's two attempts to push, the second included, none puts its payload
\* over a commit the tick had not read when it compared (pull --ff-only and the
\* refused push in run_sync_tick).
THEOREM PushesOverWhatItReadHolds == Spec => PushesOverWhatItRead
<1>1. ASSUME Inductive, [Next]_vars, NEW m \in Machines, remote' # remote, remote'[Len(remote')].by = m
      PROVE  Len(remote) <= tick[m].read
  <2>1. PICK n \in Machines : tick[n].at \in {"push", "repush"} /\ Accepted(n) /\ remote' = checkout[n].history
    BY <1>1, RemoteMoves DEF vars
  <2>2. PICK h : h = checkout[n].history
    OBVIOUS
  <2>3. Sound(n, checkout[n], tick[n], stamp[n], linked[n], edited[n], seed[n], remote)
    BY <1>1 DEF Inductive
  <2>4. h \in Seq(Commit) /\ remote \in Seq(Commit) /\ tick[n].read \in Nat
    BY <1>1, <2>2, <2>3 DEF Sound, Clone, Worker, Inductive, TypeOK
  <2>5. FastForwards(remote, h) /\ remote # h
    BY <1>1, <2>1, <2>2 DEF Accepted
  <2>6. ~FastForwards(h, remote)
    BY <2>4, <2>5, ForwardsBoth
  <2>7. Len(h) = tick[n].read + 1 /\ h[Len(h)].by = n
    BY <2>1, <2>2, <2>3, <2>6 DEF Sound, OwnCommit
  <2>8. n = m
    BY <1>1, <2>1, <2>2, <2>7
  <2>9. Len(remote) # Len(h) /\ Len(remote) <= Len(h)
    <3>1. Len(remote) <= Len(h) /\ \A i \in 1..Len(remote) : h[i] = remote[i]
      BY <2>4, <2>5, ForwardsIs
    <3>2. Len(h) \in Nat /\ Len(remote) \in Nat
      BY <2>4
    <3>3. ASSUME Len(remote) = Len(h) PROVE FastForwards(h, remote)
      BY <2>4, <3>1, <3>2, <3>3, ForwardsIs
    <3>4. QED
      BY <2>6, <3>1, <3>3
  <2>10. Len(remote) \in Nat /\ Len(h) \in Nat
    BY <2>4
  <2>11. QED
    BY <2>4, <2>7, <2>8, <2>9, <2>10
<1>2. Inductive /\ [Next]_vars =>
        [\A m \in Machines : remote' # remote /\ remote'[Len(remote')].by = m
                               => Len(remote) <= tick[m].read]_vars
  BY <1>1
<1>3. QED
  BY <1>2, Invariance, PTL DEF Spec, PushesOverWhatItRead

-----------------------------------------------------------------------------
(* Machines that only follow do not push. *)

\* No machine is enabled a second time (a worker of the first time may still be
\* running, and would record what it had compared over what Enable recorded).
LinkedOnce == \A m \in Machines : ~EnableAgain(m)

\* A payload is taken as a whole or not at all: its agents and connections are
\* what the machine ends up with, and neither a failing save nor a crash leaves
\* settings_sync_apply half way.
AppliedWhole ==
    \A m \in Machines :
        /\ ~ApplyUnsaved(m) /\ ~ApplyHalfSaved(m)
        /\ Apply(m) => Adopted(m) = tick[m].payload
        /\ Relaunch(m) => local'[m] = disk[m]

\* Of a machine with clone c, worker t, stamp s, marks e and settings l, d on
\* disk: as long as its user has not edited, what was last synced is what it
\* shows, and what its tick compares.
Candid(c, t, s, e, l, d) ==
    /\ d = l
    /\ c.cloned /\ ~e.seen /\ ~e.unseen => s = l
    /\ t.at \notin {"idle", "clone"} /\ ~e.unseen => t.mine = l
    /\ t.at \in {"pull", "reconcile"} /\ ~e.seen => s = t.mine
    /\ t.at = "commit" /\ c.file # None => e.seen
    /\ t.at = "done" /\ t.result \in {"uptodate", "pushed"} => s = t.mine

AllCandid ==
    \A m \in Machines : Candid(checkout[m], tick[m], stamp[m], edited[m], local[m], disk[m])

\* What a step leaves of machine m
Becomes(m, c, t, s, e, l, d) ==
    /\ checkout' = [checkout EXCEPT ![m] = c] /\ tick' = [tick EXCEPT ![m] = t]
    /\ stamp' = [stamp EXCEPT ![m] = s] /\ edited' = [edited EXCEPT ![m] = e]
    /\ local' = [local EXCEPT ![m] = l] /\ disk' = [disk EXCEPT ![m] = d]

LEMMA CandidStep ==
    ASSUME Inductive, AllCandid, NEW m \in Machines,
           NEW c, NEW t, NEW s, NEW e, NEW l, NEW d,
           Becomes(m, c, t, s, e, l, d), Candid(c, t, s, e, l, d)
    PROVE  AllCandid'
<1>1. /\ checkout \in [Machines -> Clone] /\ tick \in [Machines -> Worker]
      /\ stamp \in [Machines -> Content \cup {None}] /\ edited \in [Machines -> Marks]
      /\ local \in [Machines -> Content] /\ disk \in [Machines -> Content]
  BY DEF Inductive, TypeOK, Clone, Worker, Marks
<1>2. ASSUME NEW n \in Machines
      PROVE  Candid(checkout'[n], tick'[n], stamp'[n], edited'[n], local'[n], disk'[n])
  <2>1. CASE n = m
    <3>1. /\ checkout'[n] = c /\ tick'[n] = t /\ stamp'[n] = s /\ edited'[n] = e
          /\ local'[n] = l /\ disk'[n] = d
      BY <1>1, <2>1 DEF Becomes
    <3>2. QED
      BY <3>1
  <2>2. CASE n # m
    <3>1. /\ checkout'[n] = checkout[n] /\ tick'[n] = tick[n] /\ stamp'[n] = stamp[n]
          /\ edited'[n] = edited[n] /\ local'[n] = local[n] /\ disk'[n] = disk[n]
      BY <1>1, <2>2 DEF Becomes
    <3>2. Candid(checkout[n], tick[n], stamp[n], edited[n], local[n], disk[n])
      BY DEF AllCandid
    <3>3. QED
      BY <3>1, <3>2
  <2>3. QED
    BY <2>1, <2>2
<1>3. QED
  BY <1>2 DEF AllCandid

\* A worker goes on with what it compares, towards a push or to no result.
LEMMA WorkerStaysCandid ==
    ASSUME Inductive, AllCandid, NEW m \in Machines, NEW c, NEW t, NEW e,
           checkout' = [checkout EXCEPT ![m] = c], tick' = [tick EXCEPT ![m] = t],
           edited' = [edited EXCEPT ![m] = e], UNCHANGED <<stamp, local, disk>>,
           c.cloned = checkout[m].cloned, t.mine = tick[m].mine,
           e.seen = edited[m].seen, e.unseen = edited[m].unseen,
           tick[m].at \notin {"idle", "clone"}, t.at \notin {"pull", "commit"},
           t.at = "reconcile" => tick[m].at = "pull",
           t.at = "done" => t.result \notin {"uptodate", "pushed"}
    PROVE  AllCandid'
<1>1. Candid(checkout[m], tick[m], stamp[m], edited[m], local[m], disk[m])
  BY DEF AllCandid
<1>2. Candid(c, t, stamp[m], e, local[m], disk[m])
  BY <1>1 DEF Candid
<1>3. PICK s, l, d : s = stamp[m] /\ l = local[m] /\ d = disk[m]
  OBVIOUS
<1>4. stamp' = [stamp EXCEPT ![m] = s] /\ local' = [local EXCEPT ![m] = l] /\ disk' = [disk EXCEPT ![m] = d]
  BY <1>3, Stays
<1>5. Becomes(m, c, t, s, e, l, d)
  BY <1>4 DEF Becomes
<1>6. Candid(c, t, s, e, l, d)
  BY <1>2, <1>3
<1>7. QED
  BY <1>5, <1>6, CandidStep

\* A tick starts, or is put off, with the settings an edit has made, or with
\* those of before.
LEMMA BeginsCandid ==
    ASSUME Inductive, AllCandid, NEW m \in Machines, NEW l \in Content, NEW touched \in BOOLEAN,
           BeginTick(m, l, linked[m], touched), touched \/ l = local[m],
           local' = [local EXCEPT ![m] = l], disk' = [disk EXCEPT ![m] = l],
           UNCHANGED <<checkout, stamp>>
    PROVE  AllCandid'
<1>1. /\ Sound(m, checkout[m], tick[m], stamp[m], linked[m], edited[m], seed[m], remote)
      /\ tick = [tick EXCEPT ![m] = tick[m]]
  BY Stays
<1>2. PICK e, c, s : e = edited[m] /\ c = checkout[m] /\ s = stamp[m]
  OBVIOUS
<1>3. e \in Marks
  BY <1>1, <1>2 DEF Sound
<1>5. edited \in [Machines -> Marks]
  BY DEF Inductive, TypeOK, Marks
<1>6. Candid(c, tick[m], s, e, local[m], disk[m])
  BY <1>2 DEF AllCandid
<1>7. checkout' = [checkout EXCEPT ![m] = c] /\ stamp' = [stamp EXCEPT ![m] = s]
  BY <1>2, Stays
<1>8. CASE linked[m] /\ ~Busy(m) /\ Room(m)
  <2>1. PICK t : t = Started(l)
    OBVIOUS
  <2>2. tick' = [tick EXCEPT ![m] = t] /\ t.at = "pull" /\ t.mine = l
    BY <1>8, <2>1, RecordsAre DEF BeginTick
  <2>3. PICK seen : seen = (e.seen \/ e.unseen \/ touched)
    OBVIOUS
  <2>4. edited' = [edited EXCEPT ![m].seen = seen, ![m].unseen = FALSE]
    BY <1>2, <1>5, <1>8, <2>3 DEF BeginTick
  <2>5. PICK n : n = [e EXCEPT !.seen = seen, !.unseen = FALSE]
    OBVIOUS
  <2>6. n.seen = seen /\ n.unseen = FALSE
    BY <1>3, <2>5 DEF Marks
  <2>7. edited' = [edited EXCEPT ![m] = n]
    BY <1>2, <1>5, <2>4, <2>5
  <2>8. c.cloned
    BY <1>1, <1>2, <1>8 DEF Sound
  <2>9. ~seen => ~e.seen /\ ~e.unseen /\ ~touched
    BY <2>3
  <2>10. ~n.seen => s = l
    BY <1>6, <2>6, <2>8, <2>9 DEF Candid
  <2>11. Candid(c, t, s, n, l, l)
    BY <2>2, <2>6, <2>10 DEF Candid
  <2>12. Becomes(m, c, t, s, n, l, l)
    BY <1>7, <2>2, <2>7 DEF Becomes
  <2>13. QED
    BY <2>11, <2>12, CandidStep
<1>9. CASE ~(linked[m] /\ ~Busy(m) /\ Room(m))
  <2>1. PICK t : t = tick[m]
    OBVIOUS
  <2>2. tick' = [tick EXCEPT ![m] = t]
    BY <1>1, <1>9, <2>1 DEF BeginTick
  <2>3. PICK unseen : unseen = (e.unseen \/ touched)
    OBVIOUS
  <2>4. edited' = [edited EXCEPT ![m].unseen = unseen]
    BY <1>2, <1>5, <1>9, <2>3 DEF BeginTick
  <2>5. PICK n : n = [e EXCEPT !.unseen = unseen]
    OBVIOUS
  <2>6. n.seen = e.seen /\ n.unseen = unseen
    BY <1>3, <2>5 DEF Marks
  <2>7. edited' = [edited EXCEPT ![m] = n]
    BY <1>2, <1>5, <2>4, <2>5
  <2>8. ~n.unseen => ~e.unseen /\ l = local[m]
    BY <2>3, <2>6
  <2>9. Candid(c, t, s, n, l, l)
    BY <1>6, <2>1, <2>6, <2>8 DEF Candid
  <2>10. Becomes(m, c, t, s, n, l, l)
    BY <1>7, <2>2, <2>7 DEF Becomes
  <2>11. QED
    BY <2>9, <2>10, CandidStep
<1>10. QED
  BY <1>8, <1>9

LEMMA EditStaysCandid ==
    ASSUME Inductive, AllCandid, NEW m \in Machines, NEW new \in Content, NEW ticks \in BOOLEAN,
           Edit(m, new, ticks), disk' = [disk EXCEPT ![m] = new]
    PROVE  AllCandid'
<1>1. local' = [local EXCEPT ![m] = new] /\ UNCHANGED <<checkout, stamp>>
  BY DEF Edit
<1>2. CASE ticks
  <2>1. BeginTick(m, new, linked[m], TRUE)
    BY <1>2 DEF Edit
  <2>2. QED
    BY <1>1, <2>1, BeginsCandid
<1>3. CASE ~ticks
  <2>1. edited' = [edited EXCEPT ![m].unseen = TRUE] /\ tick' = tick
    BY <1>3 DEF Edit
  <2>2. PICK c, t, s : c = checkout[m] /\ t = tick[m] /\ s = stamp[m]
    OBVIOUS
  <2>3. checkout' = [checkout EXCEPT ![m] = c] /\ stamp' = [stamp EXCEPT ![m] = s]
        /\ tick' = [tick EXCEPT ![m] = t]
    BY <1>1, <2>1, <2>2, Stays
  <2>4. edited \in [Machines -> Marks]
    BY DEF Inductive, TypeOK, Marks
  <2>5. PICK e : e = [edited[m] EXCEPT !.unseen = TRUE]
    OBVIOUS
  <2>6. e.seen = edited[m].seen /\ e.unseen = TRUE
    <3>1. edited[m] \in Marks
      BY <2>4
    <3>2. QED
      BY <2>5, <3>1 DEF Marks
  <2>7. edited' = [edited EXCEPT ![m] = e]
    BY <2>1, <2>4, <2>5
  <2>8. Candid(c, t, s, edited[m], local[m], disk[m])
    BY <2>2 DEF AllCandid
  <2>9. Candid(c, t, s, e, new, new)
    BY <2>6, <2>8 DEF Candid
  <2>10. Becomes(m, c, t, s, e, new, new)
    BY <1>1, <2>3, <2>7 DEF Becomes
  <2>11. QED
    BY <2>9, <2>10, CandidStep
<1>4. QED
  BY <1>2, <1>3

LEMMA UserStaysCandid ==
    ASSUME Inductive, AllCandid, NEW m \in Machines,
           EditPreferences(m) \/ SaveNewConnection(m) \/ SaveConnection(m) \/ DeleteConnection(m)
    PROVE  AllCandid'
<1>1. local \in [Machines -> Content] /\ disk \in [Machines -> Content] /\ local[m] \in Content
  <2>1. local \in [Machines -> Content] /\ disk \in [Machines -> Content]
    BY DEF Inductive, TypeOK
  <2>2. QED
    BY <2>1
<1>2. disk[m] = local[m]
  BY DEF AllCandid, Candid
<1>3. CASE EditPreferences(m)
  <2>1. PICK theme \in Themes, agents \in AgentLists \cup {None}, ticks \in BOOLEAN :
            Edit(m, [local[m] EXCEPT !.theme = theme, !.agents = agents], ticks)
    BY <1>3 DEF EditPreferences
  <2>2. PICK l : l = [local[m] EXCEPT !.theme = theme, !.agents = agents]
    OBVIOUS
  <2>3. l \in Content /\ l.theme = theme /\ l.agents = agents
    BY <1>1, <2>2 DEF Content
  <2>4. Edit(m, l, ticks) /\ local' = [local EXCEPT ![m] = l]
    BY <2>1, <2>2 DEF Edit
  <2>5. local'[m].theme = theme /\ local'[m].agents = agents
    BY <1>1, <2>3, <2>4
  <2>6. disk' = [disk EXCEPT ![m].theme = theme, ![m].agents = agents]
    BY <1>3, <2>5 DEF EditPreferences
  <2>7. disk' = [disk EXCEPT ![m] = l]
    BY <1>1, <1>2, <2>2, <2>6
  <2>8. QED
    BY <2>3, <2>4, <2>7, EditStaysCandid
<1>4. ASSUME NEW list, EditConnections(m, list), local'[m] \in Content PROVE AllCandid'
  <2>1. PICK l : l = [local[m] EXCEPT !.connections = list]
    OBVIOUS
  <2>2. Edit(m, l, TRUE) /\ local' = [local EXCEPT ![m] = l]
    BY <1>4, <2>1 DEF EditConnections, Edit
  <2>3. l \in Content
    BY <1>1, <1>4, <2>2
  <2>4. disk' = [disk EXCEPT ![m] = l]
    BY <1>1, <1>2, <1>4, <2>1 DEF EditConnections
  <2>5. QED
    BY <2>2, <2>3, <2>4, EditStaysCandid
<1>5. local'[m] \in Content
  <2>1. Inductive'
    BY EditPreferencesKeeps, SaveNewKeeps, SaveKeeps, DeleteKeeps
  <2>2. QED
    BY <2>1 DEF Inductive, TypeOK
<1>6. QED
  BY <1>3, <1>4, <1>5 DEF SaveNewConnection, SaveConnection, DeleteConnection

LEMMA EnablingStaysCandid ==
    ASSUME Inductive, AllCandid, NEW m \in Machines,
           EnableFirst(m) \/ CloneFails(m) \/ Disable(m)
    PROVE  AllCandid'
<1>1. PICK c, s, e, l, d : c = checkout[m] /\ s = stamp[m] /\ e = edited[m] /\ l = local[m] /\ d = disk[m]
  OBVIOUS
<1>2. UNCHANGED <<checkout, stamp, edited, local, disk>>
  BY DEF EnableFirst, CloneFails, Disable
<1>3. /\ checkout' = [checkout EXCEPT ![m] = c] /\ stamp' = [stamp EXCEPT ![m] = s]
      /\ edited' = [edited EXCEPT ![m] = e]
      /\ local' = [local EXCEPT ![m] = l] /\ disk' = [disk EXCEPT ![m] = d]
  BY <1>1, <1>2, Stays
<1>4. Candid(c, tick[m], s, e, l, d)
  BY <1>1 DEF AllCandid
<1>5. tick \in [Machines -> Worker] /\ tick[m] \in Worker
  BY WorkerTyped
<1>6. PICK t : /\ tick' = [tick EXCEPT ![m] = t]
               /\ \/ t.at \in {"idle", "clone"}
                  \/ t.at = tick[m].at /\ t.mine = tick[m].mine /\ t.result = tick[m].result
  <2>1. CASE EnableFirst(m)
    <3>1. PICK t : t = [Idle EXCEPT !.at = "clone"]
      OBVIOUS
    <3>2. t.at = "clone" /\ tick' = [tick EXCEPT ![m] = t]
      BY <2>1, <3>1 DEF EnableFirst, Idle
    <3>3. QED
      BY <3>2
  <2>2. CASE CloneFails(m)
    BY <2>2, RecordsAre DEF CloneFails
  <2>3. CASE Disable(m)
    <3>1. PICK on : on \in BOOLEAN /\ on = ~Busy(m)
      BY Zenon
    <3>2. PICK t : t = [tick[m] EXCEPT !.current = on]
      OBVIOUS
    <3>3. t.at = tick[m].at /\ t.mine = tick[m].mine /\ t.result = tick[m].result
      BY <1>5, <3>2 DEF Worker
    <3>4. tick' = [tick EXCEPT ![m] = t]
      BY <1>5, <2>3, <3>1, <3>2 DEF Disable
    <3>5. QED
      BY <3>3, <3>4
  <2>4. QED
    BY <2>1, <2>2, <2>3
<1>7. Candid(c, t, s, e, l, d)
  BY <1>4, <1>6 DEF Candid
<1>8. Becomes(m, c, t, s, e, l, d)
  BY <1>3, <1>6 DEF Becomes
<1>9. QED
  BY <1>7, <1>8, CandidStep

\* Enable stamps what is there, and the first tick compares just that.
LEMMA ClonedStaysCandid ==
    ASSUME Inductive, AllCandid, NEW m \in Machines, Cloned(m)
    PROVE  AllCandid'
<1>1. local[m] \in Content /\ disk[m] = local[m]
  BY Stays DEF AllCandid, Candid
<1>2. PICK c, t, l : /\ c = [cloned |-> TRUE, upstream |-> remote # <<>>,
                            history |-> remote, file |-> NewestContent(remote)]
                    /\ t = Started(local[m]) /\ l = local[m]
  OBVIOUS
<1>3. t.at = "pull" /\ t.mine = l
  BY <1>1, <1>2, RecordsAre
<1>4. /\ checkout' = [checkout EXCEPT ![m] = c] /\ tick' = [tick EXCEPT ![m] = t]
      /\ stamp' = [stamp EXCEPT ![m] = l]
      /\ edited' = [edited EXCEPT ![m].seen = FALSE, ![m].unseen = FALSE]
      /\ UNCHANGED <<local, disk>>
  BY <1>2 DEF Cloned, Link
<1>5. PICK e : edited' = [edited EXCEPT ![m] = e]
  BY <1>4, Unmarked
<1>6. local' = [local EXCEPT ![m] = l] /\ disk' = [disk EXCEPT ![m] = l]
  BY <1>1, <1>2, <1>4, Stays
<1>7. Candid(c, t, l, e, l, l)
  BY <1>3 DEF Candid
<1>8. Becomes(m, c, t, l, e, l, l)
  BY <1>4, <1>5, <1>6 DEF Becomes
<1>9. QED
  BY <1>7, <1>8, CandidStep

LEMMA TriggerStaysCandid ==
    ASSUME Inductive, AllCandid, NEW m \in Machines, Trigger(m)
    PROVE  AllCandid'
<1>1. local[m] \in Content /\ disk[m] = local[m]
  BY Stays DEF AllCandid, Candid
<1>2. PICK l \in Content : l = local[m]
  BY <1>1
<1>3. local' = [local EXCEPT ![m] = l] /\ disk' = [disk EXCEPT ![m] = l]
  BY <1>1, <1>2, Stays DEF Trigger
<1>4. BeginTick(m, l, linked[m], FALSE) /\ UNCHANGED <<checkout, stamp>>
  BY <1>2 DEF Trigger
<1>5. QED
  BY <1>2, <1>3, <1>4, BeginsCandid

LEMMA PullStaysCandid ==
    ASSUME Inductive, AllCandid, NEW m \in Machines, Pull(m)
    PROVE  AllCandid'
<1>1. tick \in [Machines -> Worker] /\ tick[m] \in Worker
  BY WorkerTyped
<1>2. /\ checkout = [checkout EXCEPT ![m] = checkout[m]] /\ edited = [edited EXCEPT ![m] = edited[m]]
      /\ checkout[m] \in Clone /\ remote \in Seq(Commit)
  BY Stays DEF Sound
<1>3. tick[m].at = "pull" /\ UNCHANGED <<stamp, local, disk, edited>>
  BY DEF Pull, WorkerKeeps
<1>4. PICK c : checkout' = [checkout EXCEPT ![m] = c] /\ c.cloned = checkout[m].cloned
  <2>1. CASE checkout' = checkout
    BY <1>2, <2>1
  <2>2. CASE checkout' = [checkout EXCEPT ![m] = Pulled(checkout[m]).checkout]
    BY <1>2, <2>2, PulledIs
  <2>3. QED
    BY <2>1, <2>2 DEF Pull
<1>5. PICK on : tick' = [tick EXCEPT ![m].at = "reconcile", ![m].online = on]
  <2>1. CASE tick' = [tick EXCEPT ![m].at = "reconcile"]
    <3>1. tick' = [tick EXCEPT ![m].at = "reconcile", ![m].online = tick[m].online]
      BY <1>1, <2>1 DEF Worker
    <3>2. QED
      BY <3>1
  <2>2. QED
    BY <2>1 DEF Pull
<1>6. PICK t : t = [tick[m] EXCEPT !.at = "reconcile", !.online = on]
  OBVIOUS
<1>7. t.at = "reconcile" /\ t.mine = tick[m].mine
  BY <1>1, <1>6 DEF Worker
<1>8. tick' = [tick EXCEPT ![m] = t]
  BY <1>1, <1>5, <1>6
<1>9. PICK e : e = edited[m] /\ edited' = [edited EXCEPT ![m] = e]
  BY <1>2, <1>3
<1>10. QED
  BY <1>3, <1>4, <1>7, <1>8, <1>9, WorkerStaysCandid

\* Deciding to push over an existing payload means that what is compared is not
\* what was last synced: the machine's user has edited.
LEMMA DecideStaysCandid ==
    ASSUME Inductive, AllCandid, NEW m \in Machines, Decide(m)
    PROVE  AllCandid'
<1>1. PICK w \in Worker : w = tick[m]
  BY WorkerTyped
<1>2. PICK c, s, e, l, d : c = checkout[m] /\ s = stamp[m] /\ e = edited[m] /\ l = local[m] /\ d = disk[m]
  OBVIOUS
<1>3. /\ checkout' = [checkout EXCEPT ![m] = c] /\ stamp' = [stamp EXCEPT ![m] = s]
      /\ edited' = [edited EXCEPT ![m] = e]
      /\ local' = [local EXCEPT ![m] = l] /\ disk' = [disk EXCEPT ![m] = d]
  BY <1>2, Stays DEF Decide, WorkerKeeps
<1>4. w.at = "reconcile" /\ w.mine # None
  <2>1. Sound(m, checkout[m], tick[m], stamp[m], linked[m], edited[m], seed[m], remote)
    BY Stays
  <2>2. QED
    BY <1>1, <2>1, SyncAssumption DEF Decide, Sound
<1>5. PICK decision : decision = Reconcile(w.mine, c.file, s)
  OBVIOUS
<1>6. /\ decision \in {"push", "uptodate", "apply"}
      /\ decision = "push" /\ c.file # None => s # w.mine
  BY <1>4, <1>5 DEF Reconcile
<1>7. PICK read : read = [w EXCEPT !.read = Len(c.history)]
  OBVIOUS
<1>8. PICK t : t = CASE decision = "uptodate" /\ s = w.mine -> Ended(read, "uptodate")
           [] decision = "uptodate" /\ s # w.mine ->
                  [read EXCEPT !.at = "stamp", !.result = "uptodate"]
           [] decision = "apply" -> [Ended(read, "applied") EXCEPT !.payload = c.file]
           [] decision = "push" /\ ~w.online -> Ended(read, "failed")
           [] OTHER -> [read EXCEPT !.at = "commit"]
  OBVIOUS
<1>9. tick' = [tick EXCEPT ![m] = t]
  BY <1>1, <1>2, <1>5, <1>7, <1>8, Zenon DEF Decide
<1>10. Becomes(m, c, t, s, e, l, d)
  BY <1>3, <1>9 DEF Becomes
<1>11. Candid(c, w, s, e, l, d)
  BY <1>1, <1>2 DEF AllCandid
<1>12. \A k \in {"uptodate", "failed"} :
           Ended(read, k).at = "done" /\ Ended(read, k).mine = w.mine /\ Ended(read, k).result = k
  BY <1>7 DEF Ended, Worker
<1>13. CASE decision = "uptodate" /\ s = w.mine
  <2>1. t = Ended(read, "uptodate")
    BY <1>8, <1>13
  <2>2. t.at = "done" /\ t.mine = w.mine
    BY <1>12, <2>1
  <2>3. Candid(c, t, s, e, l, d)
    BY <1>4, <1>11, <1>13, <2>2 DEF Candid
  <2>4. QED
    BY <1>10, <2>3, CandidStep
<1>14. CASE decision = "uptodate" /\ s # w.mine
  <2>1. t = [read EXCEPT !.at = "stamp", !.result = "uptodate"]
    BY <1>8, <1>14
  <2>2. t.at = "stamp" /\ t.mine = w.mine
    BY <1>7, <2>1 DEF Worker
  <2>3. Candid(c, t, s, e, l, d)
    BY <1>4, <1>11, <2>2 DEF Candid
  <2>4. QED
    BY <1>10, <2>3, CandidStep
<1>15. CASE decision = "apply"
  <2>1. t = [Ended(read, "applied") EXCEPT !.payload = c.file]
    BY <1>8, <1>15
  <2>2. t.at = "done" /\ t.mine = w.mine /\ t.result = "applied"
    BY <1>7, <2>1 DEF Ended, Worker
  <2>3. Candid(c, t, s, e, l, d)
    BY <1>4, <1>11, <2>2 DEF Candid
  <2>4. QED
    BY <1>10, <2>3, CandidStep
<1>16. CASE decision = "push" /\ ~w.online
  <2>1. t = Ended(read, "failed")
    BY <1>8, <1>16
  <2>2. t.at = "done" /\ t.mine = w.mine /\ t.result = "failed"
    BY <1>12, <2>1
  <2>3. Candid(c, t, s, e, l, d)
    BY <1>4, <1>11, <2>2 DEF Candid
  <2>4. QED
    BY <1>10, <2>3, CandidStep
<1>17. CASE decision = "push" /\ w.online
  <2>1. t = [read EXCEPT !.at = "commit"]
    BY <1>8, <1>17
  <2>2. t.at = "commit" /\ t.mine = w.mine
    BY <1>7, <2>1 DEF Worker
  <2>3. c.file # None => e.seen
    BY <1>4, <1>6, <1>11, <1>17 DEF Candid
  <2>4. Candid(c, t, s, e, l, d)
    BY <1>4, <1>11, <2>2, <2>3 DEF Candid
  <2>5. QED
    BY <1>10, <2>4, CandidStep
<1>18. QED
  BY <1>6, <1>13, <1>14, <1>15, <1>16, <1>17

LEMMA CommitStaysCandid ==
    ASSUME Inductive, AllCandid, NEW m \in Machines, CommitPayload(m)
    PROVE  AllCandid'
<1>1. tick \in [Machines -> Worker] /\ tick[m] \in Worker
  BY WorkerTyped
<1>2. PICK c \in Clone : c = checkout[m]
  BY Stays DEF Sound
<1>3. checkout \in [Machines -> Clone] /\ edited \in [Machines -> Marks] /\ edited[m] \in Marks
  <2>1. checkout \in [Machines -> Clone] /\ edited \in [Machines -> Marks]
    BY DEF Inductive, TypeOK, Clone, Marks
  <2>2. QED
    BY <2>1
<1>4. tick[m].at = "commit" /\ UNCHANGED <<stamp, local, disk>>
  BY DEF CommitPayload, WorkerKeeps
<1>5. PICK d : checkout' = [checkout EXCEPT ![m] = d] /\ d.cloned = c.cloned
  <2>1. CASE checkout' = checkout
    BY <1>2, <2>1, Stays
  <2>2. CASE checkout' = [checkout EXCEPT ![m].file = tick[m].mine]
    <3>1. PICK d : d = [c EXCEPT !.file = tick[m].mine]
      OBVIOUS
    <3>2. checkout' = [checkout EXCEPT ![m] = d] /\ d.cloned = c.cloned
      BY <1>2, <1>3, <2>2, <3>1 DEF Clone
    <3>3. QED
      BY <3>2
  <2>3. CASE checkout' = [checkout EXCEPT ![m].file = tick[m].mine,
                                 ![m].history = Append(@, [by |-> m, content |-> tick[m].mine])]
    <3>1. PICK h : h = Append(c.history, [by |-> m, content |-> tick[m].mine])
      OBVIOUS
    <3>2. PICK d : d = [c EXCEPT !.file = tick[m].mine, !.history = h]
      OBVIOUS
    <3>3. checkout' = [checkout EXCEPT ![m] = d]
      BY <1>2, <1>3, <2>3, <3>1, <3>2
    <3>4. d.cloned = c.cloned
      BY <3>2 DEF Clone
    <3>5. QED
      BY <3>3, <3>4
  <2>4. QED
    BY <2>1, <2>2, <2>3 DEF CommitPayload
<1>6. PICK t : /\ tick' = [tick EXCEPT ![m] = t] /\ t.mine = tick[m].mine
               /\ t.at = "push" \/ (t.at = "done" /\ t.result = "failed")
  <2>1. CASE tick' = [tick EXCEPT ![m].at = "push"]
    <3>1. PICK t : t = [tick[m] EXCEPT !.at = "push"]
      OBVIOUS
    <3>2. tick' = [tick EXCEPT ![m] = t] /\ t.mine = tick[m].mine /\ t.at = "push"
      BY <1>1, <2>1, <3>1 DEF Worker
    <3>3. QED
      BY <3>2
  <2>2. CASE tick' = [tick EXCEPT ![m] = Ended(@, "failed")]
    <3>1. PICK t : t = Ended(tick[m], "failed")
      OBVIOUS
    <3>2. t.mine = tick[m].mine /\ t.at = "done" /\ t.result = "failed"
      BY <1>1, <3>1 DEF Ended, Worker
    <3>3. tick' = [tick EXCEPT ![m] = t]
      BY <1>1, <2>2, <3>1
    <3>4. QED
      BY <3>2, <3>3
  <2>3. QED
    BY <2>1, <2>2 DEF CommitPayload
<1>7. PICK e : /\ edited' = [edited EXCEPT ![m] = e]
               /\ e.seen = edited[m].seen /\ e.unseen = edited[m].unseen
  <2>1. CASE edited' = edited
    BY <2>1, Stays
  <2>2. CASE edited' = [edited EXCEPT ![m].uncommitted = TRUE]
    <3>1. PICK e : e = [edited[m] EXCEPT !.uncommitted = TRUE]
      OBVIOUS
    <3>2. e.seen = edited[m].seen /\ e.unseen = edited[m].unseen
      BY <1>3, <3>1 DEF Marks
    <3>3. edited' = [edited EXCEPT ![m] = e]
      BY <1>3, <2>2, <3>1
    <3>4. QED
      BY <3>2, <3>3
  <2>3. QED
    BY <2>1, <2>2 DEF CommitPayload
<1>8. d.cloned = checkout[m].cloned
  BY <1>2, <1>5
<1>9. QED
  BY <1>4, <1>5, <1>6, <1>7, <1>8, WorkerStaysCandid

LEMMA PushesStayCandid ==
    ASSUME Inductive, AllCandid, NEW m \in Machines, Push(m) \/ PushAgain(m)
    PROVE  AllCandid'
<1>1. PICK w \in Worker : w = tick[m]
  BY WorkerTyped
<1>2. w.at \in {"push", "repush"} /\ UNCHANGED <<stamp, local, disk, edited>>
  BY <1>1 DEF Push, PushAgain, WorkerKeeps
<1>3. PICK pushed, again, ended : /\ pushed = Stamping(w) /\ again = [w EXCEPT !.at = "retry"]
                                  /\ ended = Ended(w, "failed")
  OBVIOUS
<1>4. /\ pushed.at = "stamp" /\ pushed.mine = w.mine
      /\ again.at = "retry" /\ again.mine = w.mine
      /\ ended.at = "done" /\ ended.mine = w.mine /\ ended.result = "failed"
  BY <1>3 DEF Stamping, Ended, Worker
<1>5. PICK t \in {pushed, again, ended} : tick' = [tick EXCEPT ![m] = t]
  <2>1. PushTo(m, pushed, again) \/ PushTo(m, pushed, ended)
    BY <1>1, <1>3 DEF Push, PushAgain
  <2>2. QED
    BY <2>1 DEF PushTo
<1>6. PICK c : checkout' = [checkout EXCEPT ![m] = c] /\ c.cloned = checkout[m].cloned
  <2>1. CASE checkout' = checkout
    BY <2>1, Stays
  <2>2. CASE checkout' = [checkout EXCEPT ![m].upstream = TRUE]
    <3>1. checkout \in [Machines -> Clone]
      BY DEF Inductive, TypeOK, Clone
    <3>2. PICK c : c = [checkout[m] EXCEPT !.upstream = TRUE]
      OBVIOUS
    <3>3. checkout' = [checkout EXCEPT ![m] = c]
      BY <2>2, <3>1, <3>2
    <3>4. checkout[m] \in Clone
      BY <3>1
    <3>5. c.cloned = checkout[m].cloned
      BY <3>2, <3>4 DEF Clone
    <3>6. QED
      BY <3>3, <3>5
  <2>3. QED
    BY <2>1, <2>2 DEF Push, PushAgain, PushTo
<1>7. PICK e : e = edited[m] /\ edited' = [edited EXCEPT ![m] = e]
  BY <1>2, Stays
<1>8. t.mine = tick[m].mine /\ t.at \in {"stamp", "retry", "done"} /\ (t.at = "done" => t.result = "failed")
  BY <1>1, <1>4, <1>5
<1>9. QED
  BY <1>1, <1>2, <1>5, <1>6, <1>7, <1>8, WorkerStaysCandid

LEMMA PullAgainStaysCandid ==
    ASSUME Inductive, AllCandid, NEW m \in Machines, PullAgain(m)
    PROVE  AllCandid'
<1>1. tick \in [Machines -> Worker] /\ tick[m] \in Worker
  BY WorkerTyped
<1>2. checkout[m] \in Clone /\ remote \in Seq(Commit)
  BY Stays DEF Sound
<1>3. tick[m].at = "retry" /\ UNCHANGED <<stamp, local, disk, edited>>
  BY DEF PullAgain, WorkerKeeps
<1>4. PICK c : checkout' = [checkout EXCEPT ![m] = c] /\ c.cloned = checkout[m].cloned
  <2>1. CASE checkout' = checkout
    BY <2>1, Stays
  <2>2. CASE checkout' = [checkout EXCEPT ![m] = Pulled(checkout[m]).checkout]
    BY <1>2, <2>2, PulledIs
  <2>3. QED
    BY <2>1, <2>2 DEF PullAgain
<1>5. PICK again, ended : again = [tick[m] EXCEPT !.at = "repush"] /\ ended = Ended(tick[m], "failed")
  OBVIOUS
<1>6. /\ again.at = "repush" /\ again.mine = tick[m].mine
      /\ ended.at = "done" /\ ended.mine = tick[m].mine /\ ended.result = "failed"
  BY <1>1, <1>5 DEF Ended, Worker
<1>7. PICK t \in {again, ended} : tick' = [tick EXCEPT ![m] = t]
  <2>1. CASE tick' = [tick EXCEPT ![m] = Ended(@, "failed")]
    BY <1>1, <1>5, <2>1
  <2>2. CASE tick' = [tick EXCEPT ![m] = IF Pulled(checkout[m]).ok THEN [@ EXCEPT !.at = "repush"]
                                                                   ELSE Ended(@, "failed")]
    <3>1. tick' = [tick EXCEPT ![m] = IF Pulled(checkout[m]).ok THEN again ELSE ended]
      BY <1>1, <1>5, <2>2
    <3>2. QED
      BY <3>1
  <2>3. QED
    BY <2>1, <2>2 DEF PullAgain
<1>8. PICK e : e = edited[m] /\ edited' = [edited EXCEPT ![m] = e]
  BY <1>3, Stays
<1>9. t.mine = tick[m].mine /\ t.at \in {"repush", "done"} /\ (t.at = "done" => t.result = "failed")
  BY <1>6, <1>7
<1>10. QED
  BY <1>3, <1>4, <1>7, <1>8, <1>9, WorkerStaysCandid

LEMMA SaveStampStaysCandid ==
    ASSUME Inductive, AllCandid, NEW m \in Machines, SaveStamp(m)
    PROVE  AllCandid'
<1>1. PICK w \in Worker : w = tick[m]
  BY WorkerTyped
<1>2. PICK c, e, l, d : c = checkout[m] /\ e = edited[m] /\ l = local[m] /\ d = disk[m]
  OBVIOUS
<1>3. /\ checkout' = [checkout EXCEPT ![m] = c] /\ edited' = [edited EXCEPT ![m] = e]
      /\ local' = [local EXCEPT ![m] = l] /\ disk' = [disk EXCEPT ![m] = d]
  BY <1>2, Stays DEF SaveStamp, WorkerKeeps
<1>4. PICK t, s : t = Ended(w, w.result) /\ s = w.mine
  OBVIOUS
<1>5. t.at = "done" /\ t.mine = w.mine
  BY <1>4 DEF Ended, Worker
<1>6. w.at = "stamp" /\ tick' = [tick EXCEPT ![m] = t] /\ stamp' = [stamp EXCEPT ![m] = s]
  BY <1>1, <1>4, WorkerTyped DEF SaveStamp
<1>7. Candid(c, w, stamp[m], e, l, d)
  BY <1>1, <1>2 DEF AllCandid
<1>8. Candid(c, t, s, e, l, d)
  BY <1>4, <1>5, <1>6, <1>7 DEF Candid
<1>9. Becomes(m, c, t, s, e, l, d)
  BY <1>3, <1>6 DEF Becomes
<1>10. QED
  BY <1>8, <1>9, CandidStep

LEMMA ReportStaysCandid ==
    ASSUME Inductive, AllCandid, NEW m \in Machines, Report(m)
    PROVE  AllCandid'
<1>1. PICK w, c, s, l, d : /\ w = tick[m] /\ c = checkout[m] /\ s = stamp[m]
                           /\ l = local[m] /\ d = disk[m]
  OBVIOUS
<1>2. /\ checkout' = [checkout EXCEPT ![m] = c] /\ stamp' = [stamp EXCEPT ![m] = s]
      /\ local' = [local EXCEPT ![m] = l] /\ disk' = [disk EXCEPT ![m] = d]
  BY <1>1, Stays DEF Report
<1>3. PICK t : t = Idle
  OBVIOUS
<1>4. t.at = "idle" /\ tick' = [tick EXCEPT ![m] = t] /\ w.at = "done"
  BY <1>1, <1>3, RecordsAre DEF Report, Release
<1>5. edited \in [Machines -> Marks] /\ edited[m] \in Marks
  <2>1. edited \in [Machines -> Marks]
    BY DEF Inductive, TypeOK, Marks
  <2>2. QED
    BY <2>1
<1>6. PICK e : /\ edited' = [edited EXCEPT ![m] = e] /\ e.unseen = edited[m].unseen
               /\ e.seen = edited[m].seen \/ w.result \in {"uptodate", "pushed"}
  <2>1. CASE edited' = edited
    BY <2>1, Stays
  <2>2. CASE w.result \in {"uptodate", "pushed"} /\ edited' = [edited EXCEPT ![m].seen = FALSE]
    <3>1. PICK e : e = [edited[m] EXCEPT !.seen = FALSE]
      OBVIOUS
    <3>2. e.unseen = edited[m].unseen
      BY <1>5, <3>1 DEF Marks
    <3>3. edited' = [edited EXCEPT ![m] = e]
      BY <1>5, <2>2, <3>1
    <3>4. QED
      BY <2>2, <3>2, <3>3
  <2>3. QED
    BY <1>1, <2>1, <2>2 DEF Report, Settled
<1>7. Candid(c, w, s, edited[m], l, d)
  BY <1>1 DEF AllCandid
<1>8. Candid(c, t, s, e, l, d)
  BY <1>4, <1>6, <1>7 DEF Candid
<1>9. Becomes(m, c, t, s, e, l, d)
  BY <1>2, <1>4, <1>6 DEF Becomes
<1>10. QED
  BY <1>8, <1>9, CandidStep

LEMMA ApplyStaysCandid ==
    ASSUME Inductive, AllCandid, AppliedWhole, NEW m \in Machines, Apply(m)
    PROVE  AllCandid'
<1>1. PICK c, t, l : c = checkout[m] /\ t = Idle /\ l = Adopted(m)
  OBVIOUS
<1>2. l = tick[m].payload /\ t.at = "idle"
  BY <1>1, RecordsAre DEF AppliedWhole
<1>3. /\ checkout' = [checkout EXCEPT ![m] = c] /\ tick' = [tick EXCEPT ![m] = t]
      /\ stamp' = [stamp EXCEPT ![m] = l]
      /\ local' = [local EXCEPT ![m] = l] /\ disk' = [disk EXCEPT ![m] = l]
  BY <1>1, <1>2, Stays DEF Apply, Release
<1>4. PICK e : edited' = [edited EXCEPT ![m] = e]
  BY Unseen DEF Apply, Settled
<1>5. Candid(c, t, l, e, l, l)
  BY <1>2 DEF Candid
<1>6. Becomes(m, c, t, l, e, l, l)
  BY <1>3, <1>4 DEF Becomes
<1>7. QED
  BY <1>5, <1>6, CandidStep

LEMMA RelaunchStaysCandid ==
    ASSUME Inductive, AllCandid, AppliedWhole, NEW m \in Machines, Relaunch(m)
    PROVE  AllCandid'
<1>1. /\ Sound(m, checkout[m], tick[m], stamp[m], linked[m], edited[m], seed[m], remote)
      /\ disk[m] \in Content
  BY Stays
<1>2. PICK found : /\ local' = [local EXCEPT ![m] = found] /\ disk' = [disk EXCEPT ![m] = found]
                   /\ tick' = [tick EXCEPT ![m] = IF linked[m] /\ Room(m) THEN Started(found) ELSE Idle]
  BY DEF Relaunch
<1>3. found = disk[m]
  <2>1. local \in [Machines -> Content]
    BY DEF Inductive, TypeOK
  <2>2. local'[m] = found
    BY <1>2, <2>1
  <2>3. QED
    BY <2>2 DEF AppliedWhole
<1>4. PICK c, s, old : c = checkout[m] /\ s = stamp[m] /\ old = edited[m]
  OBVIOUS
<1>5. checkout' = [checkout EXCEPT ![m] = c] /\ stamp' = [stamp EXCEPT ![m] = s]
  BY <1>4, Stays DEF Relaunch
<1>6. Candid(c, tick[m], s, old, local[m], disk[m])
  BY <1>4 DEF AllCandid
<1>7. PICK e : /\ edited' = [edited EXCEPT ![m] = e]
               /\ ~e.seen => ~old.seen /\ ~old.unseen
               /\ ~e.unseen
  <2>1. edited \in [Machines -> Marks] /\ old \in Marks
    BY <1>1, <1>4 DEF Inductive, TypeOK, Marks, Sound
  <2>2. PICK seen : seen = (old.seen \/ old.unseen)
    OBVIOUS
  <2>3. edited' = [edited EXCEPT ![m].seen = seen, ![m].unseen = FALSE]
    BY <1>4, <2>1, <2>2 DEF Relaunch
  <2>4. PICK e : e = [old EXCEPT !.seen = seen, !.unseen = FALSE]
    OBVIOUS
  <2>5. e.seen = seen /\ e.unseen = FALSE
    BY <2>1, <2>4 DEF Marks
  <2>6. edited' = [edited EXCEPT ![m] = e]
    BY <1>4, <2>1, <2>3, <2>4
  <2>7. ~e.seen => ~old.seen /\ ~old.unseen
    BY <2>2, <2>5
  <2>8. QED
    BY <2>5, <2>6, <2>7
<1>8. PICK t : /\ tick' = [tick EXCEPT ![m] = t]
               /\ t.at = "idle" \/ (linked[m] /\ t.at = "pull" /\ t.mine = found)
  <2>1. CASE linked[m] /\ Room(m)
    BY <1>1, <1>2, <1>3, <2>1, RecordsAre
  <2>2. CASE ~(linked[m] /\ Room(m))
    BY <1>2, <2>2, RecordsAre
  <2>3. QED
    BY <2>1, <2>2
<1>9. linked[m] => c.cloned
  BY <1>1, <1>4 DEF Sound
<1>10. Candid(c, t, s, e, found, found)
  BY <1>3, <1>6, <1>7, <1>8, <1>9 DEF Candid
<1>11. Becomes(m, c, t, s, e, found, found)
  BY <1>2, <1>5, <1>7, <1>8 DEF Becomes
<1>12. QED
  BY <1>10, <1>11, CandidStep

LEMMA CandidNext ==
    ASSUME Inductive, AllCandid, [Next]_vars, [LinkedOnce /\ AppliedWhole]_vars
    PROVE  AllCandid'
<1>1. CASE UNCHANGED vars
  BY <1>1 DEF AllCandid, vars
<1>2. CASE Next /\ LinkedOnce /\ AppliedWhole
  <2>1. PICK m \in Machines : ByUser(m) \/ Trigger(m) \/ ByWorker(m) \/ ByApp(m) \/ CloneFails(m) \/ Relaunch(m)
    BY <1>2 DEF Next
  <2>2. CASE ByUser(m)
    <3>1. ~EnableAgain(m)
      BY <1>2 DEF LinkedOnce
    <3>2. QED
      BY <2>2, <3>1, UserStaysCandid, EnablingStaysCandid DEF ByUser
  <2>3. CASE ByWorker(m)
    BY <2>3, ClonedStaysCandid, PullStaysCandid, DecideStaysCandid, CommitStaysCandid,
       PushesStayCandid, PullAgainStaysCandid, SaveStampStaysCandid DEF ByWorker
  <2>4. CASE ByApp(m)
    <3>1. ~ApplyUnsaved(m) /\ ~ApplyHalfSaved(m)
      BY <1>2 DEF AppliedWhole
    <3>2. CASE Report(m)
      BY <3>2, ReportStaysCandid
    <3>3. CASE Apply(m)
      BY <1>2, <3>3, ApplyStaysCandid
    <3>4. QED
      BY <2>4, <3>1, <3>2, <3>3 DEF ByApp
  <2>5. CASE Trigger(m)
    BY <2>5, TriggerStaysCandid
  <2>6. CASE CloneFails(m)
    BY <2>6, EnablingStaysCandid
  <2>7. CASE Relaunch(m)
    BY <1>2, <2>7, RelaunchStaysCandid
  <2>8. QED
    BY <2>1, <2>2, <2>3, <2>4, <2>5, <2>6, <2>7
<1>3. QED
  BY <1>1, <1>2

\* A machine that is enabled once, and takes each payload as a whole, pushes
\* over an existing one only what its user has edited since the last settled
\* tick, however many machines and users push, whatever git calls fail, and
\* wherever the process dies outside settings_sync_apply (the three hashes of
\* run_sync_tick, and the stamp that Enable writes so that a machine inherits).
THEOREM PushesOnlyEditsHolds ==
    Spec /\ [][LinkedOnce /\ AppliedWhole]_vars => []PushesOnlyEdits
<1>1. Init => AllCandid
  <2>1. SUFFICES ASSUME Init, NEW m \in Machines
                 PROVE  Candid(checkout[m], tick[m], stamp[m], edited[m], local[m], disk[m])
    BY DEF AllCandid
  <2>2. checkout[m] = NoClone /\ tick[m] = Idle /\ disk[m] = local[m]
    BY <2>1 DEF Init
  <2>3. PICK c, t, s, e, l, d : /\ c = checkout[m] /\ t = tick[m] /\ s = stamp[m]
                                /\ e = edited[m] /\ l = local[m] /\ d = disk[m]
    OBVIOUS
  <2>4. ~c.cloned /\ t.at = "idle"
    BY <2>2, <2>3, RecordsAre DEF NoClone
  <2>5. Candid(c, t, s, e, l, d)
    BY <2>2, <2>3, <2>4 DEF Candid
  <2>6. QED
    BY <2>3, <2>5
<1>2. AllCandid => PushesOnlyEdits
  BY DEF AllCandid, Candid, PushesOnlyEdits
<1>3. Inductive /\ AllCandid /\ [Next]_vars /\ [LinkedOnce /\ AppliedWhole]_vars => AllCandid'
  BY CandidNext
<1>4. QED
  BY <1>1, <1>2, <1>3, Invariance, PTL DEF Spec

\* Preferences are always taken as a whole.
LEMMA ThemesAreWhole ==
    ASSUME Names = {}, AgentLists = {}, "save" \notin Faults, "crash" \notin Faults, Inductive
    PROVE  AppliedWhole
<1>1. SUFFICES ASSUME NEW m \in Machines
               PROVE  /\ ~ApplyUnsaved(m) /\ ~ApplyHalfSaved(m) /\ ~Relaunch(m)
                      /\ Apply(m) => Adopted(m) = tick[m].payload
  BY DEF AppliedWhole
<1>2. ~ApplyUnsaved(m) /\ ~ApplyHalfSaved(m) /\ ~Relaunch(m)
  BY DEF ApplyUnsaved, ApplyHalfSaved, Relaunch, May
<1>3. ASSUME Apply(m) PROVE Adopted(m) = tick[m].payload
  <2>1. PICK p, a : p = tick[m].payload /\ a = Adopted(m)
    OBVIOUS
  <2>2. Applying(m)
    BY <1>3 DEF Apply
  <2>3. p \in Content /\ a \in Content /\ local[m] \in Content
    BY <2>1, <2>2, AdoptedIs, Stays
  <2>4. Connection = {}
    BY DEF Connection
  <2>5. p.connections = <<>> /\ a.connections = <<>> /\ p.agents = None /\ a.agents = None
    <3>1. p.connections \in Seq({}) /\ a.connections \in Seq({})
      BY <2>3, <2>4 DEF Content
    <3>2. \A s \in Seq({}) : s = <<>>
      OBVIOUS
    <3>3. QED
      BY <2>3, <3>1, <3>2 DEF Content
  <2>6. a.theme = p.theme
    <3>1. PICK q : q = Preferred(m)
      OBVIOUS
    <3>2. q.theme = p.theme
      BY <2>1, <2>3, <3>1 DEF Preferred, WithPreferences, Content
    <3>3. q \in Content
      BY <2>2, <3>1, AdoptedIs
    <3>4. a = [q EXCEPT !.connections = Merge(q.connections, p.connections)]
      BY <2>1, <3>1 DEF Adopted, WithConnections
    <3>5. QED
      BY <3>2, <3>3, <3>4 DEF Content
  <2>7. QED
    BY <2>1, <2>3, <2>5, <2>6 DEF Content
<1>4. QED
  BY <1>2, <1>3

\* Where machines share preferences only, nobody's disk refuses a save and no
\* process dies, being enabled once is all it takes.
THEOREM ThemesFollow ==
    ASSUME Names = {}, AgentLists = {}, "save" \notin Faults, "crash" \notin Faults
    PROVE  Spec /\ [][LinkedOnce]_vars => []PushesOnlyEdits
<1>1. Inductive /\ [LinkedOnce]_vars => [LinkedOnce /\ AppliedWhole]_vars
  BY ThemesAreWhole
<1>2. QED
  BY <1>1, Invariance, PushesOnlyEditsHolds, PTL

=============================================================================
