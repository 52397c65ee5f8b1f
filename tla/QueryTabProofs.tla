--------------------------- MODULE QueryTabProofs ---------------------------
(***************************************************************************)
(* Theorems about QueryTab, for every set of scripts and every number of   *)
(* tabs, runs, batches and rewrites.                                       *)
(*                                                                         *)
(* GridIsOneResult and CompleteShowsAll are not inductive: what is still in *)
(* the queue of the run in flight decides what its tab will show.          *)
(* Foretold says that applying the queue, event by event, shows one result *)
(* at each step and ends with the rows the task has sent.  The controls    *)
(* rest on the run that can be cancelled being the last one that was       *)
(* started (RunKept, Flight), and on a failure being the last thing its    *)
(* task sends before it waits (Asks).                                      *)
(***************************************************************************)
EXTENDS QueryTab, FiniteSetTheorems, SequenceTheorems, WellFoundedInduction, TLAPS

(* The types of TypeOK, one by one *)

Event_ == [kind : {"columns", "rows", "failed"}, index : Places]
Query == [tabs : Seq(Tabs), active : Nat, opened : Tabs, run_id : 0..MaxRunId,
          abort : OrNone(Runs), decision : OrNone([run : Runs, index : Places]),
          rerun_generation : 0..MaxRewrites, rerun_pending : BOOLEAN]
Shown == [outcome : Outcomes, run : OrNone(Runs), rows : Nat, displayed : BOOLEAN,
          pending : BOOLEAN, grid : SUBSET Statements]
Work == [at : {"none", "begin", "waiting"} \cup Ended, tab : OrNone(Tabs),
         script : Scripts \cup {<<>>}, index : Places, sent : BOOLEAN, batches : Nat,
         events : Seq(Event_), listening : BOOLEAN, ok : SUBSET Places]

\* A set of naturals has a least element, because some relation that contains
\* < is well-founded on Nat.
LEMMA LeastElement ==
    ASSUME NEW S, S \subseteq Nat, S # {}
    PROVE  \E x \in S : \A y \in S : x =< y
<1> DEFINE R == OpToRel(<, Nat)
<1>1. \A y, x \in Nat : y < x => <<y, x>> \in R
  BY Zenon DEF OpToRel
<1>2. IsWellFoundedOn(R, Nat)
  BY NatLessThanWellFounded, Zenon
<1> HIDE DEF R
<1>3. \E x \in S : \A y \in S : ~ (<<y, x>> \in R)
  BY <1>2, WFMin, Zenon
<1>4. PICK x \in S : \A y \in S : ~ (<<y, x>> \in R)
  BY <1>3
<1>5. ASSUME NEW y \in S PROVE x =< y
  <2>1. x \in Nat /\ y \in Nat
    OBVIOUS
  <2>2. ~ (y < x)
    BY <1>1, <1>4, <2>1, Zenon
  <2>3. QED
    BY <2>1, <2>2
<1>6. QED
  BY <1>5, Zenon

-----------------------------------------------------------------------------
(* What is on show, and what the queue of a run will make of it. *)

ViewOf(x) == [rows |-> x.rows, pending |-> x.pending, grid |-> x.grid]
Views == [rows : Nat, pending : BOOLEAN, grid : SUBSET Statements]

\* What an event of run r makes of it (Apply)
After(v, r, event) ==
    CASE event.kind = "columns" -> [rows |-> 0, pending |-> TRUE, grid |-> v.grid]
      [] event.kind = "rows" ->
            [rows |-> v.rows + 1, pending |-> FALSE,
             grid |-> IF v.pending THEN {<<r, event.index>>} ELSE v.grid \cup {<<r, event.index>>}]
      [] OTHER -> v

OneSource(grid) == \A a, b \in grid : a = b

\* A grid is of one statement, of run r once it has counted rows.
Whole(r, v) == OneSource(v.grid) /\ (v.rows > 0 => \A source \in v.grid : source[1] = r)

\* The next batch goes to an empty grid or to one of the same statement.
Awaits(r, k, v) == k.sent => v.pending \/ v.grid \subseteq {<<r, k.index>>}

\* f is what the events of task k of run r make of view v, one by one.
Course(f, r, k, v) ==
    /\ f \in [0..Len(k.events) -> Views]
    /\ f[0] = v
    /\ \A i \in 1..Len(k.events) : f[i] = After(f[i - 1], r, k.events[i])
    /\ \A i \in 0..Len(k.events) : Whole(r, f[i])

\* Once all of them are applied, the tab shows what the task has sent.
Foretold(r, k, v) ==
    \E f : /\ Course(f, r, k, v)
           /\ f[Len(k.events)].rows = k.batches
           /\ Awaits(r, k, f[Len(k.events)])

LEMMA ForetoldAtStart ==
    ASSUME NEW r, NEW k \in Work, NEW v \in Views, k.events = <<>>, k.batches = 0, ~k.sent,
           v.rows = 0, OneSource(v.grid)
    PROVE  Foretold(r, k, v)
<1>1. Len(k.events) = 0
  OBVIOUS
<1>2. PICK f : f = [i \in 0..0 |-> v]
  OBVIOUS
<1>3. Whole(r, v)
  BY DEF Whole, Views
<1>4. Course(f, r, k, v)
  BY <1>1, <1>2, <1>3 DEF Course
<1>5. QED
  BY <1>1, <1>2, <1>4 DEF Foretold, Awaits

\* The queue alone decides, and the promise of the next batch may be dropped.
LEMMA ForetoldStays ==
    ASSUME NEW r, NEW k \in Work, NEW v \in Views, Foretold(r, k, v), NEW l \in Work,
           l.events = k.events, l.batches = k.batches, l.sent => k.sent /\ l.index = k.index
    PROVE  Foretold(r, l, v)
<1>1. PICK f : /\ Course(f, r, k, v)
               /\ f[Len(k.events)].rows = k.batches
               /\ Awaits(r, k, f[Len(k.events)])
  BY DEF Foretold
<1>2. Course(f, r, l, v)
  BY <1>1 DEF Course
<1>3. Awaits(r, l, f[Len(l.events)])
  BY <1>1 DEF Awaits
<1>4. QED
  BY <1>1, <1>2, <1>3 DEF Foretold

LEMMA AfterIsView ==
    ASSUME NEW v \in Views, NEW r \in Runs, NEW event \in Event_
    PROVE  After(v, r, event) \in Views
BY DEF After, Views, Event_, Statements

\* The task sends another event: the course goes on by one.
LEMMA ForetoldGrows ==
    ASSUME NEW r \in Runs, NEW k \in Work, NEW v \in Views, Foretold(r, k, v), NEW l \in Work,
           NEW event \in Event_, l.events = Append(k.events, event),
           \A w \in Views : Whole(r, w) /\ w.rows = k.batches /\ Awaits(r, k, w) =>
              /\ Whole(r, After(w, r, event)) /\ After(w, r, event).rows = l.batches
              /\ Awaits(r, l, After(w, r, event))
    PROVE  Foretold(r, l, v)
<1>1. PICK f : /\ Course(f, r, k, v)
               /\ f[Len(k.events)].rows = k.batches
               /\ Awaits(r, k, f[Len(k.events)])
  BY DEF Foretold
<1>2. PICK n \in Nat : n = Len(k.events)
  BY DEF Work
<1>3. PICK w : w = f[n]
  OBVIOUS
<1>4. w \in Views /\ Whole(r, w)
  BY <1>1, <1>2, <1>3 DEF Course
<1>5. PICK z : z = After(w, r, event)
  OBVIOUS
<1>6. z \in Views /\ Whole(r, z) /\ z.rows = l.batches /\ Awaits(r, l, z)
  BY <1>1, <1>2, <1>3, <1>4, <1>5, AfterIsView
<1>7. PICK g : g = [i \in 0..(n + 1) |-> IF i = n + 1 THEN z ELSE f[i]]
  OBVIOUS
<1>8. /\ Len(l.events) = n + 1 /\ l.events[n + 1] = event
      /\ \A i \in 1..n : l.events[i] = k.events[i]
  BY <1>2 DEF Work
<1>9. /\ f \in [0..n -> Views] /\ f[0] = v
      /\ \A i \in 1..n : f[i] = After(f[i - 1], r, k.events[i])
      /\ \A i \in 0..n : Whole(r, f[i])
  BY <1>1, <1>2 DEF Course
<1>10. g \in [0..(n + 1) -> Views] /\ g[0] = v /\ \A i \in 0..(n + 1) : Whole(r, g[i])
  BY <1>6, <1>7, <1>9
<1>11. ASSUME NEW i \in 1..(n + 1) PROVE g[i] = After(g[i - 1], r, l.events[i])
  <2>1. CASE i = n + 1
    BY <1>3, <1>5, <1>7, <1>8, <2>1
  <2>2. CASE i # n + 1
    <3>1. i \in 1..n /\ g[i] = f[i] /\ g[i - 1] = f[i - 1]
      BY <1>7, <2>2
    <3>2. QED
      BY <1>8, <1>9, <3>1
  <2>3. QED
    BY <2>1, <2>2
<1>12. Course(g, r, l, v)
  BY <1>8, <1>10, <1>11 DEF Course
<1>13. g[Len(l.events)] = z
  BY <1>7, <1>8
<1>14. QED
  BY <1>6, <1>12, <1>13 DEF Foretold

\* The listener applies the first event: the rest of the course remains.
LEMMA ForetoldHears ==
    ASSUME NEW r, NEW k \in Work, NEW v \in Views, Foretold(r, k, v), k.events # <<>>,
           NEW l \in Work, l.events = Tail(k.events), l.batches = k.batches,
           l.sent = k.sent, l.index = k.index
    PROVE  Foretold(r, l, After(v, r, Head(k.events)))
<1>1. PICK f : /\ Course(f, r, k, v)
               /\ f[Len(k.events)].rows = k.batches
               /\ Awaits(r, k, f[Len(k.events)])
  BY DEF Foretold
<1>2. PICK n \in Nat : n + 1 = Len(k.events)
  <2>1. Len(k.events) \in Nat /\ Len(k.events) # 0
    BY DEF Work
  <2>2. Len(k.events) - 1 \in Nat /\ (Len(k.events) - 1) + 1 = Len(k.events)
    BY <2>1
  <2>3. QED
    BY <2>2
<1>3. PICK g : g = [i \in 0..n |-> f[i + 1]]
  OBVIOUS
<1>4. /\ Len(l.events) = n /\ Head(k.events) = k.events[1]
      /\ \A i \in 1..n : l.events[i] = k.events[i + 1]
  BY <1>2 DEF Work
<1>5. /\ f \in [0..(n + 1) -> Views] /\ f[0] = v
      /\ \A i \in 1..(n + 1) : f[i] = After(f[i - 1], r, k.events[i])
      /\ \A i \in 0..(n + 1) : Whole(r, f[i])
  BY <1>1, <1>2 DEF Course
<1>6. g \in [0..n -> Views] /\ \A i \in 0..n : Whole(r, g[i])
  BY <1>3, <1>5
<1>7. g[0] = After(v, r, Head(k.events))
  <2>1. g[0] = f[1]
    BY <1>3
  <2>2. f[1] = After(f[1 - 1], r, k.events[1])
    BY <1>5
  <2>3. QED
    BY <1>4, <1>5, <2>1, <2>2
<1>8. ASSUME NEW i \in 1..n PROVE g[i] = After(g[i - 1], r, l.events[i])
  <2>1. g[i] = f[i + 1] /\ g[i - 1] = f[i] /\ i + 1 \in 1..(n + 1)
    BY <1>3
  <2>2. f[i + 1] = After(f[(i + 1) - 1], r, k.events[i + 1]) /\ (i + 1) - 1 = i
    BY <1>5, <2>1
  <2>3. QED
    BY <1>4, <2>1, <2>2
<1>9. Course(g, r, l, After(v, r, Head(k.events)))
  BY <1>4, <1>6, <1>7, <1>8 DEF Course
<1>10. g[Len(l.events)] = f[Len(k.events)]
  BY <1>2, <1>3, <1>4
<1>11. Awaits(r, l, g[Len(l.events)])
  BY <1>1, <1>10 DEF Awaits
<1>12. QED
  BY <1>1, <1>9, <1>10, <1>11 DEF Foretold

-----------------------------------------------------------------------------
(* The strip: what closing and moving tabs leaves in it. *)

In(s, t) == \E i \in DOMAIN s : s[i] = t

LEMMA RemoveKeeps ==
    ASSUME NEW s \in Seq(Tabs), NEW i \in DOMAIN s
    PROVE  /\ RemoveAt(s, i) \in Seq(Tabs) /\ Len(RemoveAt(s, i)) = Len(s) - 1
           /\ \A t : In(RemoveAt(s, i), t) => In(s, t)
           /\ \A t : In(s, t) /\ t # s[i] => In(RemoveAt(s, i), t)
<1>1. PICK n \in Nat : n = Len(s)
  OBVIOUS
<1>2. DOMAIN s = 1..n /\ i \in 1..n /\ \A j \in 1..n : s[j] \in Tabs
  BY <1>1
<1>3. PICK a : a = SubSeq(s, 1, i - 1)
  OBVIOUS
<1>4. PICK b : b = SubSeq(s, i + 1, n)
  OBVIOUS
<1>5. a \in Seq(Tabs) /\ Len(a) = i - 1 /\ \A j \in 1..(i - 1) : a[j] = s[j]
  <2>1. 1 \in Int /\ i - 1 \in Int /\ \A j \in 1..(i - 1) : s[j] \in Tabs
    BY <1>2
  <2>2. /\ SubSeq(s, 1, i - 1) \in Seq(Tabs)
        /\ Len(SubSeq(s, 1, i - 1)) = IF 1 <= i - 1 THEN (i - 1) - 1 + 1 ELSE 0
        /\ \A j \in 1..((i - 1) - 1 + 1) : SubSeq(s, 1, i - 1)[j] = s[1 + j - 1]
    BY <2>1, SubSeqProperties
  <2>3. QED
    BY <1>2, <1>3, <2>2
<1>6. b \in Seq(Tabs) /\ Len(b) = n - i /\ \A j \in 1..(n - i) : b[j] = s[i + j]
  <2>1. i + 1 \in Int /\ n \in Int /\ \A j \in (i + 1)..n : s[j] \in Tabs
    BY <1>2
  <2>2. /\ SubSeq(s, i + 1, n) \in Seq(Tabs)
        /\ Len(SubSeq(s, i + 1, n)) = IF i + 1 <= n THEN n - (i + 1) + 1 ELSE 0
        /\ \A j \in 1..(n - (i + 1) + 1) : SubSeq(s, i + 1, n)[j] = s[(i + 1) + j - 1]
    BY <2>1, SubSeqProperties
  <2>3. QED
    BY <1>2, <1>4, <2>2
<1>7. RemoveAt(s, i) = a \o b
  BY <1>1, <1>3, <1>4 DEF RemoveAt
<1>8. PICK l : l = a \o b
  OBVIOUS
<1>9. /\ l \in Seq(Tabs) /\ Len(l) = n - 1 /\ DOMAIN l = 1..(n - 1)
      /\ \A j \in 1..(n - 1) : l[j] = IF j <= i - 1 THEN s[j] ELSE s[j + 1]
  <2>1. /\ a \o b \in Seq(Tabs) /\ Len(a \o b) = Len(a) + Len(b)
        /\ \A j \in 1..(Len(a) + Len(b)) : (a \o b)[j] = IF j <= Len(a) THEN a[j] ELSE b[j - Len(a)]
    BY <1>5, <1>6, ConcatProperties
  <2>2. Len(a) + Len(b) = n - 1
    BY <1>2, <1>5, <1>6
  <2>3. l \in Seq(Tabs) /\ Len(l) = n - 1
    BY <1>8, <2>1, <2>2
  <2>4. ASSUME NEW j \in 1..(n - 1)
        PROVE  l[j] = IF j <= i - 1 THEN s[j] ELSE s[j + 1]
    <3>1. l[j] = IF j <= i - 1 THEN a[j] ELSE b[j - (i - 1)]
      BY <1>5, <1>8, <2>1, <2>2
    <3>2. CASE j <= i - 1
      BY <1>5, <3>1, <3>2
    <3>3. CASE ~(j <= i - 1)
      <4>1. j - (i - 1) \in 1..(n - i) /\ i + (j - (i - 1)) = j + 1
        BY <1>2, <3>3
      <4>2. QED
        BY <1>6, <3>1, <3>3, <4>1
    <3>4. QED
      BY <3>2, <3>3
  <2>5. QED
    BY <2>3, <2>4
<1>10. ASSUME NEW t, In(l, t) PROVE In(s, t)
  <2>1. PICK j \in 1..(n - 1) : l[j] = t
    BY <1>9, <1>10 DEF In
  <2>2. j \in 1..n /\ j + 1 \in 1..n /\ (s[j] = t \/ s[j + 1] = t)
    BY <1>9, <2>1
  <2>3. QED
    BY <1>2, <2>2 DEF In
<1>11. ASSUME NEW t, In(s, t), t # s[i] PROVE In(l, t)
  <2>1. PICK j \in 1..n : s[j] = t
    BY <1>2, <1>11 DEF In
  <2>2. CASE j <= i - 1
    <3>1. j \in 1..(n - 1) /\ l[j] = t
      BY <1>2, <1>9, <2>1, <2>2
    <3>2. QED
      BY <1>9, <3>1 DEF In
  <2>3. CASE ~(j <= i - 1)
    <3>1. j - 1 \in 1..(n - 1) /\ ~(j - 1 <= i - 1) /\ (j - 1) + 1 = j
      BY <1>2, <1>11, <2>1, <2>3
    <3>2. l[j - 1] = t
      BY <1>9, <2>1, <3>1
    <3>3. QED
      BY <1>9, <3>1, <3>2 DEF In
  <2>4. QED
    BY <2>2, <2>3
<1>12. QED
  BY <1>1, <1>7, <1>8, <1>9, <1>10, <1>11

LEMMA InsertKeeps ==
    ASSUME NEW s \in Seq(Tabs), NEW i \in 1..(Len(s) + 1), NEW e \in Tabs
    PROVE  /\ InsertAt(s, i, e) \in Seq(Tabs)
           /\ \A t : In(InsertAt(s, i, e), t) <=> In(s, t) \/ t = e
<1>1. PICK n \in Nat : n = Len(s)
  OBVIOUS
<1>2. DOMAIN s = 1..n /\ i \in 1..(n + 1) /\ \A j \in 1..n : s[j] \in Tabs
  BY <1>1
<1>3. PICK a : a = SubSeq(s, 1, i - 1)
  OBVIOUS
<1>4. PICK b : b = SubSeq(s, i, n)
  OBVIOUS
<1>5. a \in Seq(Tabs) /\ Len(a) = i - 1 /\ \A j \in 1..(i - 1) : a[j] = s[j]
  <2>1. 1 \in Int /\ i - 1 \in Int /\ \A j \in 1..(i - 1) : s[j] \in Tabs
    BY <1>2
  <2>2. /\ SubSeq(s, 1, i - 1) \in Seq(Tabs)
        /\ Len(SubSeq(s, 1, i - 1)) = IF 1 <= i - 1 THEN (i - 1) - 1 + 1 ELSE 0
        /\ \A j \in 1..((i - 1) - 1 + 1) : SubSeq(s, 1, i - 1)[j] = s[1 + j - 1]
    BY <2>1, SubSeqProperties
  <2>3. QED
    BY <1>2, <1>3, <2>2
<1>6. b \in Seq(Tabs) /\ Len(b) = n - i + 1 /\ \A j \in 1..(n - i + 1) : b[j] = s[i + j - 1]
  <2>1. i \in Int /\ n \in Int /\ \A j \in i..n : s[j] \in Tabs
    BY <1>2
  <2>2. /\ SubSeq(s, i, n) \in Seq(Tabs)
        /\ Len(SubSeq(s, i, n)) = IF i <= n THEN n - i + 1 ELSE 0
        /\ \A j \in 1..(n - i + 1) : SubSeq(s, i, n)[j] = s[i + j - 1]
    BY <2>1, SubSeqProperties
  <2>3. QED
    BY <1>2, <1>4, <2>2
<1>7. PICK c : c = a \o <<e>>
  OBVIOUS
<1>8. <<e>> \in Seq(Tabs) /\ Len(<<e>>) = 1 /\ <<e>>[1] = e
  OBVIOUS
<1>9. /\ c \in Seq(Tabs) /\ Len(c) = i
      /\ \A j \in 1..i : c[j] = IF j <= i - 1 THEN s[j] ELSE e
  <2>1. /\ a \o <<e>> \in Seq(Tabs) /\ Len(a \o <<e>>) = Len(a) + Len(<<e>>)
        /\ \A j \in 1..(Len(a) + Len(<<e>>)) :
              (a \o <<e>>)[j] = IF j <= Len(a) THEN a[j] ELSE <<e>>[j - Len(a)]
    BY <1>5, <1>8, ConcatProperties
  <2>2. Len(a) + Len(<<e>>) = i
    BY <1>2, <1>5, <1>8
  <2>3. ASSUME NEW j \in 1..i PROVE c[j] = IF j <= i - 1 THEN s[j] ELSE e
    <3>1. c[j] = IF j <= i - 1 THEN a[j] ELSE <<e>>[j - (i - 1)]
      BY <1>5, <1>7, <2>1, <2>2
    <3>2. CASE j <= i - 1
      BY <1>5, <3>1, <3>2
    <3>3. CASE ~(j <= i - 1)
      <4>1. j - (i - 1) = 1
        BY <1>2, <3>3
      <4>2. QED
        BY <1>8, <3>1, <3>3, <4>1
    <3>4. QED
      BY <3>2, <3>3
  <2>4. QED
    BY <1>7, <2>1, <2>2, <2>3
<1>10. PICK l : l = c \o b
  OBVIOUS
<1>11. /\ l \in Seq(Tabs) /\ DOMAIN l = 1..(n + 1)
       /\ \A j \in 1..(n + 1) : l[j] = IF j <= i THEN c[j] ELSE b[j - i]
  <2>1. /\ c \o b \in Seq(Tabs) /\ Len(c \o b) = Len(c) + Len(b)
        /\ \A j \in 1..(Len(c) + Len(b)) : (c \o b)[j] = IF j <= Len(c) THEN c[j] ELSE b[j - Len(c)]
    BY <1>6, <1>9, ConcatProperties
  <2>2. Len(c) + Len(b) = n + 1
    BY <1>2, <1>6, <1>9
  <2>3. QED
    BY <1>9, <1>10, <2>1, <2>2
<1>12. InsertAt(s, i, e) = l
  BY <1>1, <1>3, <1>4, <1>7, <1>10 DEF InsertAt
<1>13. ASSUME NEW t, In(l, t) PROVE In(s, t) \/ t = e
  <2>1. PICK j \in 1..(n + 1) : l[j] = t
    BY <1>11, <1>13 DEF In
  <2>2. CASE j <= i
    <3>1. t = IF j <= i - 1 THEN s[j] ELSE e
      BY <1>9, <1>11, <2>1, <2>2
    <3>2. j <= i - 1 => j \in 1..n
      BY <1>2, <2>1
    <3>3. QED
      BY <1>2, <3>1, <3>2 DEF In
  <2>3. CASE ~(j <= i)
    <3>1. j - i \in 1..(n - i + 1) /\ i + (j - i) - 1 = j - 1 /\ j - 1 \in 1..n
      BY <1>2, <2>1, <2>3
    <3>2. t = s[j - 1]
      BY <1>6, <1>11, <2>1, <2>3, <3>1
    <3>3. QED
      BY <1>2, <3>1, <3>2 DEF In
  <2>4. QED
    BY <2>2, <2>3
<1>14. In(l, e)
  <2>1. i \in 1..(n + 1) /\ l[i] = e
    BY <1>2, <1>9, <1>11
  <2>2. QED
    BY <1>11, <2>1 DEF In
<1>15. ASSUME NEW t, In(s, t) PROVE In(l, t)
  <2>1. PICK j \in 1..n : s[j] = t
    BY <1>2, <1>15 DEF In
  <2>2. CASE j <= i - 1
    <3>1. j \in 1..(n + 1) /\ j <= i /\ j \in 1..i
      BY <1>2, <2>1, <2>2
    <3>2. l[j] = t
      BY <1>9, <1>11, <2>1, <2>2, <3>1
    <3>3. QED
      BY <1>11, <3>1, <3>2 DEF In
  <2>3. CASE ~(j <= i - 1)
    <3>1. /\ j + 1 \in 1..(n + 1) /\ ~(j + 1 <= i) /\ (j + 1) - i \in 1..(n - i + 1)
          /\ i + ((j + 1) - i) - 1 = j
      BY <1>2, <2>1, <2>3
    <3>2. l[j + 1] = t
      BY <1>6, <1>11, <2>1, <3>1
    <3>3. QED
      BY <1>11, <3>1, <3>2 DEF In
  <2>4. QED
    BY <2>2, <2>3
<1>16. QED
  BY <1>11, <1>12, <1>13, <1>14, <1>15

\* The loop of close_query_tab_ids, after n of its tabs
LoopOf(f, s, set, n) ==
    f = [i \in 0..n |-> IF i = 0 THEN <<>>
                        ELSE PushIf(f[i - 1], s[i], set)]

LEMMA LoopExists ==
    ASSUME NEW s, NEW set, NEW n \in Nat
    PROVE  \E f : LoopOf(f, s, set, n)
<1> DEFINE Bad == {k \in Nat : ~ \E f : LoopOf(f, s, set, k)}
<1>1. Bad \subseteq Nat
  OBVIOUS
<1>2. SUFFICES ASSUME Bad # {} PROVE FALSE
  OBVIOUS
<1>3. \E k \in Bad : \A j \in Bad : k =< j
  BY <1>1, <1>2, LeastElement, Zenon
<1>4. PICK k \in Nat : k \in Bad /\ \A j \in Bad : k =< j
  BY <1>1, <1>3
<1>5. ~ \E f : LoopOf(f, s, set, k)
  BY <1>4
<1>6. CASE k = 0
  <2>1. PICK f : f = [i \in 0..0 |-> <<>>]
    OBVIOUS
  <2>2. f = [i \in 0..0 |-> IF i = 0 THEN <<>>
                            ELSE PushIf(f[i - 1], s[i], set)]
    BY <2>1
  <2>3. QED
    BY <1>5, <1>6, <2>2 DEF LoopOf
<1>7. CASE k # 0
  <2>1. k - 1 \in Nat /\ k - 1 \notin Bad
    BY <1>4, <1>7
  <2>2. PICK g : LoopOf(g, s, set, k - 1)
    BY <2>1
  <2>3. PICK last : last = PushIf(g[k - 1], s[k], set)
    OBVIOUS
  <2>4. PICK f : f = [i \in 0..k |-> IF i = k THEN last ELSE g[i]]
    OBVIOUS
  <2>5. g = [i \in 0..(k - 1) |-> IF i = 0 THEN <<>>
                ELSE PushIf(g[i - 1], s[i], set)]
    BY <2>2 DEF LoopOf
  <2>6. ASSUME NEW i \in 0..k
        PROVE  f[i] = IF i = 0 THEN <<>>
                      ELSE PushIf(f[i - 1], s[i], set)
    <3>1. CASE i = 0
      BY <1>7, <2>4, <2>5, <3>1
    <3>2. CASE i = k
      <4>1. f[i - 1] = g[k - 1]
        BY <1>7, <2>4, <3>2
      <4>2. QED
        BY <1>7, <2>3, <2>4, <3>2, <4>1
    <3>3. CASE i # 0 /\ i # k
      <4>1. f[i] = g[i] /\ f[i - 1] = g[i - 1] /\ i \in 0..(k - 1)
        BY <2>4, <3>3
      <4>2. g[i] = PushIf(g[i - 1], s[i], set)
        BY <2>5, <3>3, <4>1
      <4>3. QED
        BY <3>3, <4>1, <4>2
    <3>4. QED
      BY <3>1, <3>2, <3>3
  <2>7. f = [i \in 0..k |-> IF i = 0 THEN <<>>
                ELSE PushIf(f[i - 1], s[i], set)]
    BY <2>4, <2>6
  <2>8. QED
    BY <1>5, <2>7 DEF LoopOf
<1>8. QED
  BY <1>6, <1>7

LEMMA KeptIs ==
    ASSUME NEW s \in Seq(Tabs), NEW set
    PROVE  /\ Kept(s, set) \in Seq(Tabs)
           /\ \A t : In(Kept(s, set), t) <=> In(s, t) /\ t \in set
<1>1. PICK n \in Nat : n = Len(s)
  OBVIOUS
<1>2. DOMAIN s = 1..n /\ \A j \in 1..n : s[j] \in Tabs
  BY <1>1
<1> DEFINE f == CHOOSE f : f = [i \in 0..Len(s) |->
                                  IF i = 0 THEN <<>>
                                  ELSE PushIf(f[i - 1], s[i], set)]
<1>3. \E g : LoopOf(g, s, set, Len(s))
  BY <1>1, LoopExists
<1>4. f = [i \in 0..Len(s) |-> IF i = 0 THEN <<>>
              ELSE PushIf(f[i - 1], s[i], set)]
  BY <1>3, Zenon DEF LoopOf
<1>5. Kept(s, set) = f[Len(s)]
  BY Zenon DEF Kept
<1> HIDE DEF f
<1>6. /\ f[0] = <<>>
      /\ \A i \in 1..n : f[i] = PushIf(f[i - 1], s[i], set)
  BY <1>1, <1>4
<1> DEFINE Right(i) ==
      /\ f[i] \in Seq(Tabs)
      /\ \A t : In(f[i], t) <=> (\E j \in 1..i : s[j] = t) /\ t \in set
    Bad == {i \in 0..n : ~Right(i)}
<1>7. SUFFICES ASSUME Bad # {} PROVE FALSE
  <2>1. Right(n)
    <3> HIDE DEF Right
    <3>1. n \in 0..n
      OBVIOUS
    <3>2. QED
      BY <1>7, <3>1
  <2>2. \A t : In(s, t) <=> \E j \in 1..n : s[j] = t
    BY <1>2 DEF In
  <2>3. QED
    BY <1>1, <1>5, <2>1, <2>2, Zenon
<1>8. Bad \subseteq Nat
  OBVIOUS
<1>9. \E k \in Bad : \A j \in Bad : k =< j
  BY <1>7, <1>8, LeastElement, Zenon
<1>10. PICK k \in 0..n : ~Right(k) /\ \A j \in Bad : k =< j
  BY <1>9
<1>11. Right(0)
  <2>1. <<>> \in Seq(Tabs) /\ DOMAIN <<>> = {}
    OBVIOUS
  <2>2. \A t : ~In(<<>>, t)
    BY <2>1, Zenon DEF In
  <2>3. \A t : ~ \E j \in 1..0 : s[j] = t
    OBVIOUS
  <2>4. QED
    BY <1>6, <2>1, <2>2, <2>3, Zenon
<1>12. k \in 1..n /\ k - 1 \in 0..n /\ k - 1 \notin Bad
  BY <1>10, <1>11
<1>13. Right(k - 1)
  BY <1>12
<1> HIDE DEF Bad
<1>14. PICK old \in Seq(Tabs) : old = f[k - 1]
  BY <1>13
<1>15. \A t : In(old, t) <=> (\E j \in 1..(k - 1) : s[j] = t) /\ t \in set
  BY <1>13, <1>14
<1>16. s[k] \in Tabs
  BY <1>2, <1>12
<1>17. \A t : (\E j \in 1..k : s[j] = t) <=> (\E j \in 1..(k - 1) : s[j] = t) \/ s[k] = t
  BY <1>12
<1>18. CASE s[k] \in set
  <2>1. PICK new : new = Append(old, s[k])
    OBVIOUS
  <2>2. new = f[k]
    BY <1>6, <1>12, <1>14, <1>18, <2>1, Zenon DEF PushIf
  <2>3. /\ new \in Seq(Tabs) /\ Len(new) = Len(old) + 1 /\ Len(old) \in Nat
        /\ DOMAIN new = 1..(Len(old) + 1) /\ DOMAIN old = 1..Len(old)
    BY <1>16, <2>1
  <2>4. new[Len(old) + 1] = s[k] /\ \A j \in 1..Len(old) : new[j] = old[j]
    BY <1>16, <2>1
  <2>5. \A t : In(new, t) <=> In(old, t) \/ s[k] = t
    BY <2>3, <2>4 DEF In
  <2>6. QED
    BY <1>10, <1>15, <1>17, <1>18, <2>2, <2>3, <2>5
<1>19. CASE s[k] \notin set
  <2>1. f[k] = old
    BY <1>6, <1>12, <1>14, <1>19 DEF PushIf
  <2>2. QED
    BY <1>10, <1>15, <1>17, <1>19, <2>1
<1>20. QED
  BY <1>18, <1>19

-----------------------------------------------------------------------------
(* The inductive invariant. *)

\* Tabs that were not opened yet are as make_query_tab leaves them.
Strip == \A t \in Tabs : t > query.opened => tab[t] = Idle /\ ~Open(t)

\* Run r, whose task is k, when id is the last run and that of abort can be cancelled
RunKept(r, k, id, abort) ==
    /\ r > id => k.at = "none"
    /\ k.at \in {"begin", "waiting"} => k.script \in Scripts /\ k.index <= Len(k.script)
    /\ k.at = "waiting" => k.index < Len(k.script)
    /\ k.listening => k.at \notin {"none", "done"}
    /\ r = id /\ k.at \notin {"none", "done"} => abort = r

\* A statement that failed is the last that was sent, and the task waits at it.
Asks(k, decision) ==
    \A i \in 1..Len(k.events) : k.events[i].kind = "failed" =>
        /\ i = Len(k.events) /\ k.at = "waiting" /\ k.events[i].index = k.index
        /\ decision = None

\* The run that can be cancelled is the last one; its listener follows it.
Flight ==
    query.abort # None =>
        LET r == query.abort IN
        /\ r = query.run_id /\ task[r].listening
        /\ task[r].at \in {"begin", "waiting", "ok", "failed"}
        /\ task[r].tab \in Tabs
        /\ Foretold(r, task[r], ViewOf(tab[task[r].tab]))
        /\ Asks(task[r], query.decision)

\* What a tab shows, of the runs up to id with the tasks tk
TabKept(x, tk, id) ==
    /\ OneSource(x.grid)
    /\ x.run # None => x.run <= id
    /\ x.outcome = "complete" =>
          /\ x.run # None /\ tk[x.run].at = "done"
          /\ x.rows = tk[x.run].batches
          /\ tk[x.run].batches > 0 => \A source \in x.grid : source[1] = x.run

Inductive ==
    /\ TypeOK /\ Strip /\ SpinnerIsLive /\ DecisionIsLive /\ Flight
    /\ \A r \in Runs : RunKept(r, task[r], query.run_id, query.abort)
    /\ \A t \in Tabs : TabKept(tab[t], task, query.run_id)

LEMMA Types ==
    TypeOK <=> /\ query \in Query /\ (HasActive \/ query.tabs = <<>>)
               /\ tab \in [Tabs -> Shown] /\ task \in [Runs -> Work]
               /\ timers \subseteq 1..MaxRewrites /\ history \subseteq Statements
BY Zenon DEF TypeOK, Query, Shown, Work, Event_

LEMMA OpenIs == \A t : Open(t) <=> In(query.tabs, t)
BY Zenon DEF Open, In

\* Only tasks that have ended count for what is complete.
LEMMA TabStays ==
    ASSUME NEW x \in Shown, NEW tk, NEW id \in Nat, TabKept(x, tk, id),
           NEW next, NEW later \in Nat, id <= later,
           \A r \in Runs : tk[r].at = "done" => next[r].at = "done" /\ next[r].batches = tk[r].batches
    PROVE  TabKept(x, next, later)
<1>1. x.run # None => x.run \in Runs /\ x.run \in Nat
  BY DEF Shown, OrNone, Runs
<1>2. QED
  BY <1>1 DEF TabKept, Runs

-----------------------------------------------------------------------------
(* Cancelling: of the open tabs, only that of the run in flight is going on. *)

LEMMA FirstIsLive ==
    ASSUME Inductive, query.abort # None, NEW outcomes \in SUBSET GoingOn,
           tab[task[query.abort].tab].outcome \in outcomes, NEW t \in Tabs
    PROVE  IsFirst(outcomes, t) <=> t = task[query.abort].tab
<1>1. PICK s : s = task[query.abort].tab
  OBVIOUS
<1>2. /\ Open(s) /\ tab[s].outcome \in outcomes
      /\ \A u \in Tabs : Open(u) /\ Spinning(u) => u = s
  BY <1>1 DEF Inductive, SpinnerIsLive
<1>3. /\ query.tabs \in Seq(Tabs) /\ DOMAIN query.tabs \subseteq Nat
      /\ \A i \in DOMAIN query.tabs : query.tabs[i] \in Tabs
      /\ \A i \in DOMAIN query.tabs : \A j \in 1..(i - 1) : j \in DOMAIN query.tabs
  <2>1. query.tabs \in Seq(Tabs)
    BY Types DEF Inductive, Query
  <2>2. QED
    BY <2>1
<1>4. \A i \in DOMAIN query.tabs : tab[query.tabs[i]].outcome \in outcomes => query.tabs[i] = s
  <2>1. outcomes \subseteq GoingOn
    OBVIOUS
  <2>2. QED
    BY <1>2, <1>3, <2>1, Zenon DEF Open, Spinning
<1>5. ASSUME IsFirst(outcomes, t) PROVE t = s
  BY <1>4, <1>5, Zenon DEF IsFirst
<1>6. ASSUME t = s PROVE IsFirst(outcomes, t)
  <2> DEFINE P == {i \in DOMAIN query.tabs : query.tabs[i] = s}
  <2>1. P \subseteq Nat /\ P # {}
    BY <1>2, <1>3, Zenon DEF Open
  <2>2. \E i \in P : \A j \in P : i =< j
    BY <2>1, LeastElement, Zenon
  <2>3. PICK i \in DOMAIN query.tabs : query.tabs[i] = s /\ \A j \in P : i =< j
    BY <2>2
  <2>4. ASSUME NEW j \in 1..(i - 1) PROVE tab[query.tabs[j]].outcome \notin outcomes
    <3>1. j \in DOMAIN query.tabs /\ j \notin P
      BY <1>3, <2>3
    <3>2. QED
      BY <1>4, <3>1
  <2>5. QED
    BY <1>2, <1>6, <2>3, <2>4, Zenon DEF IsFirst
<1>7. QED
  BY <1>1, <1>5, <1>6

LEMMA QueryCancelled ==
    ASSUME Inductive, query.run_id < MaxRunId
    PROVE  LET q == QueryAfterCancel IN
           /\ q \in Query /\ q.abort = None /\ q.decision = None
           /\ q.tabs = query.tabs /\ q.active = query.active /\ q.opened = query.opened
           /\ q.run_id = IF query.abort = None THEN query.run_id ELSE query.run_id + 1
<1>1. query \in Query /\ query.run_id + 1 \in 0..MaxRunId /\ None \in OrNone(Runs)
      /\ None \in OrNone([run : Runs, index : Places])
  <2>1. MaxRunId \in Nat /\ query \in Query
    BY Types, QueryAssumption DEF Inductive
  <2>2. QED
    BY <2>1 DEF Query, OrNone
<1>2. CASE query.abort = None
  <2>1. query.decision = None
    <3>1. query.decision # None => query.decision.run \in Runs /\ query.decision.run # None
      BY <1>1, QueryAssumption DEF Query, OrNone, Runs
    <3>2. QED
      BY <1>2, <3>1 DEF Inductive, DecisionIsLive
  <2>2. QED
    BY <1>1, <1>2, <2>1 DEF QueryAfterCancel
<1>3. CASE query.abort # None
  BY <1>1, <1>3 DEF QueryAfterCancel, Query
<1>4. QED
  BY <1>2, <1>3

LEMMA TabCancelled ==
    ASSUME Inductive, NEW t \in Tabs
    PROVE  LET x == TabAfterCancel(t) IN
           /\ x \in Shown /\ x.run = tab[t].run /\ ViewOf(x) = ViewOf(tab[t])
           /\ x.grid = tab[t].grid
           /\ x = tab[t] \/ (x.outcome = "cancelled" /\ Open(t))
           /\ Open(t) => x.outcome \notin GoingOn
<1>1. tab[t] \in Shown
  BY Types DEF Inductive
<1>2. CASE query.abort # None /\ t = task[query.abort].tab
  <2>1. IsFirst(GoingOn, t) /\ Open(t)
    BY <1>2, FirstIsLive DEF Inductive, SpinnerIsLive, Spinning
  <2>2. TabAfterCancel(t) = [tab[t] EXCEPT !.outcome = "cancelled"]
    BY <1>2, <2>1 DEF TabAfterCancel
  <2>3. QED
    BY <1>1, <2>1, <2>2 DEF Shown, Outcomes, GoingOn, ViewOf
<1>3. CASE ~(query.abort # None /\ t = task[query.abort].tab)
  <2>1. TabAfterCancel(t) = tab[t]
    <3>1. query.abort # None => tab[task[query.abort].tab].outcome \in GoingOn
      BY DEF Inductive, SpinnerIsLive, Spinning
    <3>2. QED
      BY <1>3, <3>1, FirstIsLive DEF TabAfterCancel
  <2>2. Open(t) => tab[t].outcome \notin GoingOn
    BY <1>3 DEF Inductive, SpinnerIsLive, Spinning
  <2>3. QED
    BY <1>1, <2>1, <2>2
<1>4. QED
  BY <1>2, <1>3

LEMMA TaskCancelled ==
    ASSUME Inductive, NEW r \in Runs
    PROVE  LET k == TaskAfterCancel(r) IN
           /\ k \in Work /\ k.batches = task[r].batches /\ k.listening = task[r].listening
           /\ k = task[r] \/ (k.at = "aborted" /\ task[r].at \in {"begin", "waiting"})
           /\ k.at = "none" <=> task[r].at = "none"
           /\ task[r].at = "done" => k = task[r]
<1>1. task[r] \in Work
  BY Types DEF Inductive
<1>2. query.abort = r => task[r].at \in {"begin", "waiting", "ok", "failed"}
  <2>1. r # None
    BY QueryAssumption DEF Runs
  <2>2. QED
    BY <2>1 DEF Inductive, Flight
<1>3. CASE TaskAfterCancel(r) = task[r]
  BY <1>1, <1>3
<1>4. CASE r = query.abort /\ task[r].at \notin Ended
           /\ TaskAfterCancel(r) = [task[r] EXCEPT !.at = "aborted"]
  BY <1>1, <1>2, <1>4 DEF Work, Ended
<1>5. QED
  BY <1>3, <1>4 DEF TaskAfterCancel

\* What is left of the runs when nothing is in flight any more
LEMMA RunCancelled ==
    ASSUME Inductive, query.run_id < MaxRunId, NEW r \in Runs
    PROVE  RunKept(r, TaskAfterCancel(r), QueryAfterCancel.run_id, None)
<1>1. PICK k : k = TaskAfterCancel(r)
  OBVIOUS
<1>2. PICK q : q = QueryAfterCancel
  OBVIOUS
<1>3. /\ q.run_id = IF query.abort = None THEN query.run_id ELSE query.run_id + 1
      /\ query.run_id \in Nat /\ r \in Nat /\ r # None
  <2>1. query.run_id \in Nat
    BY Types, QueryAssumption DEF Inductive, Query
  <2>2. QED
    BY <1>2, <2>1, QueryCancelled, QueryAssumption DEF Runs
<1>4. /\ k \in Work /\ k.listening = task[r].listening
      /\ k = task[r] \/ (k.at = "aborted" /\ task[r].at \in {"begin", "waiting"})
      /\ k.at = "none" <=> task[r].at = "none"
  BY <1>1, TaskCancelled
<1>5. RunKept(r, task[r], query.run_id, query.abort)
  BY DEF Inductive
<1>6. r = q.run_id => k.at \in {"none", "done"}
  BY <1>3, <1>4, <1>5 DEF RunKept
<1>7. QED
  BY <1>1, <1>2, <1>3, <1>4, <1>5, <1>6 DEF RunKept

\* What cancelling makes of the editor, whatever becomes of a deferred rerun
Freed(q) ==
    /\ q \in Query /\ q.abort = None /\ q.decision = None
    /\ q.tabs = query.tabs /\ q.active = query.active /\ q.opened = query.opened
    /\ q.run_id = QueryAfterCancel.run_id

LEMMA CancelFrees ==
    ASSUME Inductive, query.run_id < MaxRunId
    PROVE  Freed(QueryAfterCancel) /\ Freed([QueryAfterCancel EXCEPT !.rerun_pending = FALSE])
<1>1. PICK q : q = QueryAfterCancel
  OBVIOUS
<1>2. Freed(q)
  BY <1>1, QueryCancelled DEF Freed
<1>3. Freed([q EXCEPT !.rerun_pending = FALSE])
  BY <1>2 DEF Freed, Query
<1>4. QED
  BY <1>1, <1>2, <1>3

LEMMA ActiveIsOpen ==
    ASSUME Inductive, HasActive
    PROVE  ActiveTab \in Tabs /\ Open(ActiveTab)
<1>1. query.tabs \in Seq(Tabs)
  BY Types DEF Inductive, Query
<1>2. QED
  BY <1>1 DEF HasActive, ActiveTab, Open

\* The tabs and the tasks keep what they show, and the strip its tabs.
LEMMA CancelledTabs ==
    ASSUME Inductive, query.run_id < MaxRunId, NEW t \in Tabs, NEW next,
           \A r \in Runs : task[r].at = "done" => next[r].at = "done" /\ next[r].batches = task[r].batches
    PROVE  \A id \in Nat : query.run_id <= id => TabKept(TabAfterCancel(t), next, id)
<1>1. PICK x : x = TabAfterCancel(t)
  OBVIOUS
<1>2. /\ x \in Shown /\ x.run = tab[t].run /\ x.grid = tab[t].grid
      /\ x = tab[t] \/ x.outcome = "cancelled"
  BY <1>1, TabCancelled
<1>3. TabKept(tab[t], task, query.run_id) /\ query.run_id \in Nat
  BY Types, QueryAssumption DEF Inductive, Query
<1>4. TabKept(x, task, query.run_id)
  BY <1>2, <1>3 DEF TabKept
<1>5. QED
  BY <1>1, <1>2, <1>3, <1>4, TabStays

\* Nothing is in flight afterwards.
LEMMA CancelKeeps ==
    ASSUME Inductive, query.run_id < MaxRunId, NEW q, Freed(q), query' = q,
           NEW tb, tab' = tb, tb \in [Tabs -> Shown],
           \A t \in Tabs : \/ tb[t] = TabAfterCancel(t)
                           \/ /\ HasActive /\ t = ActiveTab
                              /\ tb[t] = [TabAfterCancel(t) EXCEPT !.outcome = "error"],
           task' = [r \in Runs |-> TaskAfterCancel(r)],
           timers' \subseteq 1..MaxRewrites, UNCHANGED history
    PROVE  Inductive'
<1>1. TypeOK'
  <2>1. task' \in [Runs -> Work] /\ q \in Query /\ (HasActive \/ query.tabs = <<>>)
        /\ history \subseteq Statements
    BY TaskCancelled, Types DEF Freed, Inductive
  <2>2. (HasActive \/ query.tabs = <<>>)'
    BY <2>1 DEF HasActive, Freed
  <2>3. QED
    BY <2>1, <2>2, Types DEF TypeOK, Query, Shown, Work, Event_
<1>2. \A t : Open(t)' <=> Open(t)
  BY DEF Open, Freed
<1>3. \A t \in Tabs : /\ tb[t].run = tab[t].run /\ tb[t].grid = tab[t].grid
                      /\ Open(t) => tb[t].outcome \notin GoingOn
                      /\ Open(t) \/ tb[t] = tab[t]
  <2>1. SUFFICES ASSUME NEW t \in Tabs
                 PROVE  /\ tb[t].run = tab[t].run /\ tb[t].grid = tab[t].grid
                        /\ Open(t) => tb[t].outcome \notin GoingOn
                        /\ Open(t) \/ tb[t] = tab[t]
    OBVIOUS
  <2>2. PICK x \in Shown : x = TabAfterCancel(t)
    BY TabCancelled
  <2>3. /\ x.run = tab[t].run /\ x.grid = tab[t].grid
        /\ x = tab[t] \/ Open(t)
        /\ Open(t) => x.outcome \notin GoingOn
    BY <2>2, TabCancelled
  <2>4. CASE tb[t] = x
    BY <2>3, <2>4
  <2>5. CASE Open(t) /\ tb[t] = [x EXCEPT !.outcome = "error"]
    BY <2>2, <2>3, <2>5 DEF Shown, GoingOn
  <2>6. QED
    BY <2>2, <2>4, <2>5, ActiveIsOpen
<1>4. Strip'
  BY <1>2, <1>3 DEF Strip, Inductive, Freed
<1>5. SpinnerIsLive' /\ DecisionIsLive' /\ Flight'
  BY <1>2, <1>3 DEF SpinnerIsLive, DecisionIsLive, Flight, Spinning, Freed
<1>6. \A r \in Runs : RunKept(r, task[r], query.run_id, query.abort)'
  BY RunCancelled DEF Freed
<1>7. \A t \in Tabs : TabKept(tab[t], task, query.run_id)'
  <2>1. SUFFICES ASSUME NEW t \in Tabs PROVE TabKept(tb[t], task', q.run_id)
    OBVIOUS
  <2>2. q.run_id \in Nat /\ query.run_id <= q.run_id
    <3>1. query.run_id \in Nat
      BY Types, QueryAssumption DEF Inductive, Query
    <3>2. QED
      BY <3>1, QueryCancelled DEF Freed
  <2>3. \A r \in Runs : task[r].at = "done" => task'[r].at = "done" /\ task'[r].batches = task[r].batches
    BY TaskCancelled
  <2>4. TabKept(TabAfterCancel(t), task', q.run_id)
    BY <2>2, <2>3, CancelledTabs
  <2>5. PICK x \in Shown : x = TabAfterCancel(t)
    BY TabCancelled
  <2>6. CASE tb[t] = [x EXCEPT !.outcome = "error"]
    BY <2>4, <2>5, <2>6 DEF TabKept, Shown
  <2>7. QED
    BY <2>4, <2>5, <2>6
<1>8. QED
  BY <1>1, <1>4, <1>5, <1>6, <1>7 DEF Inductive

\* A new run is in flight afterwards, in the active tab.
LEMMA StartKeeps ==
    ASSUME Inductive, query.run_id + 1 < MaxRunId, HasActive, NEW q, Freed(q),
           NEW script \in Scripts, Start(q, script),
           timers' \subseteq 1..MaxRewrites, UNCHANGED history
    PROVE  Inductive'
<1>1. PICK r : r = q.run_id + 1
  OBVIOUS
<1>2. PICK a \in Tabs : a = ActiveTab /\ Open(a)
  BY ActiveIsOpen
<1>3. /\ MaxRunId \in Nat /\ query.run_id \in Nat /\ query.run_id < MaxRunId
      /\ q.run_id \in Nat /\ query.run_id <= q.run_id /\ r \in Runs /\ r \in Nat /\ r # None
      /\ q.run_id = IF query.abort = None THEN query.run_id ELSE query.run_id + 1
  <2>1. MaxRunId \in Nat /\ query.run_id \in Nat
    BY Types, QueryAssumption DEF Inductive, Query
  <2>2. query.run_id < MaxRunId
    BY <2>1
  <2>3. q.run_id = IF query.abort = None THEN query.run_id ELSE query.run_id + 1
    BY <2>2, QueryCancelled DEF Freed
  <2>4. QED
    BY <1>1, <2>1, <2>3, QueryAssumption DEF Runs
<1>4. /\ query' = [q EXCEPT !.run_id = r, !.abort = r]
      /\ query'.run_id = r /\ query'.abort = r /\ query'.decision = None /\ query' \in Query
      /\ query'.tabs = query.tabs /\ query'.active = query.active /\ query'.opened = query.opened
  <2>1. query' = [q EXCEPT !.run_id = r, !.abort = r]
    BY <1>1 DEF Start
  <2>2. r \in 0..MaxRunId /\ r \in OrNone(Runs)
    BY <1>3 DEF Runs, OrNone
  <2>3. QED
    BY <2>1, <2>2 DEF Freed, Query
<1>5. PICK new : new = [NoTask EXCEPT !.at = "begin", !.tab = a, !.script = script, !.listening = TRUE]
  OBVIOUS
<1>6. new = [at |-> "begin", tab |-> a, script |-> script, index |-> 1, sent |-> FALSE,
             batches |-> 0, events |-> <<>>, listening |-> TRUE, ok |-> {}]
  BY <1>5 DEF NoTask
<1>7. new \in Work
  BY <1>2, <1>6, QueryAssumption DEF Work, OrNone, Places, Ended
<1>8. task' = [s \in Runs |-> IF s = r THEN new ELSE TaskAfterCancel(s)]
  BY <1>1, <1>2, <1>5 DEF Start
<1>9. PICK x \in Shown : x = TabAfterCancel(a)
  BY TabCancelled
<1>10. PICK y : y = [x EXCEPT !.outcome = "running", !.run = r, !.rows = 0]
  OBVIOUS
<1>11. /\ y \in Shown /\ y.outcome = "running" /\ y.run = r /\ y.rows = 0 /\ y.grid = tab[a].grid
  <2>1. x.grid = tab[a].grid
    BY <1>9, TabCancelled
  <2>2. QED
    BY <1>3, <1>10, <2>1 DEF Shown, Outcomes, OrNone
<1>12. tab' = [t \in Tabs |-> IF t = a THEN y ELSE TabAfterCancel(t)]
  BY <1>1, <1>2, <1>9, <1>10 DEF Start
<1>13. TypeOK'
  <2>1. task' \in [Runs -> Work] /\ tab' \in [Tabs -> Shown]
    BY <1>7, <1>8, <1>11, <1>12, TaskCancelled, TabCancelled
  <2>2. (HasActive \/ query.tabs = <<>>) /\ history \subseteq Statements
    BY Types DEF Inductive
  <2>3. (HasActive \/ query.tabs = <<>>)'
    BY <1>4, <2>2 DEF HasActive
  <2>4. QED
    BY <1>4, <2>1, <2>2, <2>3, Types DEF TypeOK, Query, Shown, Work, Event_
<1>14. \A t : Open(t)' <=> Open(t)
  BY <1>4 DEF Open
<1>15. Strip'
  <2>1. SUFFICES ASSUME NEW t \in Tabs, t > query.opened PROVE tab'[t] = Idle /\ ~Open(t)
    BY <1>4, <1>14 DEF Strip
  <2>2. tab[t] = Idle /\ ~Open(t)
    BY <2>1 DEF Inductive, Strip
  <2>3. QED
    BY <1>2, <1>12, <2>2, TabCancelled
<1>16. SpinnerIsLive'
  <2>1. \A t \in Tabs : Open(t)' /\ Spinning(t)' <=> t = a
    <3>1. SUFFICES ASSUME NEW t \in Tabs PROVE Open(t) /\ tab'[t].outcome \in GoingOn <=> t = a
      BY <1>14 DEF Spinning
    <3>2. CASE t = a
      BY <1>2, <1>11, <1>12, <3>2 DEF GoingOn
    <3>3. CASE t # a
      BY <1>12, <3>3, TabCancelled
    <3>4. QED
      BY <3>2, <3>3
  <2>2. task'[r].tab = a /\ tab'[a].run = r
    BY <1>3, <1>6, <1>8, <1>11, <1>12
  <2>3. QED
    BY <1>2, <1>3, <1>4, <2>1, <2>2 DEF SpinnerIsLive
<1>17. DecisionIsLive'
  BY <1>4 DEF DecisionIsLive
<1>18. Flight'
  <2>1. task'[r] = new /\ tab'[a] = y /\ ViewOf(y) \in Views
    BY <1>3, <1>8, <1>11, <1>12 DEF ViewOf, Views, Shown
  <2>2. OneSource(y.grid)
    BY <1>2, <1>11 DEF Inductive, TabKept
  <2>3. /\ ViewOf(y).rows = 0 /\ OneSource(ViewOf(y).grid)
        /\ new.events = <<>> /\ new.batches = 0 /\ ~new.sent
    BY <1>6, <1>11, <2>2 DEF ViewOf
  <2>4. Foretold(r, new, ViewOf(y))
    BY <1>7, <2>1, <2>3, ForetoldAtStart
  <2>5. Asks(new, None)
    BY <1>6 DEF Asks
  <2>6. QED
    BY <1>2, <1>4, <1>6, <2>1, <2>4, <2>5 DEF Flight
<1>19. \A s \in Runs : RunKept(s, task[s], query.run_id, query.abort)'
  <2>1. SUFFICES ASSUME NEW s \in Runs PROVE RunKept(s, task'[s], r, r)
    BY <1>4
  <2>2. CASE s = r
    <3>1. 1 <= Len(script)
      <4>1. script \in Seq({"select", "command"}) /\ script # <<>>
        BY QueryAssumption
      <4>2. QED
        BY <4>1
    <3>2. QED
      BY <1>3, <1>6, <1>8, <2>2, <3>1 DEF RunKept
  <2>3. CASE s # r
    <3>1. PICK k : k = TaskAfterCancel(s)
      OBVIOUS
    <3>2. RunKept(s, k, q.run_id, None) /\ task'[s] = k
      BY <1>3, <1>8, <2>3, <3>1, RunCancelled DEF Freed
    <3>3. s \in Nat
      BY DEF Runs
    <3>4. QED
      BY <1>1, <1>3, <2>3, <3>2, <3>3 DEF RunKept
  <2>4. QED
    BY <2>2, <2>3
<1>20. \A t \in Tabs : TabKept(tab[t], task, query.run_id)'
  <2>1. SUFFICES ASSUME NEW t \in Tabs PROVE TabKept(tab'[t], task', r)
    BY <1>4
  <2>2. task[r].at = "none"
    <3>1. RunKept(r, task[r], query.run_id, query.abort) /\ r > query.run_id
      BY <1>1, <1>3 DEF Inductive
    <3>2. QED
      BY <3>1 DEF RunKept
  <2>3. \A s \in Runs : task[s].at = "done" => task'[s].at = "done" /\ task'[s].batches = task[s].batches
    BY <1>8, <2>2, TaskCancelled
  <2>4. CASE t = a
    <3>1. OneSource(y.grid)
      BY <1>2, <1>11 DEF Inductive, TabKept
    <3>2. QED
      BY <1>3, <1>11, <1>12, <2>4, <3>1 DEF TabKept
  <2>5. CASE t # a
    <3>1. query.run_id <= r /\ r \in Nat
      BY <1>1, <1>3
    <3>2. TabKept(TabAfterCancel(t), task', r)
      BY <1>3, <2>3, <3>1, CancelledTabs
    <3>3. QED
      BY <1>12, <2>5, <3>2
  <2>6. QED
    BY <2>4, <2>5
<1>21. QED
  BY <1>13, <1>15, <1>16, <1>17, <1>18, <1>19, <1>20 DEF Inductive

LEMMA RunPressedKeeps ==
    ASSUME Inductive, Run
    PROVE  Inductive'
<1>1. /\ query.run_id \in Nat /\ MaxRunId \in Nat /\ query.run_id + 1 < MaxRunId
      /\ query.run_id < MaxRunId
  <2>1. query.run_id \in Nat /\ MaxRunId \in Nat
    BY Types, QueryAssumption DEF Inductive, Query
  <2>2. QED
    BY <2>1 DEF Run, MayRun
<1>2. timers' \subseteq 1..MaxRewrites /\ UNCHANGED history
  BY Types DEF Run, Inductive
<1>3. CASE Cancel
  <2>1. /\ query' = QueryAfterCancel /\ Freed(QueryAfterCancel)
        /\ task' = [r \in Runs |-> TaskAfterCancel(r)]
    BY <1>1, <1>3, CancelFrees DEF Cancel
  <2>2. tab' = [t \in Tabs |-> TabAfterCancel(t)] /\ tab' \in [Tabs -> Shown]
    BY <1>3, TabCancelled DEF Cancel
  <2>3. QED
    BY <1>1, <1>2, <2>1, <2>2, CancelKeeps
<1>4. CASE HasActive /\ StartEmpty
  <2>1. /\ query' = QueryAfterCancel /\ Freed(QueryAfterCancel)
        /\ task' = [r \in Runs |-> TaskAfterCancel(r)]
    BY <1>1, <1>4, CancelFrees DEF StartEmpty
  <2>2. tab' = [t \in Tabs |-> IF t = ActiveTab THEN [TabAfterCancel(t) EXCEPT !.outcome = "error"]
                               ELSE TabAfterCancel(t)]
    BY <1>4 DEF StartEmpty
  <2>3. \A x \in Shown : [x EXCEPT !.outcome = "error"] \in Shown
    BY DEF Shown, Outcomes
  <2>4. tab' \in [Tabs -> Shown]
    BY <2>2, <2>3, TabCancelled
  <2>5. \A t \in Tabs : \/ tab'[t] = TabAfterCancel(t)
                        \/ /\ HasActive /\ t = ActiveTab
                           /\ tab'[t] = [TabAfterCancel(t) EXCEPT !.outcome = "error"]
    BY <1>4, <2>2
  <2>6. QED
    BY <1>1, <1>2, <1>4, <2>1, <2>4, <2>5, CancelKeeps
<1>5. CASE HasActive /\ \E script \in Scripts : Start(QueryAfterCancel, script)
  <2>1. Freed(QueryAfterCancel)
    BY <1>1, CancelFrees
  <2>2. QED
    BY <1>1, <1>2, <1>5, <2>1, StartKeeps
<1>6. QED
  BY <1>3, <1>4, <1>5 DEF Run

LEMMA CancelPressedKeeps ==
    ASSUME Inductive, CancelPressed
    PROVE  Inductive'
<1>1. query.run_id < MaxRunId /\ timers' \subseteq 1..MaxRewrites /\ UNCHANGED history
  BY Types DEF CancelPressed, Inductive
<1>2. /\ query' = QueryAfterCancel /\ Freed(QueryAfterCancel)
      /\ task' = [r \in Runs |-> TaskAfterCancel(r)]
  BY <1>1, CancelFrees DEF CancelPressed, Cancel
<1>3. tab' = [t \in Tabs |-> TabAfterCancel(t)] /\ tab' \in [Tabs -> Shown]
  BY TabCancelled DEF CancelPressed, Cancel
<1>4. QED
  BY <1>1, <1>2, <1>3, CancelKeeps

\* The strip, the active tab and deferred reruns change; what runs stays.
LEMMA StripKeeps ==
    ASSUME Inductive, query' \in Query, (HasActive \/ query.tabs = <<>>)',
           query'.abort = query.abort, query'.decision = query.decision,
           query'.run_id = query.run_id,
           \A t \in Tabs : t > query'.opened => t > query.opened /\ ~Open(t)',
           \A t \in Tabs : Spinning(t) => (Open(t)' <=> Open(t)),
           timers' \subseteq 1..MaxRewrites, UNCHANGED <<tab, task, history>>
    PROVE  Inductive'
<1>1. TypeOK'
  BY Types DEF Inductive, TypeOK, Query, Shown, Work, Event_
<1>2. Strip'
  BY DEF Inductive, Strip
<1>3. SpinnerIsLive'
  <2>1. \A t \in Tabs : Spinning(t)' <=> Spinning(t)
    BY DEF Spinning
  <2>2. query.abort # None => task[query.abort].tab \in Tabs
    BY DEF Inductive, Flight
  <2>3. QED
    BY <2>1, <2>2 DEF Inductive, SpinnerIsLive
<1>4. DecisionIsLive' /\ Flight'
  BY DEF Inductive, DecisionIsLive, Flight
<1>5. QED
  BY <1>1, <1>2, <1>3, <1>4 DEF Inductive

LEMMA RewriteKeeps ==
    ASSUME Inductive, Rewrite
    PROVE  Inductive'
<1>1. query \in Query /\ timers \subseteq 1..MaxRewrites
  BY Types DEF Inductive
<1>2. query.rerun_generation + 1 \in 1..MaxRewrites
  BY <1>1, QueryAssumption DEF Rewrite, Query
<1>3. query' = [query EXCEPT !.rerun_generation = query.rerun_generation + 1, !.rerun_pending = TRUE]
  BY DEF Rewrite
<1>4. query' \in Query /\ query'.tabs = query.tabs /\ query'.active = query.active
      /\ query'.abort = query.abort /\ query'.decision = query.decision
      /\ query'.run_id = query.run_id /\ query'.opened = query.opened
  <2>1. PICK o \in Query : o = query
    BY <1>1
  <2>2. query' = [o EXCEPT !.rerun_generation = query.rerun_generation + 1, !.rerun_pending = TRUE]
    BY <1>3, <2>1
  <2>3. query.rerun_generation + 1 \in 0..MaxRewrites
    BY <1>2
  <2>4. QED
    BY <2>1, <2>2, <2>3 DEF Query
<1>5. timers' \subseteq 1..MaxRewrites /\ UNCHANGED <<tab, task, history>>
  BY <1>1, <1>2 DEF Rewrite
<1>6. (HasActive \/ query.tabs = <<>>)' /\ \A t : Open(t)' <=> Open(t)
  BY <1>4, Types DEF Inductive, HasActive, Open
<1>7. \A t \in Tabs : t > query.opened => ~Open(t)
  BY DEF Inductive, Strip
<1>8. QED
  BY <1>4, <1>5, <1>6, <1>7, StripKeeps

LEMMA RerunKeeps ==
    ASSUME Inductive, NEW g \in timers, RerunFires(g)
    PROVE  Inductive'
<1>1. /\ query.run_id \in Nat /\ MaxRunId \in Nat /\ query.run_id + 1 < MaxRunId
      /\ query.run_id < MaxRunId
  <2>1. query.run_id \in Nat /\ MaxRunId \in Nat
    BY Types, QueryAssumption DEF Inductive, Query
  <2>2. QED
    BY <2>1 DEF RerunFires, MayRun
<1>2. timers' \subseteq 1..MaxRewrites /\ UNCHANGED history
  BY Types DEF RerunFires, Inductive
<1>3. PICK q : q = [QueryAfterCancel EXCEPT !.rerun_pending = FALSE]
  OBVIOUS
<1>4. Freed(q)
  BY <1>1, <1>3, CancelFrees
<1>5. CASE UNCHANGED <<query, tab, task>>
  <2>1. query' \in Query /\ (HasActive \/ query.tabs = <<>>)' /\ \A t : Open(t)' <=> Open(t)
    BY <1>5, Types DEF Inductive, HasActive, Open
  <2>2. \A t \in Tabs : t > query.opened => ~Open(t)
    BY DEF Inductive, Strip
  <2>3. QED
    BY <1>2, <1>5, <2>1, <2>2, StripKeeps
<1>6. CASE HasActive /\ Start(q, <<"select">>)
  BY <1>1, <1>2, <1>4, <1>6, StartKeeps, QueryAssumption
<1>7. CASE /\ query' = q
           /\ tab' = [t \in Tabs |-> TabAfterCancel(t)]
           /\ task' = [r \in Runs |-> TaskAfterCancel(r)]
  <2>1. tab' \in [Tabs -> Shown]
    BY <1>7, TabCancelled
  <2>2. QED
    BY <1>1, <1>2, <1>4, <1>7, <2>1, CancelKeeps
<1>8. QED
  BY <1>3, <1>5, <1>6, <1>7, Zenon DEF RerunFires

LEMMA NewTabKeeps ==
    ASSUME Inductive, NewTab
    PROVE  Inductive'
<1>1. query \in Query /\ timers \subseteq 1..MaxRewrites
  BY Types DEF Inductive
<1>2. PICK n \in Tabs : n = query.opened + 1 /\ n \in Nat /\ query.opened \in Nat
  BY <1>1, QueryAssumption DEF NewTab, Query, Tabs
<1>3. PICK s \in Seq(Tabs) : s = query.tabs
  BY <1>1 DEF Query
<1>4. query' = [query EXCEPT !.opened = n, !.tabs = Append(s, n), !.active = Len(s) + 1]
  BY <1>2, <1>3 DEF NewTab
<1>5. PICK l : l = Append(s, n)
  OBVIOUS
<1>6. /\ l \in Seq(Tabs) /\ Len(l) = Len(s) + 1 /\ Len(s) \in Nat /\ l[Len(s) + 1] = n
      /\ \A i \in 1..Len(s) : l[i] = s[i]
      /\ DOMAIN l = 1..(Len(s) + 1) /\ DOMAIN s = 1..Len(s)
  BY <1>5
<1>7. /\ query' \in Query /\ query'.tabs = l /\ query'.active = Len(s) + 1 /\ query'.opened = n
      /\ query'.abort = query.abort /\ query'.decision = query.decision
      /\ query'.run_id = query.run_id
  <2>1. PICK o \in Query : o = query
    BY <1>1
  <2>2. query' = [o EXCEPT !.opened = n, !.tabs = l, !.active = Len(s) + 1]
    BY <1>4, <1>5, <2>1
  <2>3. n \in Tabs /\ l \in Seq(Tabs) /\ Len(s) + 1 \in Nat
    BY <1>6
  <2>4. QED
    BY <2>1, <2>2, <2>3 DEF Query
<1>8. (HasActive \/ query.tabs = <<>>)'
  BY <1>6, <1>7 DEF HasActive
<1>9. \A t : Open(t)' <=> Open(t) \/ t = n
  BY <1>3, <1>6, <1>7 DEF Open
<1>10. tab[n] = Idle /\ ~Spinning(n) /\ \A t \in Tabs : t > query.opened => ~Open(t)
  <2>1. tab[n] = Idle /\ \A t \in Tabs : t > query.opened => ~Open(t)
    BY <1>2 DEF Inductive, Strip
  <2>2. QED
    BY <2>1 DEF Spinning, GoingOn, Idle
<1>11. \A t \in Tabs : t > n => t > query.opened /\ ~Open(t)'
  BY <1>2, <1>9, <1>10 DEF Tabs
<1>12. QED
  BY <1>1, <1>7, <1>8, <1>9, <1>10, <1>11, StripKeeps DEF NewTab

\* The strip is put into another order, loses tabs that can be closed, or
\* shows another tab.
LEMMA ArrangedKeeps ==
    ASSUME Inductive, NEW left \in Seq(Tabs), NEW active \in Nat,
           query' = [query EXCEPT !.tabs = left, !.active = active],
           active \in DOMAIN left \/ left = <<>>,
           \A t : In(left, t) => In(query.tabs, t),
           \A t : In(query.tabs, t) /\ ~Closable(t) => In(left, t),
           UNCHANGED <<tab, task, timers, history>>
    PROVE  Inductive'
<1>1. query \in Query /\ timers \subseteq 1..MaxRewrites
  BY Types DEF Inductive
<1>2. /\ query' \in Query /\ query'.tabs = left /\ query'.active = active
      /\ query'.opened = query.opened /\ query'.abort = query.abort
      /\ query'.decision = query.decision /\ query'.run_id = query.run_id
  BY <1>1 DEF Query
<1>3. (HasActive \/ query.tabs = <<>>)'
  BY <1>2 DEF HasActive
<1>4. \A t : (Open(t)' <=> In(left, t)) /\ (Open(t) <=> In(query.tabs, t))
  BY <1>2, Zenon DEF Open, In
<1>5. \A t \in Tabs : t > query.opened => ~Open(t)
  BY DEF Inductive, Strip
<1>6. \A t \in Tabs : Spinning(t) => (Open(t)' <=> Open(t))
  BY <1>4 DEF Closable
<1>7. QED
  BY <1>1, <1>2, <1>3, <1>4, <1>5, <1>6, StripKeeps

LEMMA SelectTabKeeps ==
    ASSUME Inductive, NEW i \in DOMAIN query.tabs, SelectTab(i)
    PROVE  Inductive'
<1>1. query \in Query /\ query.tabs \in Seq(Tabs)
  BY Types DEF Inductive, Query
<1>2. i \in Nat /\ query' = [query EXCEPT !.tabs = query.tabs, !.active = i]
  <2>1. PICK o \in Query : o = query
    BY <1>1
  <2>2. [o EXCEPT !.tabs = o.tabs, !.active = i] = [o EXCEPT !.active = i]
    BY DEF Query
  <2>3. QED
    BY <1>1, <2>1, <2>2 DEF SelectTab
<1>3. QED
  BY <1>1, <1>2, ArrangedKeeps DEF SelectTab

LEMMA CloseTabKeeps ==
    ASSUME Inductive, NEW i \in DOMAIN query.tabs, CloseTab(i)
    PROVE  Inductive'
<1>1. query \in Query /\ query.tabs \in Seq(Tabs) /\ (HasActive \/ query.tabs = <<>>)
  BY Types DEF Inductive, Query
<1>2. PICK left : left = RemoveAt(query.tabs, i)
  OBVIOUS
<1>3. /\ left \in Seq(Tabs) /\ Len(left) = Len(query.tabs) - 1
      /\ \A t : In(left, t) => In(query.tabs, t)
      /\ \A t : In(query.tabs, t) /\ t # query.tabs[i] => In(left, t)
  BY <1>1, <1>2, RemoveKeeps
<1>4. PICK active : active = IF Len(left) < query.active THEN Len(left) ELSE query.active
  OBVIOUS
<1>5. query' = [query EXCEPT !.tabs = left, !.active = active]
  BY <1>2, <1>4 DEF CloseTab
<1>6. active \in Nat /\ (active \in DOMAIN left \/ left = <<>>)
  <2>1. query.active \in 1..Len(query.tabs) /\ Len(left) \in Nat /\ DOMAIN left = 1..Len(left)
    BY <1>1, <1>3 DEF HasActive
  <2>2. CASE Len(left) = 0
    BY <1>3, <1>4, <2>1, <2>2
  <2>3. CASE Len(left) # 0
    BY <1>4, <2>1, <2>3
  <2>4. QED
    BY <2>2, <2>3
<1>7. Closable(query.tabs[i])
  BY DEF CloseTab
<1>8. \A t : In(query.tabs, t) /\ ~Closable(t) => In(left, t)
  BY <1>3, <1>7
<1>9. QED
  BY <1>3, <1>5, <1>6, <1>8, ArrangedKeeps DEF CloseTab

\* The active tab is found again by its id.
LEMMA FoundAgain ==
    ASSUME NEW s \in Seq(Tabs), NEW t, In(s, t)
    PROVE  (CHOOSE i \in DOMAIN s : s[i] = t) \in DOMAIN s
BY DEF In

LEMMA CloseTabsKeeps ==
    ASSUME Inductive, NEW closed, NEW focus \in Range(query.tabs), CloseTabs(closed, focus)
    PROVE  Inductive'
<1>1. query \in Query /\ query.tabs \in Seq(Tabs)
  BY Types DEF Inductive, Query
<1>2. PICK set : set = {t \in Tabs : t = focus \/ t \notin closed \/ ~Closable(t)}
  OBVIOUS
<1>3. PICK left : left = Kept(query.tabs, set)
  OBVIOUS
<1>4. left \in Seq(Tabs) /\ \A t : In(left, t) <=> In(query.tabs, t) /\ t \in set
  BY <1>1, <1>3, KeptIs
<1>5. \A t : In(query.tabs, t) => t \in Tabs
  BY <1>1 DEF In
<1>6. In(left, focus)
  <2>1. In(query.tabs, focus)
    BY <1>1 DEF Range, In
  <2>2. QED
    BY <1>2, <1>4, <1>5, <2>1
<1>7. PICK active : active = CHOOSE i \in DOMAIN left : left[i] = focus
  OBVIOUS
<1>8. active \in DOMAIN left /\ active \in Nat
  <2>1. active \in DOMAIN left
    BY <1>4, <1>6, <1>7, FoundAgain
  <2>2. QED
    BY <1>4, <2>1
<1>9. query' = [query EXCEPT !.tabs = left, !.active = active]
  BY <1>2, <1>3, <1>7 DEF CloseTabs
<1>10. \A t : In(query.tabs, t) /\ ~Closable(t) => In(left, t)
  BY <1>2, <1>4, <1>5
<1>11. QED
  BY <1>4, <1>8, <1>9, <1>10, ArrangedKeeps DEF CloseTabs

LEMMA ReorderTabKeeps ==
    ASSUME Inductive, NEW from \in DOMAIN query.tabs, NEW to \in DOMAIN query.tabs,
           ReorderTab(from, to)
    PROVE  Inductive'
<1>1. query \in Query /\ query.tabs \in Seq(Tabs)
  BY Types DEF Inductive, Query
<1>2. PICK rest : rest = RemoveAt(query.tabs, from)
  OBVIOUS
<1>3. /\ rest \in Seq(Tabs) /\ Len(rest) = Len(query.tabs) - 1
      /\ \A t : In(rest, t) => In(query.tabs, t)
      /\ \A t : In(query.tabs, t) /\ t # query.tabs[from] => In(rest, t)
  BY <1>1, <1>2, RemoveKeeps
<1>4. to \in 1..(Len(rest) + 1) /\ query.tabs[from] \in Tabs /\ In(query.tabs, query.tabs[from])
  BY <1>1, <1>3 DEF In
<1>5. PICK moved : moved = InsertAt(rest, to, query.tabs[from])
  OBVIOUS
<1>6. moved \in Seq(Tabs) /\ \A t : In(moved, t) <=> In(rest, t) \/ t = query.tabs[from]
  BY <1>3, <1>4, <1>5, InsertKeeps
<1>7. \A t : In(moved, t) <=> In(query.tabs, t)
  BY <1>3, <1>4, <1>6
<1>8. PICK a : a = ActiveTab
  OBVIOUS
<1>9. PICK active : active = CHOOSE i \in DOMAIN moved : moved[i] = a
  OBVIOUS
<1>10. active \in DOMAIN moved /\ active \in Nat
  <2>1. HasActive
    BY DEF ReorderTab
  <2>2. In(moved, a)
    BY <1>7, <1>8, <2>1, ActiveIsOpen, OpenIs
  <2>3. \E i \in DOMAIN moved : moved[i] = a
    BY <2>2 DEF In
  <2>4. active \in DOMAIN moved
    BY <1>9, <2>3, Zenon
  <2>5. QED
    BY <1>6, <2>4
<1>11. query' = [query EXCEPT !.tabs = moved, !.active = active]
  BY <1>2, <1>5, <1>8, <1>9 DEF ReorderTab
<1>12. QED
  BY <1>6, <1>7, <1>10, <1>11, ArrangedKeeps DEF ReorderTab

-----------------------------------------------------------------------------
(* The task of a run goes on. *)

\* A tab that is left alone keeps what it shows.
LEMMA TabLeft ==
    ASSUME Inductive, NEW t \in Tabs, NEW next,
           \A r \in Runs : task[r].at = "done" => next[r].at = "done" /\ next[r].batches = task[r].batches
    PROVE  TabKept(tab[t], next, query.run_id)
<1>1. PICK x \in Shown : x = tab[t]
  BY Types DEF Inductive
<1>2. PICK id \in Nat : id = query.run_id /\ id <= id
  BY Types, QueryAssumption DEF Inductive, Query
<1>3. TabKept(x, task, id)
  BY <1>1, <1>2 DEF Inductive
<1>4. TabKept(x, next, id)
  BY <1>2, <1>3, TabStays
<1>5. QED
  BY <1>1, <1>2, <1>4

\* One task moves on; what was asked is answered, and the tab of the run in
\* flight may show it as running again.
LEMMA TaskKeeps ==
    ASSUME Inductive, NEW r \in Runs, NEW k \in Work, task' = [task EXCEPT ![r] = k],
           task[r].at \in {"begin", "waiting"}, k.at \in {"begin", "waiting", "ok", "failed"},
           k.tab = task[r].tab, k.listening = task[r].listening, k.script = task[r].script,
           k.at \in {"begin", "waiting"} => k.index <= Len(k.script),
           k.at = "waiting" => k.index < Len(k.script),
           query.abort = r => /\ Foretold(r, k, ViewOf(tab[task[r].tab]))
                              /\ Asks(k, None) /\ query'.decision = None,
           query' \in Query, query'.tabs = query.tabs, query'.active = query.active,
           query'.opened = query.opened, query'.run_id = query.run_id,
           query'.abort = query.abort,
           (query'.decision = query.decision /\ UNCHANGED tab) \/ query'.decision = None,
           NEW tb, tab' = tb, tb \in [Tabs -> Shown],
           \A t \in Tabs : \/ tb[t] = tab[t]
                           \/ /\ query.abort # None /\ t = task[query.abort].tab
                              /\ tb[t] = [tab[t] EXCEPT !.outcome = "running"],
           UNCHANGED <<timers, history>>
    PROVE  Inductive'
<1>1. task \in [Runs -> Work] /\ tab \in [Tabs -> Shown] /\ query.run_id \in Nat
      /\ r # None /\ r \in Nat
  BY Types, QueryAssumption DEF Inductive, Query, Runs
<1>2. task' \in [Runs -> Work] /\ task'[r] = k /\ \A s \in Runs : s # r => task'[s] = task[s]
  BY <1>1
<1>3. TypeOK'
  <2>1. /\ HasActive \/ query.tabs = <<>>
        /\ timers \subseteq 1..MaxRewrites /\ history \subseteq Statements
    BY Types DEF Inductive
  <2>2. (HasActive \/ query.tabs = <<>>)'
    BY <2>1 DEF HasActive
  <2>3. QED
    BY <1>2, <2>1, <2>2, Types DEF TypeOK, Query, Shown, Work, Event_
<1>4. \A t : Open(t)' <=> Open(t)
  BY DEF Open
<1>5. query.abort # None => /\ task[query.abort].tab \in Tabs /\ query.abort \in Runs
                            /\ Open(task[query.abort].tab)
                            /\ task'[query.abort].tab = task[query.abort].tab
  <2>1. query.abort # None => query.abort \in Runs
    BY Types DEF Inductive, Query, OrNone
  <2>2. QED
    BY <1>2, <2>1 DEF Inductive, Flight, SpinnerIsLive
<1>6. \A t \in Tabs : /\ tb[t].run = tab[t].run /\ ViewOf(tb[t]) = ViewOf(tab[t])
                      /\ tb[t].grid = tab[t].grid /\ tb[t].rows = tab[t].rows
                      /\ tb[t].outcome = tab[t].outcome \/ tb[t].outcome = "running"
                      /\ Open(t) \/ tb[t] = tab[t]
  <2>1. SUFFICES ASSUME NEW t \in Tabs
                 PROVE  /\ tb[t].run = tab[t].run /\ ViewOf(tb[t]) = ViewOf(tab[t])
                        /\ tb[t].grid = tab[t].grid /\ tb[t].rows = tab[t].rows
                        /\ tb[t].outcome = tab[t].outcome \/ tb[t].outcome = "running"
                        /\ Open(t) \/ tb[t] = tab[t]
    OBVIOUS
  <2>2. CASE tb[t] = tab[t]
    BY <2>2
  <2>3. CASE Open(t) /\ tb[t] = [tab[t] EXCEPT !.outcome = "running"]
    <3>1. PICK x \in Shown : x = tab[t]
      BY <1>1
    <3>2. tb[t] = [x EXCEPT !.outcome = "running"]
      BY <2>3, <3>1
    <3>3. QED
      BY <2>3, <3>1, <3>2 DEF Shown, ViewOf
  <2>4. QED
    BY <1>5, <2>2, <2>3
<1>7. \A t \in Tabs : Open(t) => (Spinning(t)' <=> Spinning(t))
  <2>1. SUFFICES ASSUME NEW t \in Tabs, Open(t)
                 PROVE  tb[t].outcome \in GoingOn <=> tab[t].outcome \in GoingOn
    BY DEF Spinning
  <2>2. CASE tb[t] = tab[t]
    BY <2>2
  <2>3. CASE query.abort # None /\ t = task[query.abort].tab
    <3>1. tab[t].outcome \in GoingOn
      BY <2>3 DEF Inductive, SpinnerIsLive, Spinning
    <3>2. QED
      BY <1>6, <3>1 DEF GoingOn
  <2>4. QED
    BY <2>2, <2>3
<1>8. Strip'
  BY <1>4, <1>6 DEF Strip, Inductive
<1>9. SpinnerIsLive'
  BY <1>4, <1>5, <1>6, <1>7 DEF SpinnerIsLive, Inductive
<1>10. DecisionIsLive'
  <2>1. SUFFICES ASSUME query'.decision # None
                 PROVE  LET s == query'.decision.run IN
                        /\ query.abort = s /\ task'[s].at = "waiting"
                        /\ task'[s].index = query'.decision.index
                        /\ tb[task'[s].tab].outcome = "statement_error"
    BY DEF DecisionIsLive
  <2>2. query'.decision = query.decision /\ tb = tab /\ query.abort # r
    BY <2>1
  <2>3. query.decision.run \in Runs
    BY <2>1, <2>2, Types DEF Inductive, Query, OrNone
  <2>4. QED
    BY <1>2, <2>1, <2>2, <2>3 DEF Inductive, DecisionIsLive
<1>11. Flight'
  <2>1. SUFFICES ASSUME query.abort # None
                 PROVE  LET s == query.abort IN
                        /\ s = query.run_id /\ task'[s].listening
                        /\ task'[s].at \in {"begin", "waiting", "ok", "failed"}
                        /\ task'[s].tab \in Tabs
                        /\ Foretold(s, task'[s], ViewOf(tb[task'[s].tab]))
                        /\ Asks(task'[s], query'.decision)
    BY DEF Flight
  <2>2. PICK s \in Runs : s = query.abort
    BY <1>5, <2>1
  <2>3. /\ s = query.run_id /\ task[s].listening
        /\ task[s].at \in {"begin", "waiting", "ok", "failed"} /\ task[s].tab \in Tabs
        /\ Foretold(s, task[s], ViewOf(tab[task[s].tab])) /\ Asks(task[s], query.decision)
    BY <2>1, <2>2 DEF Inductive, Flight
  <2>4. CASE s = r
    BY <1>2, <1>6, <2>2, <2>3, <2>4
  <2>5. CASE s # r
    <3>1. task'[s] = task[s] /\ ViewOf(tb[task[s].tab]) = ViewOf(tab[task[s].tab])
      BY <1>2, <1>6, <2>3, <2>5
    <3>2. Asks(task[s], query'.decision)
      BY <2>3 DEF Asks
    <3>3. QED
      BY <2>2, <2>3, <3>1, <3>2
  <2>6. QED
    BY <2>4, <2>5
<1>12. \A s \in Runs : RunKept(s, task[s], query.run_id, query.abort)'
  <2>1. SUFFICES ASSUME NEW s \in Runs PROVE RunKept(s, task'[s], query.run_id, query.abort)
    OBVIOUS
  <2>2. RunKept(s, task[s], query.run_id, query.abort)
    BY DEF Inductive
  <2>3. CASE s = r
    <3>1. k.script \in Scripts
      BY <2>2, <2>3 DEF RunKept
    <3>2. QED
      BY <1>1, <1>2, <2>2, <2>3, <3>1 DEF RunKept
  <2>4. QED
    BY <1>2, <2>2, <2>3
<1>13. \A t \in Tabs : TabKept(tab[t], task, query.run_id)'
  <2>1. SUFFICES ASSUME NEW t \in Tabs PROVE TabKept(tb[t], task', query.run_id)
    OBVIOUS
  <2>2. TabKept(tab[t], task, query.run_id) /\ tab[t] \in Shown
    BY <1>1 DEF Inductive
  <2>3. \A s \in Runs : task[s].at = "done" => task'[s].at = "done" /\ task'[s].batches = task[s].batches
    BY <1>2
  <2>4. TabKept(tab[t], task', query.run_id)
    BY <2>3, TabLeft
  <2>5. PICK x : x = tab[t]
    OBVIOUS
  <2>6. PICK y : y = tb[t]
    OBVIOUS
  <2>7. /\ y.run = x.run /\ y.grid = x.grid /\ y.rows = x.rows
        /\ y.outcome = x.outcome \/ y.outcome = "running"
    BY <1>6, <2>5, <2>6
  <2>8. TabKept(y, task', query.run_id)
    BY <2>4, <2>5, <2>7 DEF TabKept
  <2>9. QED
    BY <2>6, <2>8
<1>14. QED
  BY <1>3, <1>8, <1>9, <1>10, <1>11, <1>12, <1>13 DEF Inductive

\* While a task is at a statement, nothing is asked and no failure is queued.
LEMMA TaskIsBusy ==
    ASSUME Inductive, NEW r \in Runs, task[r].at = "begin"
    PROVE  /\ task[r] \in Work /\ task[r].script \in Scripts
           /\ task[r].index \in Places /\ task[r].index <= Len(task[r].script)
           /\ Len(task[r].script) \in Nat
           /\ query.abort = r =>
                 /\ query.decision = None /\ task[r].tab \in Tabs
                 /\ Foretold(r, task[r], ViewOf(tab[task[r].tab]))
                 /\ \A i \in 1..Len(task[r].events) : task[r].events[i].kind # "failed"
<1>1. task[r] \in Work /\ r # None
  BY Types, QueryAssumption DEF Inductive, Runs
<1>2. RunKept(r, task[r], query.run_id, query.abort)
  BY DEF Inductive
<1>3. Len(task[r].script) \in Nat
  <2>1. task[r].script \in Seq({"select", "command"})
    BY <1>2, QueryAssumption DEF RunKept
  <2>2. QED
    BY <2>1
<1>4. ASSUME query.abort = r
      PROVE  /\ query.decision = None /\ task[r].tab \in Tabs
             /\ Foretold(r, task[r], ViewOf(tab[task[r].tab]))
             /\ \A i \in 1..Len(task[r].events) : task[r].events[i].kind # "failed"
  BY <1>1, <1>4 DEF Inductive, Flight, Asks, DecisionIsLive
<1>5. QED
  BY <1>1, <1>2, <1>3, <1>4 DEF RunKept, Work

\* A step of the task, which touches nothing else
LEMMA StepKeeps ==
    ASSUME Inductive, NEW r \in Runs, NEW k \in Work, task' = [task EXCEPT ![r] = k],
           task[r].at = "begin", k.at \in {"begin", "waiting", "ok", "failed"},
           k.tab = task[r].tab, k.listening = task[r].listening, k.script = task[r].script,
           k.at \in {"begin", "waiting"} => k.index <= Len(k.script),
           k.at = "waiting" => k.index < Len(k.script),
           query.abort = r => Foretold(r, k, ViewOf(tab[task[r].tab])) /\ Asks(k, None),
           UNCHANGED Others
    PROVE  Inductive'
<1>1. UNCHANGED <<query, tab, timers, history>>
  BY DEF Others
<1>2. query' \in Query /\ tab' \in [Tabs -> Shown]
  BY <1>1, Types DEF Inductive
<1>3. query.abort = r => query'.decision = None
  BY <1>1, TaskIsBusy
<1>4. QED
  BY <1>1, <1>2, <1>3, TaskKeeps

LEMMA StreamKeeps ==
    ASSUME Inductive, NEW r \in Runs, Stream(r)
    PROVE  Inductive'
<1>1. task[r].at = "begin" /\ UNCHANGED Others
  BY DEF Stream
<1>2. PICK old \in Work : old = task[r]
  BY <1>1, TaskIsBusy
<1>3. /\ old.index \in Places /\ old.index <= Len(old.script) /\ old.script \in Scripts
      /\ query.abort = r => \A i \in 1..Len(old.events) : old.events[i].kind # "failed"
      /\ query.abort = r => /\ task[r].tab \in Tabs
                            /\ Foretold(r, old, ViewOf(tab[task[r].tab]))
  BY <1>1, <1>2, TaskIsBusy
<1>4. PICK e \in Event_ : e.kind \in {"columns", "rows"} /\ e.index = old.index
                          /\ e.kind = (IF old.sent THEN "rows" ELSE "columns")
  <2>1. [kind |-> IF old.sent THEN "rows" ELSE "columns", index |-> old.index] \in Event_
    BY <1>3 DEF Event_
  <2>2. QED
    BY <2>1
<1> DEFINE sent == Append(old.events, e)
<1>10. PICK n \in Nat : n = IF old.sent THEN old.batches + 1 ELSE 0
  BY DEF Work
<1>11. sent \in Seq(Event_)
  BY DEF Work
<1>5. PICK k : k = [old EXCEPT !.events = sent, !.sent = TRUE,
                               !.batches = n]
  OBVIOUS
<1>6. /\ k \in Work /\ k.at = "begin" /\ k.tab = old.tab /\ k.listening = old.listening
      /\ k.script = old.script /\ k.index = old.index /\ k.sent
      /\ k.events = Append(old.events, e)
      /\ k.batches = IF old.sent THEN old.batches + 1 ELSE 0
  <2> HIDE DEF sent
  <2>1. /\ k \in Work /\ k.at = "begin" /\ k.tab = old.tab /\ k.listening = old.listening
        /\ k.script = old.script /\ k.index = old.index /\ k.sent
        /\ k.events = sent /\ k.batches = n
    BY <1>1, <1>2, <1>5, <1>11 DEF Work
  <2>2. QED
    BY <1>10, <2>1 DEF sent
<1>7. task' = [task EXCEPT ![r] = k]
  <2>1. CASE old.sent
    <3>1. e = [kind |-> "rows", index |-> old.index]
      BY <1>4, <2>1 DEF Event_
    <3>2. Send(r, "rows") = [old EXCEPT !.events = Append(old.events, e)]
      BY <1>2, <3>1 DEF Send, Event
    <3>3. [Send(r, "rows") EXCEPT !.batches = @ + 1] = k
      BY <1>5, <1>10, <2>1, <3>2 DEF Work
    <3>4. QED
      BY <1>2, <2>1, <3>3 DEF Stream
  <2>2. CASE ~old.sent
    <3>1. e = [kind |-> "columns", index |-> old.index]
      BY <1>4, <2>2 DEF Event_
    <3>2. Send(r, "columns") = [old EXCEPT !.events = Append(old.events, e)]
      BY <1>2, <3>1 DEF Send, Event
    <3>3. [Send(r, "columns") EXCEPT !.sent = TRUE, !.batches = 0] = k
      BY <1>5, <1>10, <2>2, <3>2 DEF Work
    <3>4. QED
      BY <1>2, <2>2, <3>3 DEF Stream
  <2>3. QED
    BY <2>1, <2>2
<1>8. ASSUME query.abort = r PROVE Foretold(r, k, ViewOf(tab[task[r].tab])) /\ Asks(k, None)
  <2>1. PICK v \in Views : v = ViewOf(tab[task[r].tab]) /\ Foretold(r, old, v)
    <3>1. ViewOf(tab[task[r].tab]) \in Views
      BY <1>3, <1>8, Types DEF Inductive, Shown, ViewOf, Views
    <3>2. QED
      BY <1>3, <1>8, <3>1
  <2>2. ASSUME NEW w \in Views, Whole(r, w), w.rows = old.batches, Awaits(r, old, w)
        PROVE  /\ Whole(r, After(w, r, e)) /\ After(w, r, e).rows = k.batches
               /\ Awaits(r, k, After(w, r, e))
    <3>1. CASE ~old.sent
      <4>1. After(w, r, e) = [rows |-> 0, pending |-> TRUE, grid |-> w.grid]
        BY <1>4, <3>1 DEF After
      <4>2. QED
        BY <1>6, <2>2, <3>1, <4>1 DEF Whole, Awaits
    <3>2. CASE old.sent
      <4>1. After(w, r, e) =
              [rows |-> w.rows + 1, pending |-> FALSE,
               grid |-> IF w.pending THEN {<<r, e.index>>} ELSE w.grid \cup {<<r, e.index>>}]
        BY <1>4, <3>2 DEF After
      <4>2. (IF w.pending THEN {<<r, e.index>>} ELSE w.grid \cup {<<r, e.index>>}) = {<<r, e.index>>}
        BY <1>4, <2>2, <3>2 DEF Awaits
      <4>3. After(w, r, e) = [rows |-> w.rows + 1, pending |-> FALSE, grid |-> {<<r, e.index>>}]
        BY <4>1, <4>2
      <4>4. QED
        BY <1>4, <1>6, <2>2, <3>2, <4>3 DEF Whole, OneSource, Awaits
    <3>3. QED
      BY <3>1, <3>2
  <2>3. Foretold(r, k, v)
    BY <1>6, <2>1, <2>2, ForetoldGrows
  <2>4. Asks(k, None)
    <3>1. /\ Len(k.events) = Len(old.events) + 1 /\ k.events[Len(old.events) + 1] = e
          /\ \A i \in 1..Len(old.events) : k.events[i] = old.events[i]
      BY <1>6 DEF Work
    <3>2. \A i \in 1..Len(k.events) : k.events[i].kind # "failed"
      <4>1. SUFFICES ASSUME NEW i \in 1..Len(k.events) PROVE k.events[i].kind # "failed"
        OBVIOUS
      <4>2. Len(old.events) \in Nat
        BY DEF Work
      <4>3. CASE i = Len(old.events) + 1
        BY <1>4, <3>1, <4>3
      <4>4. CASE i # Len(old.events) + 1
        <5>1. i \in 1..Len(old.events)
          BY <3>1, <4>2, <4>4
        <5>2. QED
          BY <1>3, <1>8, <3>1, <5>1
      <4>5. QED
        BY <4>3, <4>4
    <3>3. QED
      BY <3>2 DEF Asks
  <2>5. QED
    BY <2>1, <2>3, <2>4
<1>9. QED
  BY <1>1, <1>2, <1>3, <1>6, <1>7, <1>8, StepKeeps

LEMMA SucceedsKeeps ==
    ASSUME Inductive, NEW r \in Runs, Succeeds(r)
    PROVE  Inductive'
<1>1. task[r].at = "begin" /\ UNCHANGED Others
  BY DEF Succeeds
<1>2. PICK old \in Work : old = task[r]
  BY <1>1, TaskIsBusy
<1>3. /\ old.index \in Places /\ old.index <= Len(old.script) /\ old.script \in Scripts
      /\ Len(old.script) \in Nat
      /\ query.abort = r => \A i \in 1..Len(old.events) : old.events[i].kind # "failed"
      /\ query.abort = r => /\ task[r].tab \in Tabs
                            /\ Foretold(r, old, ViewOf(tab[task[r].tab]))
  BY <1>1, <1>2, TaskIsBusy
<1>4. PICK done : done = [old EXCEPT !.ok = @ \cup {old.index}]
  OBVIOUS
<1>5. PICK k : k = IF IsLast(r) THEN [done EXCEPT !.at = "ok"]
                   ELSE [done EXCEPT !.index = @ + 1, !.sent = FALSE]
  OBVIOUS
<1>6. task' = [task EXCEPT ![r] = k]
  BY <1>2, <1>4, <1>5 DEF Succeeds
<1>7. /\ done \in Work /\ done.at = "begin" /\ done.tab = old.tab
      /\ done.listening = old.listening /\ done.script = old.script /\ done.index = old.index
      /\ done.events = old.events /\ done.batches = old.batches /\ done.sent = old.sent
  BY <1>1, <1>2, <1>3, <1>4 DEF Work
<1>8. /\ k \in Work /\ k.at \in {"begin", "ok"} /\ k.tab = old.tab
      /\ k.listening = old.listening /\ k.script = old.script
      /\ k.events = old.events /\ k.batches = old.batches
      /\ k.sent => old.sent /\ k.index = old.index
      /\ k.at = "begin" => k.index <= Len(k.script)
  <2>1. CASE IsLast(r)
    BY <1>5, <1>7, <2>1 DEF Work, Ended
  <2>2. CASE ~IsLast(r)
    <3>1. old.index + 1 \in Places /\ old.index + 1 <= Len(old.script)
      BY <1>2, <1>3, <2>2 DEF IsLast, Places
    <3>2. k = [done EXCEPT !.index = old.index + 1, !.sent = FALSE]
      BY <1>5, <1>7, <2>2
    <3>3. QED
      BY <1>7, <3>1, <3>2 DEF Work
  <2>3. QED
    BY <2>1, <2>2
<1>9. ASSUME query.abort = r PROVE Foretold(r, k, ViewOf(tab[task[r].tab])) /\ Asks(k, None)
  <2>1. ViewOf(tab[task[r].tab]) \in Views
    BY <1>3, <1>9, Types DEF Inductive, Shown, ViewOf, Views
  <2>2. Foretold(r, k, ViewOf(tab[task[r].tab]))
    BY <1>3, <1>8, <1>9, <2>1, ForetoldStays
  <2>3. Asks(k, None)
    BY <1>3, <1>8, <1>9 DEF Asks
  <2>4. QED
    BY <2>2, <2>3
<1>10. QED
  BY <1>1, <1>2, <1>6, <1>8, <1>9, StepKeeps

LEMMA FailsKeeps ==
    ASSUME Inductive, NEW r \in Runs, Fails(r)
    PROVE  Inductive'
<1>1. task[r].at = "begin" /\ UNCHANGED Others
  BY DEF Fails
<1>2. PICK old \in Work : old = task[r]
  BY <1>1, TaskIsBusy
<1>3. /\ old.index \in Places /\ old.index <= Len(old.script) /\ old.script \in Scripts
      /\ Len(old.script) \in Nat
      /\ query.abort = r => \A i \in 1..Len(old.events) : old.events[i].kind # "failed"
      /\ query.abort = r => /\ task[r].tab \in Tabs
                            /\ Foretold(r, old, ViewOf(tab[task[r].tab]))
  BY <1>1, <1>2, TaskIsBusy
<1>4. query.abort = r => ViewOf(tab[task[r].tab]) \in Views
  BY <1>3, Types DEF Inductive, Shown, ViewOf, Views
<1>5. CASE IsLast(r)
  <2>1. PICK k : k = [old EXCEPT !.at = "failed"]
    OBVIOUS
  <2>2. task' = [task EXCEPT ![r] = k]
    BY <1>2, <1>5, <2>1 DEF Fails
  <2>3. /\ k \in Work /\ k.at = "failed" /\ k.tab = old.tab
        /\ k.listening = old.listening /\ k.script = old.script
        /\ k.events = old.events /\ k.batches = old.batches
        /\ k.sent = old.sent /\ k.index = old.index
    BY <2>1 DEF Work, Ended
  <2>4. query.abort = r => Foretold(r, k, ViewOf(tab[task[r].tab]))
    BY <1>3, <1>4, <2>3, ForetoldStays
  <2>5. query.abort = r => Asks(k, None)
    BY <1>3, <2>3 DEF Asks
  <2>6. QED
    BY <1>1, <1>2, <2>2, <2>3, <2>4, <2>5, StepKeeps
<1>6. CASE ~IsLast(r)
  <2>1. PICK e \in Event_ : e = [kind |-> "failed", index |-> old.index]
    BY <1>3 DEF Event_
  <2>2. e.kind = "failed" /\ e.index = old.index /\ e = Event("failed", r)
    BY <1>2, <2>1 DEF Event
  <2> DEFINE sent == Append(old.events, e)
  <2>10. sent \in Seq(Event_)
    BY DEF Work
  <2>3. PICK k : k = [old EXCEPT !.events = sent, !.at = "waiting"]
    OBVIOUS
  <2>4. /\ k \in Work /\ k.at = "waiting" /\ k.tab = old.tab
        /\ k.listening = old.listening /\ k.script = old.script
        /\ k.events = Append(old.events, e) /\ k.batches = old.batches
        /\ k.sent = old.sent /\ k.index = old.index
    <3> HIDE DEF sent
    <3>1. /\ k \in Work /\ k.at = "waiting" /\ k.tab = old.tab
          /\ k.listening = old.listening /\ k.script = old.script
          /\ k.events = sent /\ k.batches = old.batches
          /\ k.sent = old.sent /\ k.index = old.index
      BY <2>3, <2>10 DEF Work
    <3>2. QED
      BY <3>1 DEF sent
  <2>5. task' = [task EXCEPT ![r] = k]
    <3>1. Send(r, "failed") = [old EXCEPT !.events = Append(old.events, e)]
      BY <1>2, <2>2 DEF Send
    <3>2. [Send(r, "failed") EXCEPT !.at = "waiting"] = k
      BY <2>3, <3>1 DEF Work
    <3>3. QED
      BY <1>2, <1>6, <3>2 DEF Fails
  <2>6. k.index < Len(k.script) /\ k.index <= Len(k.script)
    BY <1>2, <1>3, <1>6, <2>4 DEF IsLast, Places
  <2>7. ASSUME query.abort = r PROVE Foretold(r, k, ViewOf(tab[task[r].tab]))
    <3>1. \A w \in Views : After(w, r, e) = w
      BY <2>2 DEF After
    <3>2. \A w \in Views : Awaits(r, old, w) => Awaits(r, k, w)
      BY <2>4 DEF Awaits
    <3>3. QED
      BY <1>3, <1>4, <2>4, <2>7, <3>1, <3>2, ForetoldGrows
  <2>8. ASSUME query.abort = r PROVE Asks(k, None)
    <3>1. /\ Len(k.events) = Len(old.events) + 1 /\ k.events[Len(old.events) + 1] = e
          /\ \A i \in 1..Len(old.events) : k.events[i] = old.events[i]
          /\ Len(old.events) \in Nat
      BY <2>4 DEF Work
    <3>2. ASSUME NEW i \in 1..Len(k.events), k.events[i].kind = "failed"
          PROVE  i = Len(k.events) /\ k.events[i].index = k.index
      <4>1. i \notin 1..Len(old.events)
        BY <1>3, <2>8, <3>1, <3>2
      <4>2. i = Len(old.events) + 1
        BY <3>1, <4>1
      <4>3. QED
        BY <2>2, <2>4, <3>1, <4>2
    <3>3. QED
      BY <2>4, <3>2 DEF Asks
  <2>9. QED
    BY <1>1, <1>2, <2>4, <2>5, <2>6, <2>7, <2>8, StepKeeps
<1>7. QED
  BY <1>5, <1>6

LEMMA ResolveKeeps ==
    ASSUME Inductive, NEW skip \in BOOLEAN, Resolve(skip)
    PROVE  Inductive'
<1>1. /\ query.decision # None /\ query' = [query EXCEPT !.decision = None]
      /\ Resume(query.decision.run, skip) /\ UNCHANGED <<timers, history>>
      /\ tab' = [t \in Tabs |-> IF skip /\ IsFirst({"statement_error"}, t)
                                THEN [tab[t] EXCEPT !.outcome = "running"] ELSE tab[t]]
  BY DEF Resolve
<1>2. PICK r \in Runs : r = query.decision.run
  BY <1>1, Types DEF Inductive, Query, OrNone
<1>3. PICK a : a = task[r].tab
  OBVIOUS
<1>4. /\ query.abort = r /\ r # None /\ task[r].at = "waiting"
      /\ tab[a].outcome = "statement_error" /\ a \in Tabs
      /\ Foretold(r, task[r], ViewOf(tab[a])) /\ Asks(task[r], query.decision)
  <2>1. r # None
    BY QueryAssumption DEF Runs
  <2>2. query.abort = r /\ task[r].at = "waiting" /\ tab[a].outcome = "statement_error"
    BY <1>1, <1>2, <1>3 DEF Inductive, DecisionIsLive
  <2>3. QED
    BY <1>3, <2>1, <2>2 DEF Inductive, Flight
<1>5. PICK old \in Work : old = task[r]
  BY Types DEF Inductive
<1>6. /\ old.at = "waiting" /\ old.script \in Scripts /\ Len(old.script) \in Nat
      /\ old.index \in Places /\ old.index < Len(old.script)
  <2>1. RunKept(r, old, query.run_id, query.abort)
    BY <1>5 DEF Inductive
  <2>2. old.script \in Scripts /\ old.index < Len(old.script) /\ old.index \in Places
    BY <1>4, <1>5, <2>1 DEF RunKept, Work
  <2>3. Len(old.script) \in Nat
    <3>1. old.script \in Seq({"select", "command"})
      BY <2>2, QueryAssumption
    <3>2. QED
      BY <3>1
  <2>4. QED
    BY <1>4, <1>5, <2>2, <2>3
<1>7. \A i \in 1..Len(old.events) : old.events[i].kind # "failed"
  BY <1>1, <1>4, <1>5 DEF Asks
<1>8. PICK k : k = IF skip THEN [old EXCEPT !.index = old.index + 1, !.at = "begin", !.sent = FALSE]
                   ELSE [old EXCEPT !.at = "failed"]
  OBVIOUS
<1>9. task' = [task EXCEPT ![r] = k]
  <2>1. ToNext(r) = [old EXCEPT !.index = old.index + 1, !.at = "begin", !.sent = FALSE]
    BY <1>5 DEF ToNext, Work
  <2>2. CASE skip
    BY <1>1, <1>2, <1>4, <1>5, <1>8, <2>1, <2>2 DEF Resume
  <2>3. CASE ~skip
    BY <1>1, <1>2, <1>4, <1>5, <1>8, <2>3 DEF Resume
  <2>4. QED
    BY <2>2, <2>3
<1>10. /\ k \in Work /\ k.at \in {"begin", "failed"} /\ k.tab = old.tab
       /\ k.listening = old.listening /\ k.script = old.script
       /\ k.events = old.events /\ k.batches = old.batches
       /\ k.sent => old.sent /\ k.index = old.index
       /\ k.at = "begin" => k.index <= Len(k.script)
  <2>1. old.index + 1 \in Places /\ old.index + 1 <= Len(old.script)
    BY <1>6 DEF Places
  <2>2. CASE skip
    BY <1>8, <2>1, <2>2 DEF Work
  <2>3. CASE ~skip
    BY <1>8, <2>3 DEF Work, Ended
  <2>4. QED
    BY <2>2, <2>3
<1>11. Foretold(r, k, ViewOf(tab[a])) /\ Asks(k, None)
  <2>1. ViewOf(tab[a]) \in Views
    BY <1>4, Types DEF Inductive, Shown, ViewOf, Views
  <2>2. QED
    BY <1>4, <1>5, <1>7, <1>10, <2>1, ForetoldStays DEF Asks
<1>12. /\ query' \in Query /\ query'.tabs = query.tabs /\ query'.active = query.active
       /\ query'.opened = query.opened /\ query'.run_id = query.run_id
       /\ query'.abort = query.abort /\ query'.decision = None
  <2>1. PICK o \in Query : o = query
    BY Types DEF Inductive
  <2>2. query' = [o EXCEPT !.decision = None]
    BY <1>1, <2>1
  <2>3. QED
    BY <2>1, <2>2 DEF Query, OrNone
<1>13. PICK tb : tb = tab'
  OBVIOUS
<1>14. \A t \in Tabs : \/ tb[t] = tab[t]
                       \/ t = a /\ tb[t] = [tab[t] EXCEPT !.outcome = "running"]
  <2>1. {"statement_error"} \in SUBSET GoingOn
    BY DEF GoingOn
  <2>2. \A t \in Tabs : IsFirst({"statement_error"}, t) <=> t = a
    BY <1>3, <1>4, <2>1, FirstIsLive
  <2>3. QED
    BY <1>1, <1>13, <2>2
<1>15. tb \in [Tabs -> Shown]
  <2>1. \A x \in Shown : [x EXCEPT !.outcome = "running"] \in Shown
    BY DEF Shown, Outcomes
  <2>2. tab \in [Tabs -> Shown]
    BY Types DEF Inductive
  <2>3. QED
    BY <1>1, <1>13, <2>1, <2>2
<1>16. \A t \in Tabs : \/ tb[t] = tab[t]
                       \/ /\ query.abort # None /\ t = task[query.abort].tab
                          /\ tb[t] = [tab[t] EXCEPT !.outcome = "running"]
  BY <1>3, <1>4, <1>14
<1>17. k.at # "waiting" /\ k.at \in {"begin", "waiting", "ok", "failed"}
       /\ (k.at \in {"begin", "waiting"} => k.index <= Len(k.script))
  BY <1>10
<1>18. task[r].at \in {"begin", "waiting"} /\ k.tab = task[r].tab
       /\ k.listening = task[r].listening /\ k.script = task[r].script
  BY <1>4, <1>5, <1>10
<1>19. query.abort = r => /\ Foretold(r, k, ViewOf(tab[task[r].tab])) /\ Asks(k, None)
                          /\ query'.decision = None
  BY <1>3, <1>11, <1>12
<1>20. k \in Work /\ (k.at = "waiting" => k.index < Len(k.script))
       /\ (k.at \in {"begin", "waiting"} => k.index <= Len(k.script))
       /\ k.at \in {"begin", "waiting", "ok", "failed"}
  BY <1>10, <1>17
<1>21. tab' = tb /\ UNCHANGED <<timers, history>>
  BY <1>1, <1>13
<1> HIDE DEF Inductive
<1>22. QED
  BY ONLY Inductive, r \in Runs, <1>9, <1>12, <1>15, <1>16, <1>18, <1>19, <1>20, <1>21, TaskKeeps

-----------------------------------------------------------------------------
(* The listener applies what it hears of the run in flight, and no other. *)

LEMMA RunIsLive ==
    ASSUME Inductive, NEW r \in Runs, query.run_id = r, task[r].at \notin {"none", "done"}
    PROVE  /\ query.abort = r /\ r # None /\ task[r].tab \in Tabs /\ Open(task[r].tab)
           /\ Spinning(task[r].tab) /\ tab[task[r].tab].run = r /\ task[r].listening
           /\ task[r].at \in {"begin", "waiting", "ok", "failed"}
           /\ Foretold(r, task[r], ViewOf(tab[task[r].tab])) /\ Asks(task[r], query.decision)
<1>1. r # None
  BY QueryAssumption DEF Runs
<1>2. RunKept(r, task[r], query.run_id, query.abort)
  BY DEF Inductive
<1>3. query.abort = r
  BY <1>2 DEF RunKept
<1>4. QED
  BY <1>1, <1>3 DEF Inductive, Flight, SpinnerIsLive

\* The tab of the run in flight shows y; the run goes on.
LEMMA ShowKeeps ==
    ASSUME Inductive, NEW r \in Runs, query.run_id = r, task[r].at \notin {"none", "done"},
           NEW k \in Work, task' = [task EXCEPT ![r] = k],
           k.at = task[r].at, k.tab = task[r].tab, k.listening = task[r].listening,
           k.script = task[r].script, k.index = task[r].index,
           NEW a, a = task[r].tab, NEW y \in Shown, tab' = [tab EXCEPT ![a] = y],
           y.run = r, y.outcome \in GoingOn, Foretold(r, k, ViewOf(y)),
           query' \in Query, query'.tabs = query.tabs, query'.active = query.active,
           query'.opened = query.opened, query'.run_id = query.run_id,
           query'.abort = query.abort, Asks(k, query'.decision),
           query'.decision # None => /\ query'.decision.run = r /\ k.at = "waiting"
                                     /\ k.index = query'.decision.index
                                     /\ y.outcome = "statement_error",
           UNCHANGED <<timers, history>>
    PROVE  Inductive'
<1>1. /\ query.abort = r /\ r # None /\ a \in Tabs /\ Open(a) /\ Spinning(a)
      /\ tab[a].run = r /\ k.listening /\ k.at \in {"begin", "waiting", "ok", "failed"}
  BY RunIsLive
<1>2. task \in [Runs -> Work] /\ tab \in [Tabs -> Shown]
  BY Types DEF Inductive
<1>3. task' \in [Runs -> Work] /\ task'[r] = k /\ \A s \in Runs : s # r => task'[s] = task[s]
  BY <1>2
<1>4. tab' \in [Tabs -> Shown] /\ tab'[a] = y /\ \A t \in Tabs : t # a => tab'[t] = tab[t]
  BY <1>1, <1>2
<1>5. TypeOK'
  <2>1. /\ HasActive \/ query.tabs = <<>>
        /\ timers \subseteq 1..MaxRewrites /\ history \subseteq Statements
    BY Types DEF Inductive
  <2>2. (HasActive \/ query.tabs = <<>>)'
    BY <2>1 DEF HasActive
  <2>3. QED
    BY <1>3, <1>4, <2>1, <2>2, Types DEF TypeOK, Query, Shown, Work, Event_
<1>6. \A t : Open(t)' <=> Open(t)
  BY DEF Open
<1>7. Strip'
  BY <1>1, <1>4, <1>6 DEF Strip, Inductive
<1>8. SpinnerIsLive'
  <2>1. \A t \in Tabs : Open(t) => (Spinning(t)' <=> t = a)
    BY <1>1, <1>4 DEF Inductive, SpinnerIsLive, Spinning
  <2>2. query'.abort = r /\ task'[r].tab = a
    BY <1>1, <1>3
  <2>3. QED
    BY <1>1, <1>4, <1>6, <2>1, <2>2 DEF SpinnerIsLive
<1>9. DecisionIsLive'
  BY <1>1, <1>3, <1>4 DEF DecisionIsLive
<1>10. Flight'
  BY <1>1, <1>3, <1>4 DEF Flight
<1>11. \A s \in Runs : RunKept(s, task[s], query.run_id, query.abort)'
  <2>1. SUFFICES ASSUME NEW s \in Runs PROVE RunKept(s, task'[s], query.run_id, query.abort)
    OBVIOUS
  <2>2. RunKept(s, task[s], query.run_id, query.abort)
    BY DEF Inductive
  <2>3. QED
    BY <1>3, <2>2 DEF RunKept
<1>12. \A t \in Tabs : TabKept(tab[t], task, query.run_id)'
  <2>1. SUFFICES ASSUME NEW t \in Tabs PROVE TabKept(tab'[t], task', query.run_id)
    OBVIOUS
  <2>2. \A s \in Runs : task[s].at = "done" => task'[s].at = "done" /\ task'[s].batches = task[s].batches
    BY <1>3
  <2>3. CASE t = a
    <3>1. OneSource(y.grid)
      <4>1. PICK f : Course(f, r, k, ViewOf(y))
        BY DEF Foretold
      <4>2. Len(k.events) \in Nat
        BY DEF Work
      <4>3. Whole(r, ViewOf(y))
        BY <4>1, <4>2 DEF Course
      <4>4. QED
        BY <4>3 DEF Whole, ViewOf
    <3>2. y.outcome # "complete" /\ y.run <= query.run_id
      BY DEF GoingOn, Runs
    <3>3. TabKept(y, task', query.run_id)
      BY <3>1, <3>2 DEF TabKept
    <3>4. QED
      BY <1>4, <2>3, <3>3
  <2>4. CASE t # a
    BY <1>4, <2>2, <2>4, TabLeft
  <2>5. QED
    BY <2>3, <2>4
<1>13. QED
  BY <1>5, <1>7, <1>8, <1>9, <1>10, <1>11, <1>12 DEF Inductive

\* A run that is not in flight is no longer listened to, or has ended.
LEMMA LeaveKeeps ==
    ASSUME Inductive, NEW r \in Runs, query.abort # r, task[r].at \notin {"none", "done"},
           NEW k \in Work, task' = [task EXCEPT ![r] = k],
           k.at = task[r].at \/ k.at = "done", ~k.listening, k.script = task[r].script,
           k.index = task[r].index, UNCHANGED <<query, tab, timers, history>>
    PROVE  Inductive'
<1>1. task \in [Runs -> Work] /\ query \in Query
  BY Types DEF Inductive
<1>2. task' \in [Runs -> Work] /\ task'[r] = k /\ \A s \in Runs : s # r => task'[s] = task[s]
  BY <1>1
<1>3. TypeOK'
  <2>1. /\ HasActive \/ query.tabs = <<>>
        /\ timers \subseteq 1..MaxRewrites /\ history \subseteq Statements
        /\ tab \in [Tabs -> Shown]
    BY Types DEF Inductive
  <2>2. (HasActive \/ query.tabs = <<>>)'
    BY <2>1 DEF HasActive
  <2>3. QED
    BY <1>1, <1>2, <2>1, <2>2, Types DEF TypeOK, Query, Shown, Work, Event_
<1>4. \A t : Open(t)' <=> Open(t)
  BY DEF Open
<1>5. query.abort # None => query.abort \in Runs /\ task'[query.abort] = task[query.abort]
  BY <1>1, <1>2 DEF Query, OrNone
<1>6. query.decision # None => query.decision.run \in Runs
                               /\ task'[query.decision.run] = task[query.decision.run]
  <2>1. query.decision # None => query.decision.run \in Runs
    BY <1>1 DEF Query, OrNone
  <2>2. query.decision # None => query.decision.run = query.abort
    BY DEF Inductive, DecisionIsLive
  <2>3. QED
    BY <1>2, <2>1, <2>2
<1>7. Strip'
  BY <1>4 DEF Strip, Inductive
<1>8. SpinnerIsLive'
  BY <1>4, <1>5 DEF SpinnerIsLive, Spinning, Inductive
<1>9. DecisionIsLive'
  BY <1>6 DEF DecisionIsLive, Inductive
<1>10. Flight'
  BY <1>5 DEF Flight, Inductive
<1>11. \A s \in Runs : RunKept(s, task[s], query.run_id, query.abort)'
  <2>1. SUFFICES ASSUME NEW s \in Runs PROVE RunKept(s, task'[s], query.run_id, query.abort)
    OBVIOUS
  <2>2. RunKept(s, task[s], query.run_id, query.abort)
    BY DEF Inductive
  <2>3. QED
    BY <1>2, <2>2 DEF RunKept
<1>12. \A t \in Tabs : TabKept(tab[t], task, query.run_id)'
  <2>1. \A s \in Runs : task[s].at = "done" => task'[s].at = "done" /\ task'[s].batches = task[s].batches
    BY <1>2
  <2>2. QED
    BY <2>1, TabLeft
<1>13. QED
  BY <1>3, <1>7, <1>8, <1>9, <1>10, <1>11, <1>12 DEF Inductive

LEMMA ReceiveKeeps ==
    ASSUME Inductive, NEW r \in Runs, Receive(r)
    PROVE  Inductive'
<1>1. task[r].listening /\ task[r].events # <<>> /\ UNCHANGED <<timers, history>>
  BY DEF Receive
<1>2. PICK old \in Work : old = task[r]
  BY Types DEF Inductive
<1>3. old.at \notin {"none", "done"}
  BY <1>1, <1>2 DEF Inductive, RunKept
<1>4. CASE ~(Current(r) /\ Open(task[r].tab))
  <2>1. PICK k : k = [old EXCEPT !.listening = FALSE, !.events = <<>>]
    OBVIOUS
  <2>2. k \in Work /\ k.at = old.at /\ ~k.listening /\ k.script = old.script /\ k.index = old.index
    <3>1. <<>> \in Seq(Event_)
      OBVIOUS
    <3>2. QED
      BY <2>1, <3>1 DEF Work
  <2>3. task' = [task EXCEPT ![r] = k] /\ UNCHANGED <<query, tab>>
    <3>1. task' = [task EXCEPT ![r].listening = FALSE, ![r].events = <<>>] /\ UNCHANGED <<query, tab>>
      BY <1>4, Zenon DEF Receive
    <3>2. task \in [Runs -> Work]
      BY Types DEF Inductive
    <3>3. task' = [task EXCEPT ![r] = k]
      BY <1>2, <2>1, <3>1, <3>2
    <3>4. QED
      BY <3>1, <3>3
  <2>4. query.abort # r
    <3>1. r # None
      BY QueryAssumption DEF Runs
    <3>2. SUFFICES ASSUME query.abort = r PROVE FALSE
      OBVIOUS
    <3>3. query.run_id = r /\ Open(task[r].tab)
      BY <3>1, <3>2 DEF Inductive, Flight, SpinnerIsLive
    <3>4. QED
      BY <1>4, <3>3 DEF Current
  <2>5. QED
    BY <1>1, <1>2, <1>3, <2>2, <2>3, <2>4, LeaveKeeps
<1>5. CASE Current(r) /\ Open(task[r].tab)
  <2>1. task' = Heard(r) /\ Apply(r, task[r].tab, Head(task[r].events))
    BY <1>5, Zenon DEF Receive
  <2>2. PICK a : a = task[r].tab
    OBVIOUS
  <2>3. /\ query.run_id = r /\ query.abort = r /\ r # None /\ a \in Tabs /\ Spinning(a)
        /\ tab[a].run = r /\ Foretold(r, old, ViewOf(tab[a])) /\ Asks(old, query.decision)
    BY <1>2, <1>3, <1>5, <2>2, RunIsLive DEF Current
  <2>4. PICK x \in Shown : x = tab[a]
    BY <2>3, Types DEF Inductive
  <2>5. x.run = r /\ x.outcome \in GoingOn /\ ViewOf(x) \in Views
        /\ Foretold(r, old, ViewOf(x))
    BY <2>3, <2>4 DEF Spinning, Shown, ViewOf, Views
  <2>6. PICK e \in Event_ : e = Head(old.events)
    BY <1>1, <1>2 DEF Work
  <2>7. PICK rest \in Seq(Event_) : rest = Tail(old.events)
    <3>1. old.events \in Seq(Event_) /\ old.events # <<>>
      BY <1>1, <1>2 DEF Work
    <3>2. QED
      BY <3>1, HeadTailProperties
  <2>8. PICK k : k = [old EXCEPT !.events = rest]
    OBVIOUS
  <2>9. /\ k \in Work /\ k.at = old.at /\ k.tab = old.tab /\ k.listening = old.listening
        /\ k.script = old.script /\ k.index = old.index /\ k.batches = old.batches
        /\ k.sent = old.sent /\ k.events = Tail(old.events)
    BY <2>7, <2>8 DEF Work
  <2>10. task' = [task EXCEPT ![r] = k]
    BY <1>2, <2>1, <2>7, <2>8 DEF Heard
  <2>11. Foretold(r, k, After(ViewOf(x), r, e))
    BY <1>1, <1>2, <2>5, <2>6, <2>9, ForetoldHears
  <2>12. /\ Len(old.events) \in Nat /\ Len(k.events) = Len(old.events) - 1
         /\ e = old.events[1] /\ Len(old.events) >= 1
         /\ \A i \in 1..Len(k.events) : k.events[i] = old.events[i + 1]
                                        /\ i + 1 \in 1..Len(old.events)
    BY <1>1, <1>2, <2>6, <2>9 DEF Work
  <2>13. query \in Query
    BY Types DEF Inductive
  <2>14. /\ k.at = task[r].at /\ k.tab = task[r].tab /\ k.listening = task[r].listening
         /\ k.script = task[r].script /\ k.index = task[r].index /\ task[r].at \notin {"none", "done"}
    BY <1>2, <1>3, <2>9
  <2>15. ASSUME NEW y \in Shown, NEW q \in Query, tab' = [tab EXCEPT ![a] = y], query' = q,
                y.run = r, y.outcome \in GoingOn, ViewOf(y) = After(ViewOf(x), r, e),
                q.tabs = query.tabs, q.active = query.active, q.opened = query.opened,
                q.run_id = query.run_id, q.abort = query.abort, Asks(k, q.decision),
                q.decision # None => /\ q.decision.run = r /\ k.at = "waiting"
                                     /\ k.index = q.decision.index
                                     /\ y.outcome = "statement_error"
         PROVE  Inductive'
    <3>1. Foretold(r, k, ViewOf(y)) /\ k \in Work
      BY <2>9, <2>11, <2>15
    <3>2. /\ query' \in Query /\ query'.tabs = query.tabs /\ query'.active = query.active
          /\ query'.opened = query.opened /\ query'.run_id = query.run_id
          /\ query'.abort = query.abort /\ Asks(k, query'.decision)
      BY <2>15
    <3>3. query'.decision # None => /\ query'.decision.run = r /\ k.at = "waiting"
                                    /\ k.index = query'.decision.index
                                    /\ y.outcome = "statement_error"
      BY <2>15
    <3>4. /\ tab' = [tab EXCEPT ![a] = y] /\ y.run = r /\ y.outcome \in GoingOn
          /\ a = task[r].tab /\ query.run_id = r /\ UNCHANGED <<timers, history>>
      BY <1>1, <2>2, <2>3, <2>15
    <3>5. QED
      BY ONLY Inductive, r \in Runs, y \in Shown, <2>10, <2>14, <3>1, <3>2, <3>3, <3>4, ShowKeeps
  <2>16. /\ query.decision # None => /\ query.decision.run = r /\ k.at = "waiting"
                                     /\ k.index = query.decision.index
                                     /\ x.outcome = "statement_error"
    BY <1>2, <2>2, <2>3, <2>4, <2>9 DEF Inductive, DecisionIsLive
  <2>17. e.kind # "failed" => Asks(k, query.decision)
    <3>1. SUFFICES ASSUME NEW i \in 1..Len(k.events), k.events[i].kind = "failed"
                   PROVE  /\ i = Len(k.events) /\ k.at = "waiting"
                          /\ k.events[i].index = k.index /\ query.decision = None
      BY DEF Asks
    <3>2. /\ i + 1 = Len(old.events) /\ old.at = "waiting"
          /\ old.events[i + 1].index = old.index /\ query.decision = None
      BY <2>3, <2>12, <3>1 DEF Asks
    <3>3. QED
      BY <2>9, <2>12, <3>2
  <2>18. CASE e.kind = "columns" /\ UNCHANGED query
              /\ tab' = [tab EXCEPT ![a].rows = 0, ![a].pending = TRUE]
    <3>1. PICK y : y = [x EXCEPT !.rows = 0, !.pending = TRUE]
      OBVIOUS
    <3>2. y \in Shown /\ y.run = x.run /\ y.outcome = x.outcome
          /\ y.rows = 0 /\ y.pending = TRUE /\ y.grid = x.grid
      BY <3>1 DEF Shown
    <3>3. tab' = [tab EXCEPT ![a] = y]
      <4>1. tab \in [Tabs -> Shown]
        BY Types DEF Inductive
      <4>2. QED
        BY <2>3, <2>4, <2>18, <3>1, <4>1
    <3>4. ViewOf(y) = After(ViewOf(x), r, e)
      BY <2>18, <3>2 DEF After, ViewOf
    <3>5. QED
      BY <2>5, <2>13, <2>15, <2>16, <2>17, <2>18, <3>2, <3>3, <3>4
  <2>19. CASE e.kind = "rows" /\ UNCHANGED query
              /\ tab' = [tab EXCEPT ![a] = Appended(a, <<r, e.index>>)]
    <3>1. PICK y : y = Appended(a, <<r, e.index>>)
      OBVIOUS
    <3>2. PICK grid \in SUBSET Statements :
             grid = IF x.pending THEN {<<r, e.index>>} ELSE x.grid \cup {<<r, e.index>>}
      <4>1. <<r, e.index>> \in Statements /\ x.grid \in SUBSET Statements
        BY DEF Statements, Event_, Shown
      <4>2. {<<r, e.index>>} \in SUBSET Statements /\ x.grid \cup {<<r, e.index>>} \in SUBSET Statements
        BY <4>1
      <4>3. QED
        BY <4>2
    <3>8. PICK n \in Nat : n = x.rows + 1
      BY DEF Shown
    <3>3. y = [x EXCEPT !.rows = n, !.pending = FALSE, !.grid = grid]
      BY <2>4, <3>1, <3>2, <3>8 DEF Appended, Shown
    <3>4. y \in Shown /\ y.run = x.run /\ y.outcome = x.outcome
          /\ y.rows = n /\ y.pending = FALSE /\ y.grid = grid
      BY <3>3 DEF Shown
    <3>5. tab' = [tab EXCEPT ![a] = y]
      BY <2>19, <3>1
    <3>6. ViewOf(y) = After(ViewOf(x), r, e)
      BY <2>19, <3>2, <3>4, <3>8 DEF After, ViewOf
    <3>7. QED
      BY <2>5, <2>13, <2>15, <2>16, <2>17, <2>19, <3>4, <3>5, <3>6
  <2>20. CASE e.kind = "failed" /\ tab' = [tab EXCEPT ![a].outcome = "statement_error"]
              /\ query' = [query EXCEPT !.decision = [run |-> r, index |-> e.index]]
    <3>1. PICK y : y = [x EXCEPT !.outcome = "statement_error"]
      OBVIOUS
    <3>2. y \in Shown /\ y.run = x.run /\ y.outcome = "statement_error"
          /\ ViewOf(y) = ViewOf(x) /\ y.outcome \in GoingOn
      BY <3>1 DEF Shown, Outcomes, ViewOf, GoingOn
    <3>3. tab' = [tab EXCEPT ![a] = y]
      BY <2>4, <2>20, <3>1
    <3>4. ViewOf(y) = After(ViewOf(x), r, e)
      BY <2>20, <3>2 DEF After
    <3>5. PICK d \in [run : Runs, index : Places] : d = [run |-> r, index |-> e.index]
      BY DEF Event_
    <3>6. PICK o \in Query : o = query
      BY <2>13
    <3>7. PICK q : q = [o EXCEPT !.decision = d]
      OBVIOUS
    <3>8. /\ q \in Query /\ q.tabs = o.tabs /\ q.active = o.active /\ q.opened = o.opened
          /\ q.run_id = o.run_id /\ q.abort = o.abort /\ q.decision = d
      BY <3>7 DEF Query, OrNone
    <3>9. query' = q
      BY <2>20, <3>5, <3>6, <3>7
    <3>10. Len(old.events) = 1 /\ old.at = "waiting" /\ e.index = old.index
      <4>1. 1 \in 1..Len(old.events) /\ old.events[1].kind = "failed" /\ old.events[1] = e
        BY <2>12, <2>20
      <4>2. Asks(old, query.decision)
        BY <2>3
      <4>3. QED
        BY <4>1, <4>2, Zenon DEF Asks
    <3>11. Asks(k, q.decision)
      BY <2>12, <3>10 DEF Asks
    <3>12. q.decision.run = r /\ k.at = "waiting" /\ k.index = q.decision.index
      BY <2>9, <3>5, <3>8, <3>10
    <3>13. QED
      BY <2>5, <2>15, <3>2, <3>3, <3>4, <3>6, <3>8, <3>9, <3>11, <3>12
  <2>21. QED
    BY <1>2, <2>1, <2>2, <2>6, <2>18, <2>19, <2>20 DEF Apply
<1>6. QED
  BY <1>4, <1>5

LEMMA CompleteKeeps ==
    ASSUME Inductive, NEW r \in Runs, Complete(r)
    PROVE  Inductive'
<1>1. task[r].at \in {"ok", "failed", "aborted"} /\ task[r].events = <<>> /\ UNCHANGED timers
  BY DEF Complete, Ended, Drained
<1>2. PICK old \in Work : old = task[r]
  BY Types DEF Inductive
<1>3. PICK k : k = [old EXCEPT !.at = "done", !.listening = FALSE]
  OBVIOUS
<1>4. /\ k \in Work /\ k.at = "done" /\ ~k.listening /\ k.script = old.script
      /\ k.index = old.index /\ k.batches = old.batches /\ k.tab = old.tab
  BY <1>3 DEF Work, Ended
<1>5. task \in [Runs -> Work] /\ task' = [task EXCEPT ![r] = k]
  <2>1. task \in [Runs -> Work]
    BY Types DEF Inductive
  <2>2. task' = [task EXCEPT ![r].at = "done", ![r].listening = FALSE, ![r].events = <<>>]
    BY DEF Complete
  <2>3. [old EXCEPT !.at = "done", !.listening = FALSE, !.events = <<>>] = k
    BY <1>1, <1>2, <1>3 DEF Work
  <2>4. QED
    BY <1>2, <2>1, <2>2, <2>3
<1>6. CASE ~Current(r)
  <2>1. UNCHANGED <<query, tab, history>>
    BY <1>6, Zenon DEF Complete
  <2>2. query.abort # r
    <3>1. r # None
      BY QueryAssumption DEF Runs
    <3>2. QED
      BY <1>6, <3>1 DEF Inductive, Flight, Current
  <2>3. QED
    BY <1>1, <1>2, <1>4, <1>5, <2>1, <2>2, LeaveKeeps
<1>7. CASE Current(r)
  <2>1. PICK a : a = task[r].tab
    OBVIOUS
  <2>2. /\ query.run_id = r /\ query.abort = r /\ r # None /\ a \in Tabs /\ Open(a) /\ Spinning(a)
        /\ tab[a].run = r /\ old.at \in {"ok", "failed"}
        /\ Foretold(r, old, ViewOf(tab[a]))
    BY <1>1, <1>2, <1>7, <2>1, RunIsLive DEF Current
  <2>3. /\ query' = [query EXCEPT !.abort = None, !.decision = None]
        /\ tab' = [tab EXCEPT ![a] = Completed(r, a)] /\ history' = history \cup Recorded(r)
    BY <1>7, <2>1, <2>2, Zenon DEF Complete
  <2>4. /\ query' \in Query /\ query'.tabs = query.tabs /\ query'.active = query.active
        /\ query'.opened = query.opened /\ query'.run_id = query.run_id
        /\ query'.abort = None /\ query'.decision = None
    <3>1. PICK o \in Query : o = query
      BY Types DEF Inductive
    <3>2. query' = [o EXCEPT !.abort = None, !.decision = None]
      BY <2>3, <3>1
    <3>3. QED
      BY <3>1, <3>2 DEF Query, OrNone
  <2>5. PICK x \in Shown : x = tab[a]
    BY <2>2, Types DEF Inductive
  <2>6. x.rows = old.batches /\ Whole(r, ViewOf(x))
    <3>1. PICK f : Course(f, r, old, ViewOf(x)) /\ f[Len(old.events)].rows = old.batches
      BY <2>2, <2>5 DEF Foretold
    <3>2. Len(old.events) = 0
      BY <1>1, <1>2
    <3>3. f[0] = ViewOf(x) /\ Whole(r, f[0])
      BY <3>1, <3>2 DEF Course
    <3>4. QED
      BY <3>1, <3>2, <3>3 DEF ViewOf
  <2>7. PICK y : y = Completed(r, a)
    OBVIOUS
  <2>8. /\ y \in Shown /\ y.run = x.run /\ y.rows = x.rows /\ y.grid \in {{}, x.grid}
        /\ y.outcome \in {"complete", "error"}
    <3>1. CASE old.at = "ok"
      <4>1. PICK grid \in SUBSET Statements :
               grid = (IF x.pending THEN {} ELSE x.grid) /\ grid \in {{}, x.grid}
        BY DEF Shown
      <4>2. PICK displayed \in BOOLEAN : displayed = (x.displayed \/ old.ok # {})
        BY Zenon
      <4>3. y = [x EXCEPT !.outcome = "complete", !.pending = FALSE, !.grid = grid,
                          !.displayed = displayed]
        BY <1>2, <2>5, <2>7, <3>1, <4>1, <4>2 DEF Completed, Shown
      <4>4. QED
        BY <4>1, <4>3 DEF Shown, Outcomes
    <3>2. CASE old.at # "ok"
      <4>1. y = [x EXCEPT !.outcome = "error"]
        BY <1>2, <2>5, <2>7, <3>2 DEF Completed
      <4>2. QED
        BY <4>1 DEF Shown, Outcomes
    <3>3. QED
      BY <3>1, <3>2
  <2>9. tab \in [Tabs -> Shown] /\ tab' \in [Tabs -> Shown] /\ tab'[a] = y
        /\ \A t \in Tabs : t # a => tab'[t] = tab[t]
    <3>1. tab \in [Tabs -> Shown]
      BY Types DEF Inductive
    <3>2. QED
      BY <2>2, <2>3, <2>7, <2>8, <3>1
  <2>10. task' \in [Runs -> Work] /\ task'[r] = k /\ \A s \in Runs : s # r => task'[s] = task[s]
    BY <1>4, <1>5
  <2>11. history' \subseteq Statements
    <3>1. history \subseteq Statements /\ old.ok \subseteq Places
      BY Types DEF Inductive, Work
    <3>2. Recorded(r) \subseteq Statements
      BY <1>2, <3>1 DEF Recorded, Statements
    <3>3. QED
      BY <2>3, <3>1, <3>2
  <2>12. TypeOK'
    <3>1. (HasActive \/ query.tabs = <<>>) /\ timers \subseteq 1..MaxRewrites
      BY Types DEF Inductive
    <3>2. (HasActive \/ query.tabs = <<>>)'
      BY <2>4, <3>1 DEF HasActive
    <3>3. QED
      BY <1>1, <2>4, <2>9, <2>10, <2>11, <3>1, <3>2, Types DEF TypeOK, Query, Shown, Work, Event_
  <2>13. \A t : Open(t)' <=> Open(t)
    BY <2>4 DEF Open
  <2>14. Strip'
    BY <2>2, <2>4, <2>9, <2>13 DEF Strip, Inductive
  <2>15. SpinnerIsLive'
    <3>1. \A t \in Tabs : Open(t) => tab'[t].outcome \notin GoingOn
      BY <2>1, <2>2, <2>8, <2>9 DEF Inductive, SpinnerIsLive, Spinning, GoingOn
    <3>2. QED
      BY <2>4, <2>13, <3>1 DEF SpinnerIsLive, Spinning
  <2>16. DecisionIsLive' /\ Flight'
    BY <2>4 DEF DecisionIsLive, Flight
  <2>17. \A s \in Runs : RunKept(s, task[s], query.run_id, query.abort)'
    <3>1. SUFFICES ASSUME NEW s \in Runs PROVE RunKept(s, task'[s], query.run_id, None)
      BY <2>4
    <3>2. RunKept(s, task[s], query.run_id, query.abort)
      BY DEF Inductive
    <3>3. s = r => s <= query.run_id
      BY <2>2 DEF Runs
    <3>4. CASE s = r
      BY <1>4, <2>2, <2>10, <3>3, <3>4 DEF RunKept, Runs
    <3>5. CASE s # r
      BY <2>2, <2>10, <3>2, <3>5 DEF RunKept
    <3>6. QED
      BY <3>4, <3>5
  <2>18. \A t \in Tabs : TabKept(tab[t], task, query.run_id)'
    <3>1. SUFFICES ASSUME NEW t \in Tabs PROVE TabKept(tab'[t], task', query.run_id)
      BY <2>4
    <3>2. \A s \in Runs : task[s].at = "done" => task'[s].at = "done" /\ task'[s].batches = task[s].batches
      BY <1>1, <2>10
    <3>3. CASE t = a
      <4>1. OneSource(y.grid) /\ (y.rows > 0 => \A source \in y.grid : source[1] = r)
        BY <2>6, <2>8 DEF Whole, OneSource, ViewOf
      <4>2. y.run = r /\ y.run <= query.run_id /\ y.rows = k.batches
        BY <1>4, <2>2, <2>5, <2>6, <2>8 DEF Runs
      <4>3. TabKept(y, task', query.run_id)
        BY <1>4, <2>2, <2>10, <4>1, <4>2 DEF TabKept
      <4>4. QED
        BY <2>9, <3>3, <4>3
    <3>4. CASE t # a
      BY <2>9, <3>2, <3>4, TabLeft
    <3>5. QED
      BY <3>3, <3>4
  <2>19. QED
    BY <2>12, <2>14, <2>15, <2>16, <2>17, <2>18 DEF Inductive
<1>8. QED
  BY <1>6, <1>7

-----------------------------------------------------------------------------

LEMMA InitHolds == Init => Inductive
<1> SUFFICES ASSUME Init PROVE Inductive
  OBVIOUS
<1>1. /\ query = [tabs |-> <<1>>, active |-> 1, opened |-> 1, run_id |-> 0, abort |-> None,
                  decision |-> None, rerun_generation |-> 0, rerun_pending |-> FALSE]
      /\ tab = [t \in Tabs |-> Idle] /\ task = [r \in Runs |-> NoTask]
      /\ timers = {} /\ history = {}
  BY DEF Init
<1>2. 1 \in Tabs /\ <<1>> \in Seq(Tabs)
  BY QueryAssumption DEF Tabs
<1>3. /\ MaxRunId \in Nat /\ MaxRewrites \in Nat
  BY QueryAssumption
<1>4. query \in Query
  BY <1>1, <1>2, <1>3 DEF Query, OrNone
<1>5. Idle \in Shown
  BY DEF Idle, Shown, OrNone, Outcomes
<1>6. NoTask \in Work
  BY DEF NoTask, Work, OrNone, Places
<1>7. HasActive /\ \A t : Open(t) => t = 1
  BY <1>1 DEF HasActive, Open
<1>8. TypeOK
  BY <1>1, <1>4, <1>5, <1>6, <1>7, Types
<1>9. Strip
  BY <1>1, <1>7 DEF Strip
<1>10. SpinnerIsLive /\ DecisionIsLive /\ Flight
  BY <1>1 DEF SpinnerIsLive, DecisionIsLive, Flight, Spinning, Idle, GoingOn
<1>11. \A r \in Runs : RunKept(r, task[r], query.run_id, query.abort)
  BY <1>1 DEF RunKept, NoTask, Runs
<1>12. \A t \in Tabs : TabKept(tab[t], task, query.run_id)
  BY <1>1 DEF TabKept, Idle, OneSource
<1>13. QED
  BY <1>8, <1>9, <1>10, <1>11, <1>12 DEF Inductive

LEMMA NextKeeps == Inductive /\ [Next]_vars => Inductive'
<1> SUFFICES ASSUME Inductive, [Next]_vars PROVE Inductive'
  OBVIOUS
<1>1. CASE UNCHANGED vars
  <2>1. UNCHANGED <<query, tab, task, timers, history>>
    BY <1>1 DEF vars
  <2>2. (Inductive) <=> Inductive'
    BY <2>1 DEF Inductive, TypeOK, HasActive, Strip, Open, SpinnerIsLive, Spinning,
                DecisionIsLive, Flight
  <2>3. QED
    BY <2>2
<1>2. CASE Run
  BY <1>2, RunPressedKeeps
<1>3. CASE CancelPressed
  BY <1>3, CancelPressedKeeps
<1>4. CASE Rewrite
  BY <1>4, RewriteKeeps
<1>5. CASE \E g \in timers : RerunFires(g)
  BY <1>5, RerunKeeps
<1>6. CASE \E skip \in BOOLEAN : Resolve(skip)
  BY <1>6, ResolveKeeps
<1>7. CASE NewTab
  BY <1>7, NewTabKeeps
<1>8. CASE \E i \in DOMAIN query.tabs : SelectTab(i) \/ CloseTab(i)
  BY <1>8, SelectTabKeeps, CloseTabKeeps
<1>9. CASE \E closed \in SUBSET Range(query.tabs), focus \in Range(query.tabs) : CloseTabs(closed, focus)
  BY <1>9, CloseTabsKeeps
<1>10. CASE \E from, to \in DOMAIN query.tabs : ReorderTab(from, to)
  BY <1>10, ReorderTabKeeps
<1>11. CASE \E r \in Runs : TaskStep(r)
  BY <1>11, StreamKeeps, SucceedsKeeps, FailsKeeps DEF TaskStep
<1>12. CASE \E r \in Runs : Listener(r)
  BY <1>12, ReceiveKeeps, CompleteKeeps DEF Listener
<1>13. QED
  BY <1>1, <1>2, <1>3, <1>4, <1>5, <1>6, <1>7, <1>8, <1>9, <1>10, <1>11, <1>12, Zenon DEF Next

LEMMA InductiveHolds == Spec => []Inductive
<1>1. Init => Inductive
  BY InitHolds
<1>2. Inductive /\ [Next]_vars => Inductive'
  BY NextKeeps
<1>3. QED
  BY <1>1, <1>2, PTL DEF Spec

\* The editor's state, its tabs and its runs keep their types, and while there
\* are tabs one of them is active (state.rs, close_query_tab).
THEOREM TypeCorrect == Spec => []TypeOK
<1>1. Inductive => TypeOK
  BY DEF Inductive
<1>2. QED
  BY <1>1, InductiveHolds, PTL

\* Spinner, cancel and skip are about the one run in flight, in its tab,
\* whatever was cancelled, replaced, skipped or closed (controls.rs:112-150).
THEOREM ControlsHold == Spec => []ControlsAreLive
<1>1. Inductive => ControlsAreLive
  BY DEF Inductive, ControlsAreLive
<1>2. QED
  BY <1>1, InductiveHolds, PTL

\* The rows of a grid are of one statement of one run, although a cancelled
\* run may still have batches queued (execution.rs:458-464).
THEOREM OneResult == Spec => []GridIsOneResult
<1>1. ASSUME NEW grid, OneSource(grid) PROVE Cardinality(grid) <= 1
  <2>1. CASE grid = {}
    BY <2>1, FS_EmptySet
  <2>2. CASE grid # {}
    <3>1. PICK a \in grid : grid = {a}
      BY <1>1, <2>2 DEF OneSource
    <3>2. QED
      BY <3>1, FS_Singleton
  <2>3. QED
    BY <2>1, <2>2
<1>2. Inductive => GridIsOneResult
  BY <1>1 DEF Inductive, TabKept, GridIsOneResult
<1>3. QED
  BY <1>2, InductiveHolds, PTL

\* The end of a task is taken after all it has sent: a tab that reports a run
\* complete shows its rows (execution.rs:536).
THEOREM AllIsShown == Spec => []CompleteShowsAll
<1>1. Inductive => CompleteShowsAll
  BY DEF Inductive, TabKept, CompleteShowsAll
<1>2. QED
  BY <1>1, InductiveHolds, PTL
=============================================================================
