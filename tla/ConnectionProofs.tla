-------------------------- MODULE ConnectionProofs --------------------------
(***************************************************************************)
(* Theorems about what the application is connected to: the saved          *)
(* connections to databases (Connections) and the agent (AcpConnection,    *)
(* whose names carry the prefix Acp).                                      *)
(*                                                                         *)
(* First the saved connections, for every list of them, every set of       *)
(* names, servers and services and every number of forms, tests, rotations *)
(* and failures.  A draft that fits the list it was opened on (Fits) can   *)
(* be saved, and a save that is taken back leaves what it found; the list  *)
(* does not change under a probe in flight unless something gets under it  *)
(* (Aligned).  Then the agent's connection: its properties, and that it    *)
(* implements the channel of AgentChannel, for every number of requests    *)
(* and frames and every size of the queues.                                *)
(***************************************************************************)
EXTENDS AcpConnection, Connections, FiniteSetTheorems, SequenceTheorems, WellFoundedInduction, TLAPS

-----------------------------------------------------------------------------
(* The list of connections, and the rows that stay where they are or move up. *)

LEMMA RowsAppended ==
    ASSUME NEW l \in Seq(Connection), NEW c \in Connection
    PROVE  /\ Append(l, c) \in Seq(Connection)
           /\ DOMAIN Append(l, c) = 1..(Len(l) + 1) /\ Len(Append(l, c)) = Len(l) + 1
           /\ Append(l, c)[Len(l) + 1] = c
           /\ \A i \in DOMAIN l : Append(l, c)[i] = l[i]
<1>1. PICK n \in Nat : n = Len(l) /\ DOMAIN l = 1..n
  OBVIOUS
<1>. QED BY <1>1

LEMMA RowReplaced ==
    ASSUME NEW l \in Seq(Connection), NEW c \in Connection, NEW i \in DOMAIN l
    PROVE  /\ [l EXCEPT ![i] = c] \in Seq(Connection)
           /\ DOMAIN [l EXCEPT ![i] = c] = DOMAIN l /\ Len([l EXCEPT ![i] = c]) = Len(l)
           /\ [l EXCEPT ![i] = c][i] = c
           /\ \A j \in DOMAIN l : j # i => [l EXCEPT ![i] = c][j] = l[j]
OBVIOUS

LEMMA RowRemoved ==
    ASSUME NEW l \in Seq(Connection), NEW i \in DOMAIN l
    PROVE  /\ RemoveAt(l, i) \in Seq(Connection) /\ Len(RemoveAt(l, i)) = Len(l) - 1
           /\ \A k \in DOMAIN RemoveAt(l, i) :
                 \E j \in DOMAIN l : /\ j # i /\ RemoveAt(l, i)[k] = l[j]
                                     /\ j = IF k < i THEN k ELSE k + 1
           /\ \A j \in DOMAIN l : j # i => \E k \in DOMAIN RemoveAt(l, i) : RemoveAt(l, i)[k] = l[j]
<1>1. PICK n \in Nat : n = Len(l)
  OBVIOUS
<1>2. DOMAIN l = 1..n /\ i \in 1..n /\ \A j \in 1..n : l[j] \in Connection
  BY <1>1
<1>3. PICK a : a = SubSeq(l, 1, i - 1)
  OBVIOUS
<1>4. PICK b : b = SubSeq(l, i + 1, n)
  OBVIOUS
<1>5. a \in Seq(Connection) /\ Len(a) = i - 1 /\ \A j \in 1..(i - 1) : a[j] = l[j]
  <2>1. 1 \in Int /\ i - 1 \in Int /\ \A j \in 1..(i - 1) : l[j] \in Connection
    BY <1>2
  <2>2. /\ SubSeq(l, 1, i - 1) \in Seq(Connection)
        /\ Len(SubSeq(l, 1, i - 1)) = IF 1 <= i - 1 THEN (i - 1) - 1 + 1 ELSE 0
        /\ \A j \in 1..((i - 1) - 1 + 1) : SubSeq(l, 1, i - 1)[j] = l[1 + j - 1]
    BY <2>1, SubSeqProperties
  <2>. QED BY <1>2, <1>3, <2>2
<1>6. b \in Seq(Connection) /\ Len(b) = n - i /\ \A j \in 1..(n - i) : b[j] = l[i + j]
  <2>1. i + 1 \in Int /\ n \in Int /\ \A j \in (i + 1)..n : l[j] \in Connection
    BY <1>2
  <2>2. /\ SubSeq(l, i + 1, n) \in Seq(Connection)
        /\ Len(SubSeq(l, i + 1, n)) = IF i + 1 <= n THEN n - (i + 1) + 1 ELSE 0
        /\ \A j \in 1..(n - (i + 1) + 1) : SubSeq(l, i + 1, n)[j] = l[(i + 1) + j - 1]
    BY <2>1, SubSeqProperties
  <2>. QED BY <1>2, <1>4, <2>2
<1>7. RemoveAt(l, i) = a \o b
  BY <1>1, <1>3, <1>4 DEF RemoveAt
<1>8. PICK r : r = a \o b
  OBVIOUS
<1>9. /\ r \in Seq(Connection) /\ Len(r) = n - 1 /\ DOMAIN r = 1..(n - 1)
      /\ \A k \in 1..(n - 1) : r[k] = IF k < i THEN l[k] ELSE l[k + 1]
  <2>1. /\ a \o b \in Seq(Connection) /\ Len(a \o b) = Len(a) + Len(b)
        /\ \A j \in 1..(Len(a) + Len(b)) : (a \o b)[j] = IF j <= Len(a) THEN a[j] ELSE b[j - Len(a)]
    BY <1>5, <1>6, ConcatProperties
  <2>2. Len(a) + Len(b) = n - 1
    BY <1>2, <1>5, <1>6
  <2>3. r \in Seq(Connection) /\ Len(r) = n - 1
    BY <1>8, <2>1, <2>2
  <2>4. ASSUME NEW k \in 1..(n - 1)
        PROVE  r[k] = IF k < i THEN l[k] ELSE l[k + 1]
    <3>1. r[k] = IF k <= i - 1 THEN a[k] ELSE b[k - (i - 1)]
      BY <1>5, <1>8, <2>1, <2>2
    <3>2. CASE k < i
      BY <1>2, <1>5, <3>1, <3>2
    <3>3. CASE ~(k < i)
      <4>1. k - (i - 1) \in 1..(n - i) /\ i + (k - (i - 1)) = k + 1
        BY <1>2, <3>3
      <4>2. b[k - (i - 1)] = l[k + 1]
        BY <1>6, <4>1
      <4>. QED BY <1>2, <3>1, <3>3, <4>2
    <3>. QED BY <3>2, <3>3
  <2>. QED BY <2>3, <2>4
<1>10. ASSUME NEW k \in 1..(n - 1)
       PROVE  \E j \in 1..n : j # i /\ r[k] = l[j] /\ j = IF k < i THEN k ELSE k + 1
  BY <1>2, <1>9
<1>11. ASSUME NEW j \in 1..n, j # i
       PROVE  \E k \in 1..(n - 1) : r[k] = l[j]
  <2>1. CASE j < i
    BY <1>2, <1>9, <2>1
  <2>2. CASE i < j
    <3>1. j - 1 \in 1..(n - 1) /\ ~(j - 1 < i) /\ (j - 1) + 1 = j
      BY <1>2, <2>2
    <3>. QED BY <1>9, <3>1
  <2>. QED BY <1>2, <1>11, <2>1, <2>2
<1>12. RemoveAt(l, i) = r /\ DOMAIN l = 1..n /\ DOMAIN r = 1..(n - 1)
  BY <1>2, <1>7, <1>8, <1>9
<1>. QED BY <1>1, <1>9, <1>10, <1>11, <1>12, Zenon

\* Min of FiniteSetsExt is attained: some relation that contains < is
\* well-founded on Nat.
LEMMA MinAttained ==
    ASSUME NEW S, S \subseteq Nat, S # {}
    PROVE  Min(S) \in S
<1> DEFINE R == OpToRel(<, Nat)
<1>1. \A y, x \in Nat : y < x => <<y, x>> \in R
  BY Zenon DEF OpToRel
<1>2. IsWellFoundedOn(R, Nat)
  BY NatLessThanWellFounded, Zenon
<1> HIDE DEF R
<1>3. PICK x \in S : \A y \in S : ~ (<<y, x>> \in R)
  BY <1>2, WFMin, Zenon
<1>4. ASSUME NEW y \in S PROVE x =< y
  <2>1. x \in Nat /\ y \in Nat
    OBVIOUS
  <2>2. ~ (y < x)
    BY <1>1, <1>3, <2>1, Zenon
  <2>. QED BY <2>1, <2>2
<1>. QED BY <1>4, Zenon DEF Min

-----------------------------------------------------------------------------
(* Drafts, and what writing one makes of the list and of the Keychain. *)

\* A draft fits the list it was opened on: the row it edits is there, under the
\* name it had and to the same server, and its password is one of that server.
Fits(d) ==
    /\ d.editing \in 0..Len(list)
    /\ d.editing = 0 => d.original = None
    /\ d.editing # 0 => /\ d.original = list[d.editing].name
                        /\ d.connection.server = list[d.editing].server
    /\ d.password # None => d.password.of = d.connection.server

Row(d) == IF d.editing = 0 THEN Len(list) + 1 ELSE d.editing

LEMMA UpdatedIs ==
    ASSUME list \in Seq(Connection), NEW d \in Draft, d.editing \in 0..Len(list)
    PROVE  /\ Updated(d) \in Seq(Connection) /\ Len(Updated(d)) >= Len(list)
           /\ Row(d) \in DOMAIN Updated(d) /\ Updated(d)[Row(d)] = d.connection
           /\ \A i \in DOMAIN Updated(d) : i # Row(d) => /\ i \in DOMAIN list /\ i # d.editing
                                                         /\ Updated(d)[i] = list[i]
           /\ \A i \in DOMAIN list : i # d.editing => /\ i \in DOMAIN Updated(d) /\ i # Row(d)
                                                      /\ Updated(d)[i] = list[i]
<1>1. PICK n \in Nat : n = Len(list) /\ DOMAIN list = 1..n
  OBVIOUS
<1>2. d.connection \in Connection /\ d.editing \in Nat
  BY DEF Draft
<1>3. CASE d.editing = 0
  <2>1. Updated(d) = Append(list, d.connection) /\ Row(d) = n + 1
    BY <1>1, <1>3 DEF Updated, Row
  <2>2. PICK l : l = Append(list, d.connection)
    OBVIOUS
  <2>3. /\ l \in Seq(Connection) /\ DOMAIN l = 1..(n + 1) /\ Len(l) = n + 1
        /\ l[n + 1] = d.connection /\ \A i \in 1..n : l[i] = list[i]
    BY <1>1, <1>2, <2>2, RowsAppended
  <2>. QED BY <1>1, <1>3, <2>1, <2>2, <2>3
<1>4. CASE d.editing # 0
  <2>1. Updated(d) = [list EXCEPT ![d.editing] = d.connection] /\ Row(d) = d.editing
    BY <1>4 DEF Updated, Row
  <2>2. d.editing \in DOMAIN list
    BY <1>1, <1>2, <1>4
  <2>. QED BY <1>1, <1>2, <2>1, <2>2, RowReplaced
<1>. QED BY <1>3, <1>4

LEMMA KeychainTypes ==
    ASSUME keychain \in [Names -> Password], NEW d \in Draft, NEW previous \in Password
    PROVE  /\ Item(d) \in Password
           /\ Written(d) \in [Names -> Password] /\ Stored(d) \in [Names -> Password]
           /\ \A half \in [Names -> Password] :
                 /\ PutBack(d, previous, half) \in [Names -> Password]
                 /\ Cleared(d, half) \in [Names -> Password]
                 /\ RolledBack(d, previous, half) \in [Names -> Password]
<1>1. d.connection.name \in Names /\ d.original \in Names \cup {None} /\ d.password \in Password
  BY DEF Draft, Connection
<1>2. None \in Password
  BY DEF Password
<1>3. Item(d) \in Password
  BY <1>1, <1>2 DEF Item, Renames
<1>4. Written(d) \in [Names -> Password]
  BY <1>3 DEF Written
<1>5. Stored(d) \in [Names -> Password]
  BY <1>2, <1>4 DEF Stored
<1>6. ASSUME NEW half \in [Names -> Password]
      PROVE  PutBack(d, previous, half) \in [Names -> Password]
  BY <1>6 DEF PutBack
<1>7. ASSUME NEW half \in [Names -> Password]
      PROVE  Cleared(d, half) \in [Names -> Password]
  BY <1>2, <1>7 DEF Cleared
<1>8. ASSUME NEW half \in [Names -> Password]
      PROVE  RolledBack(d, previous, half) \in [Names -> Password]
  <2>1. PICK back \in [Names -> Password] : back = PutBack(d, previous, half)
    BY <1>6
  <2>2. RolledBack(d, previous, half) = Cleared(d, back)
    BY <2>1 DEF RolledBack
  <2>. QED BY <1>7, <2>2
<1>. QED BY <1>3, <1>4, <1>5, <1>6, <1>7, <1>8

LEMMA PersistsTypes ==
    ASSUME list \in Seq(Connection), keychain \in [Names -> Password],
           NEW d \in Draft, d.editing \in 0..Len(list), Persists(d)
    PROVE  /\ list' \in Seq(Connection) /\ disk' \in Seq(Connection)
           /\ keychain' \in [Names -> Password] /\ used' = used
           /\ spoiled' = spoiled
<1>1. None \in Password
  BY DEF Password
<1>. QED BY <1>1, UpdatedIs, KeychainTypes DEF Persists

LEMMA PersistFailsTypes ==
    ASSUME TypeOK, NEW d \in Draft, NEW previous \in Password, PersistFails(d, previous),
           d.editing \in 0..Len(list)
    PROVE  /\ list' = list /\ disk' \in Seq(Connection)
           /\ keychain' \in [Names -> Password]
           /\ used' \in [work : Nat, faults : 0..MaxFaults]
           /\ spoiled' \in BOOLEAN
<1>1. keychain' \in [Names -> Password] /\ disk' \in Seq(Connection) /\ spoiled' \in BOOLEAN
  <2>1. CASE UNCHANGED <<disk, keychain, spoiled>>
    BY <2>1 DEF TypeOK
  <2>2. ASSUME NEW half \in {keychain, Written(d)}, StepsBack(d, previous, half)
        PROVE  keychain' \in [Names -> Password] /\ disk' \in Seq(Connection) /\ spoiled' \in BOOLEAN
    <3>1. half \in [Names -> Password]
      BY <2>2, KeychainTypes DEF TypeOK
    <3>2. keychain' \in [Names -> Password]
      BY <2>2, <3>1, KeychainTypes DEF StepsBack, TypeOK
    <3>3. disk' \in Seq(Connection)
      BY <2>2, UpdatedIs DEF StepsBack, FileRolledBack, TypeOK
    <3>4. spoiled' \in BOOLEAN
      BY <2>2 DEF StepsBack, TypeOK
    <3>. QED BY <3>2, <3>3, <3>4
  <2>. QED BY <2>1, <2>2 DEF PersistFails
<1>2. used.faults < MaxFaults /\ MaxFaults \in Nat
  BY ConnectionsAssumption DEF PersistFails, StepsBack, MayFail
<1>3. used' = [used EXCEPT !["faults"] = @ + 1]
  BY DEF PersistFails, Spend
<1>4. PICK f \in 0..MaxFaults : f = used.faults
  BY DEF TypeOK
<1>5. f + 1 \in 0..MaxFaults
  BY <1>2, <1>4
<1>6. used' \in [work : Nat, faults : 0..MaxFaults]
  BY <1>3, <1>4, <1>5 DEF TypeOK
<1>. QED BY <1>1, <1>6 DEF PersistFails

-----------------------------------------------------------------------------
(* Types.  A password's number is bounded because each rotation is paid for   *)
(* when it begins, and is asked for once.                                     *)

Unasked == {r \in rotations : ~r.asked}
Counted ==
    /\ IsFiniteSet(Unasked)
    /\ \A s \in Servers : actual[s] + Cardinality(Unasked) \in 0..used.work \cap 0..MaxWork
Placed == form # None => form.editing \in 0..Len(list)
Typed == TypeOK /\ Counted /\ Placed

LEMMA TypedInit == Init => Typed
<1>. SUFFICES ASSUME Init PROVE Typed
  OBVIOUS
<1>1. /\ MaxWork \in Nat /\ MaxFaults \in Nat /\ Initial \in Seq(Connection)
      /\ \A i \in DOMAIN Initial : Initial[i] \in Connection
  BY ConnectionsAssumption
<1>2. Unasked = {}
  BY DEF Init, Unasked
<1>3. IsFiniteSet(Unasked) /\ Cardinality(Unasked) = 0
  BY <1>2, FS_EmptySet
<1>4. actual \in [Servers -> 0..MaxWork] /\ \A s \in Servers : actual[s] = 0
  BY <1>1 DEF Init
<1>5. Counted /\ Placed
  BY <1>1, <1>3, <1>4 DEF Init, Counted, Placed
<1>6. None \in Password /\ \A s \in Servers : [of |-> s, n |-> 0] \in Password
  BY <1>1 DEF Password, Secret
<1>7. keychain \in [Names -> Password]
  <2>1. ASSUME NEW n \in Names, \E i \in DOMAIN Initial : Initial[i].name = n
        PROVE  (CHOOSE c \in Range(Initial) : c.name = n).server \in Servers
    <3>1. \E c \in Range(Initial) : c.name = n
      BY <2>1 DEF Range
    <3>2. (CHOOSE c \in Range(Initial) : c.name = n) \in Range(Initial)
      BY <3>1
    <3>3. (CHOOSE c \in Range(Initial) : c.name = n) \in Connection
      BY <1>1, <3>2 DEF Range
    <3>. QED BY <3>3 DEF Connection
  <2>. QED BY <1>6, <2>1 DEF Init
<1>8. used \in [work : Nat, faults : 0..MaxFaults]
  BY <1>1 DEF Init
<1>9. cache \in [Names -> {NotCached} \cup {Cached(secret) : secret \in Password}]
  BY Zenon DEF Init
<1>10. TypeOK
  BY <1>1, <1>4, <1>7, <1>8, <1>9 DEF Init, TypeOK
<1>. QED BY <1>5, <1>10 DEF Typed

\* One unit of the bound is spent.
LEMMA Spent ==
    ASSUME TypeOK, Spend("work")
    PROVE  /\ used' \in [work : Nat, faults : 0..MaxFaults]
           /\ used'.work = used.work + 1
BY DEF TypeOK, Spend

LEMMA CountedStays ==
    ASSUME Typed, UNCHANGED <<rotations, actual>>, used'.work \in Nat, used'.work >= used.work
    PROVE  Counted'
<1>1. Unasked' = Unasked
  BY DEF Unasked
<1>2. PICK k : k = Cardinality(Unasked)
  OBVIOUS
<1>3. \A s \in Servers : actual[s] + k \in 0..used.work \cap 0..MaxWork
  BY <1>2 DEF Typed, Counted
<1>4. used.work \in Nat /\ MaxWork \in Nat
  BY ConnectionsAssumption DEF Typed, TypeOK
<1>5. \A s \in Servers : actual[s] + k \in 0..used'.work \cap 0..MaxWork
  BY <1>3, <1>4
<1>. QED BY <1>1, <1>2, <1>5 DEF Typed, Counted

LEMMA OpenedTypes ==
    ASSUME Typed, NEW editing \in 0..Len(list), NEW original \in Names \cup {None},
           NEW c \in Connection, NEW password \in Password, Opened(editing, original, c, password)
    PROVE  Typed'
<1>1. used.work \in Nat /\ used.work < MaxWork /\ MaxWork \in Nat
  BY ConnectionsAssumption DEF Typed, TypeOK, Opened
<1>2. /\ used' \in [work : Nat, faults : 0..MaxFaults]
      /\ used'.work = used.work + 1
  BY Spent DEF Opened, Typed
<1>3. PICK k \in 1..MaxWork : k = used.work + 1
  BY <1>1
<1>4. form' = [key |-> k, editing |-> editing, original |-> original,
               connection |-> c, password |-> password, working |-> FALSE]
  BY <1>3 DEF Opened
<1>5. form' \in Draft /\ form'.editing = editing
  BY <1>4 DEF Draft
<1>6. Counted'
  BY <1>1, <1>2, CountedStays DEF Opened, tasks
<1>. QED BY <1>2, <1>5, <1>6 DEF Typed, TypeOK, Placed, Opened, store, tasks

LEMMA Cached_ ==
    ASSUME NEW secret \in Password
    PROVE  Cached(secret).cached /\ Cached(secret).secret = secret /\ ~NotCached.cached
BY DEF Cached, NotCached

LEMMA PasswordForTypes ==
    ASSUME TypeOK, NEW name \in Names
    PROVE  PasswordFor(name) \in Password
<1>1. CASE cache[name] = NotCached
  BY <1>1, Cached_ DEF TypeOK, PasswordFor, NotCached
<1>2. CASE cache[name] # NotCached
  <2>1. PICK secret \in Password : cache[name] = Cached(secret)
    BY <1>2 DEF TypeOK
  <2>. QED BY <2>1, Cached_ DEF PasswordFor
<1>. QED BY <1>1, <1>2

LEMMA ProbingTypes ==
    ASSUME Typed, NEW c \in Connection, NEW password \in Password, NEW draft \in Draft \cup {None},
           Probing(c, password, draft)
    PROVE  /\ connecting' \in Names \cup {None} /\ probes' \subseteq Probe
           /\ used' \in [work : Nat, faults : 0..MaxFaults] /\ used'.work = used.work + 1
           /\ spoiled' \in BOOLEAN
<1>1. PICK n \in Nat : n = used.work
  BY DEF Typed, TypeOK
<1>2. [no |-> n, connection |-> c, password |-> password, draft |-> draft, answer |-> None] \in Probe
  BY DEF Probe
<1>3. probes' \subseteq Probe
  BY <1>1, <1>2 DEF Probing, Typed, TypeOK
<1>4. connecting' \in Names /\ spoiled' \in BOOLEAN
  BY DEF Probing, Connection
<1>. QED BY <1>3, <1>4, Spent DEF Probing, Typed

LEMMA ProbingStarts ==
    ASSUME Typed, NEW c \in Connection, NEW password \in Password, NEW draft \in Draft \cup {None},
           Probing(c, password, draft),
           UNCHANGED <<store, cache, actual, connected, form, explains, rotations>>,
           wakes' \subseteq wakes
    PROVE  Typed'
<1>1. /\ connecting' \in Names \cup {None} /\ probes' \subseteq Probe
      /\ used' \in [work : Nat, faults : 0..MaxFaults] /\ used'.work = used.work + 1
      /\ spoiled' \in BOOLEAN
  BY ProbingTypes
<1>2. used.work \in Nat
  BY DEF Typed, TypeOK
<1>3. Counted'
  BY <1>1, <1>2, CountedStays
<1>. QED BY <1>1, <1>3 DEF Typed, TypeOK, Placed, store

LEMMA SavingTypes ==
    ASSUME Typed, NEW d \in Draft, d.editing \in 0..Len(list), Persists(d),
           connected' \in Connection \cup {None}, connecting' \in Names \cup {None}, form' = None,
           cache' \in [Names -> {NotCached} \cup {Cached(secret) : secret \in Password}],
           probes' \subseteq probes, UNCHANGED <<actual, explains, wakes, rotations>>
    PROVE  Typed'
<1>1. /\ list' \in Seq(Connection) /\ disk' \in Seq(Connection)
      /\ keychain' \in [Names -> Password] /\ used' = used /\ spoiled' = spoiled
  BY PersistsTypes DEF Typed, TypeOK
<1>2. used.work \in Nat
  BY DEF Typed, TypeOK
<1>3. Counted'
  BY <1>1, <1>2, CountedStays
<1>. QED BY <1>1, <1>3 DEF Typed, TypeOK, Placed

LEMMA FailingTypes ==
    ASSUME Typed, NEW d \in Draft, NEW previous \in Password, PersistFails(d, previous),
           d.editing \in 0..Len(list), connecting' \in Names \cup {None}, probes' \subseteq probes,
           UNCHANGED <<cache, actual, connected, form, explains, wakes, rotations>>
    PROVE  Typed'
<1>1. /\ list' = list /\ disk' \in Seq(Connection) /\ keychain' \in [Names -> Password]
      /\ used' \in [work : Nat, faults : 0..MaxFaults] /\ spoiled' \in BOOLEAN
  BY PersistFailsTypes DEF Typed
<1>2. used'.work = used.work /\ used.work \in Nat
  BY DEF PersistFails, Spend, Typed, TypeOK
<1>3. Counted'
  BY <1>1, <1>2, CountedStays
<1>. QED BY <1>1, <1>3 DEF Typed, TypeOK, Placed

LEMMA ReadyForm ==
    ASSUME Typed, Ready
    PROVE  form \in Draft /\ form.editing \in 0..Len(list) /\ form.original \in Names \cup {None}
           /\ form.connection \in Connection /\ form.password \in Password
BY DEF Typed, TypeOK, Placed, Ready, Draft

LEMMA TypesOfForms ==
    ASSUME Typed, StartAdd \/ (\E i \in DOMAIN list : StartEdit(i)) \/ CloseForm
    PROVE  Typed'
<1>1. /\ None \in Password /\ Len(list) \in Nat /\ DOMAIN list = 1..Len(list)
      /\ \A i \in DOMAIN list : list[i] \in Connection
  BY DEF Password, Typed, TypeOK
<1>2. \A s \in Servers : Current(s) \in Password
  BY DEF Current, Password, Secret, Typed, TypeOK
<1>3. CASE StartAdd
  <2>1. PICK name \in Names, server \in Servers :
          Opened(0, None, [name |-> name, server |-> server, posture |-> "guarded"], Current(server))
    BY <1>3 DEF StartAdd
  <2>2. [name |-> name, server |-> server, posture |-> "guarded"] \in Connection
    BY DEF Connection, Postures
  <2>. QED BY <1>1, <1>2, <2>1, <2>2, OpenedTypes
<1>4. ASSUME NEW i \in DOMAIN list, StartEdit(i)
      PROVE  Typed'
  <2>1. list[i].name \in Names /\ list[i].server \in Servers
    BY <1>1 DEF Connection
  <2>2. PICK name \in Names, posture \in Postures, password \in {None, Current(list[i].server)} :
          Opened(i, list[i].name, [name |-> name, server |-> list[i].server, posture |-> posture], password)
    BY <1>4 DEF StartEdit
  <2>3. [name |-> name, server |-> list[i].server, posture |-> posture] \in Connection
    BY <2>1 DEF Connection
  <2>4. password \in Password /\ i \in 0..Len(list)
    BY <1>1, <1>2, <2>1
  <2>. QED BY <2>1, <2>2, <2>3, <2>4, OpenedTypes
<1>5. CASE CloseForm
  <2>1. used.work \in Nat
    BY DEF Typed, TypeOK
  <2>2. Counted'
    BY <1>5, <2>1, CountedStays DEF CloseForm, tasks
  <2>. QED BY <1>5, <2>2 DEF CloseForm, Typed, TypeOK, Placed, store, tasks
<1>. QED BY <1>3, <1>4, <1>5

LEMMA TypesOfSaveForm ==
    ASSUME Typed, SaveForm
    PROVE  Typed'
<1>1. /\ form \in Draft /\ form.editing \in 0..Len(list) /\ form.original \in Names \cup {None}
  BY ReadyForm DEF SaveForm
<1>2. CASE Persists(form) /\ connected' = SessionAfter(form) /\ form' = None
  <2>1. connected' \in Connection \cup {None}
    BY <1>2 DEF SessionAfter, Typed, TypeOK
  <2>. QED BY <1>1, <1>2, <2>1, SavingTypes DEF SaveForm, Typed, TypeOK, tasks
<1>3. CASE PersistFails(form, IF form.original = None THEN None ELSE keychain[form.original])
           /\ UNCHANGED <<connected, form>>
  <2>1. PICK previous : previous = IF form.original = None THEN None ELSE keychain[form.original]
    OBVIOUS
  <2>2. previous \in Password
    BY <1>1, <2>1 DEF Typed, TypeOK, Password
  <2>3. PersistFails(form, previous)
    BY <1>3, <2>1
  <2>. QED BY <1>1, <1>3, <2>2, <2>3, FailingTypes DEF SaveForm, Typed, TypeOK, tasks
<1>. QED BY <1>2, <1>3 DEF SaveForm

LEMMA TypesOfConnecting ==
    ASSUME Typed, (\E i \in DOMAIN list : Connect(i)) \/ SaveAndConnect
    PROVE  Typed'
<1>1. \A i \in DOMAIN list : list[i] \in Connection /\ list[i].name \in Names
  <2>1. \A i \in DOMAIN list : list[i] \in Connection
    BY DEF Typed, TypeOK
  <2>. QED BY <2>1 DEF Connection
<1>2. ASSUME NEW i \in DOMAIN list, Connect(i)
      PROVE  Typed'
  <2>1. PICK password \in Password : password = PasswordFor(list[i].name)
    BY <1>1, PasswordForTypes DEF Typed
  <2>2. Probing(list[i], password, None)
    BY <1>2, <2>1 DEF Connect
  <2>. QED BY <1>1, <1>2, <2>2, ProbingStarts DEF Connect
<1>3. CASE SaveAndConnect
  <2>1. /\ form \in Draft /\ form.original \in Names \cup {None}
        /\ form.connection \in Connection /\ form.password \in Password
    BY <1>3, ReadyForm DEF SaveAndConnect
  <2>2. PICK password :
          /\ password = IF form.password # None THEN form.password
                        ELSE keychain[IF form.original # None THEN form.original ELSE form.connection.name]
          /\ Probing(form.connection, password, form)
    BY <1>3 DEF SaveAndConnect
  <2>3. password \in Password
    BY <2>1, <2>2 DEF Typed, TypeOK, Connection
  <2>. QED BY <1>3, <2>1, <2>2, <2>3, ProbingStarts DEF SaveAndConnect
<1>. QED BY <1>2, <1>3

\* What leaves the bounds, the rotations and the servers alone
LEMMA OnlyLists ==
    ASSUME Typed, UNCHANGED <<actual, rotations, used>>
    PROVE  Counted'
<1>1. used.work \in Nat
  BY DEF Typed, TypeOK
<1>. QED BY <1>1, CountedStays

LEMMA TypesOfStarting ==
    ASSUME Typed, StartsAgain
    PROVE  Typed'
<1>1. cache' \in [Names -> {NotCached} \cup {Cached(secret) : secret \in Password}]
  <2>1. cache' = [n \in Names |-> NotCached]
    BY DEF StartsAgain
  <2>. QED BY <2>1, Zenon
<1>2. rotations' = {} /\ actual' = actual /\ used' = used /\ used.work \in Nat /\ MaxWork \in Nat
  BY ConnectionsAssumption DEF StartsAgain, Typed, TypeOK
<1>3. Unasked' = {} /\ IsFiniteSet(Unasked') /\ Cardinality(Unasked') = 0
  <2>1. Unasked' = {}
    BY <1>2 DEF Unasked
  <2>. QED BY <2>1, FS_EmptySet
<1>4. PICK k : k = Cardinality(Unasked)
  OBVIOUS
<1>5. k \in Nat /\ \A s \in Servers : actual[s] \in 0..MaxWork /\ actual[s] + k \in 0..used.work \cap 0..MaxWork
  BY <1>4, FS_CardinalityType DEF Typed, TypeOK, Counted
<1>6. \A s \in Servers : actual[s] + 0 \in 0..used.work \cap 0..MaxWork
  BY <1>2, <1>5
<1>7. Counted'
  BY <1>2, <1>3, <1>6 DEF Counted
<1>. QED BY <1>1, <1>7 DEF StartsAgain, Typed, TypeOK, Placed

LEMMA TypesOfProbes ==
    ASSUME Typed, NEW p \in probes,
           NodesAnswer(p) \/ ProbeFails(p) \/ ProbeConnects(p) \/ ProbeAborts(p)
    PROVE  Typed'
<1>1. /\ p \in Probe /\ probes \subseteq Probe /\ p.no \in Nat /\ p.connection \in Connection
      /\ p.connection.name \in Names /\ p.password \in Password /\ p.draft \in Draft \cup {None}
  BY DEF Typed, TypeOK, Probe, Connection
<1>2. CASE NodesAnswer(p)
  <2>1. PICK given \in {"reachable", "unreachable"} :
          probes' = (probes \ {p}) \cup {[p EXCEPT !.answer = given]}
    BY <1>2 DEF NodesAnswer
  <2>2. [p EXCEPT !.answer = given] \in Probe
    BY <1>1 DEF Probe
  <2>3. probes' \subseteq Probe
    BY <1>1, <2>1, <2>2
  <2>4. Counted'
    BY <1>2, OnlyLists DEF NodesAnswer
  <2>. QED BY <1>2, <2>3, <2>4 DEF NodesAnswer, Typed, TypeOK, Placed, store
<1>3. CASE ProbeFails(p)
  <2>1. [no |-> p.no, name |-> p.connection.name] \in Explain
    BY <1>1 DEF Explain
  <2>2. explains' \subseteq Explain
    BY <1>3, <2>1 DEF ProbeFails, Typed, TypeOK
  <2>3. Counted'
    BY <1>3, OnlyLists DEF ProbeFails
  <2>. QED BY <1>1, <1>3, <2>2, <2>3 DEF ProbeFails, Lands, Typed, TypeOK, Placed, store
<1>4. CASE ProbeConnects(p)
  <2>1. cache' \in [Names -> {NotCached} \cup {Cached(secret) : secret \in Password}]
    BY <1>1, <1>4 DEF ProbeConnects, SessionOf, Typed, TypeOK
  <2>2. Counted'
    BY <1>4, OnlyLists DEF ProbeConnects
  <2>. QED BY <1>1, <1>4, <2>1, <2>2 DEF ProbeConnects, SessionOf, Lands, Typed, TypeOK, Placed, store
<1>5. CASE ProbeAborts(p)
  BY <1>5, TypesOfStarting DEF ProbeAborts
<1>. QED BY <1>2, <1>3, <1>4, <1>5

LEMMA TypesOfProbeSaves ==
    ASSUME Typed, NEW p \in probes, ProbeSaves(p)
    PROVE  Typed'
<1>1. /\ p.connection \in Connection /\ p.connection.name \in Names /\ p.password \in Password
      /\ p.draft \in Draft /\ p.draft.editing \in 0..Len(list) /\ p.draft.original \in Names \cup {None}
      /\ probes' \subseteq probes /\ connecting' \in Names \cup {None}
      /\ UNCHANGED <<actual, explains, wakes, rotations>>
  BY DEF ProbeSaves, Lands, Typed, TypeOK, Probe, Connection, Draft
<1>2. PICK d : d = p.draft
  OBVIOUS
<1>3. CASE Persists(d) /\ SessionOf(p) /\ form' = None
  <2>1. cache' \in [Names -> {NotCached} \cup {Cached(secret) : secret \in Password}]
    BY <1>1, <1>3 DEF SessionOf, Typed, TypeOK
  <2>. QED BY <1>1, <1>2, <1>3, <2>1, SavingTypes DEF SessionOf
<1>4. ASSUME NEW previous, previous = (IF d.original = None THEN None
                                       ELSE IF d.password = None THEN p.password ELSE keychain[d.original]),
             PersistFails(d, previous), UNCHANGED <<connected, cache, form>>
      PROVE  Typed'
  <2>1. previous \in Password
    BY <1>1, <1>2, <1>4 DEF Typed, TypeOK, Password
  <2>. QED BY <1>1, <1>2, <1>4, <2>1, FailingTypes
<1>. QED BY <1>2, <1>3, <1>4 DEF ProbeSaves

LEMMA TypesOfTheList ==
    ASSUME Typed, Disconnect \/ Restart \/ (\E i \in DOMAIN list : Duplicate(i) \/ Delete(i))
    PROVE  Typed'
<1>1. \A i \in DOMAIN list : list[i] \in Connection /\ list[i].name \in Names
  <2>1. \A i \in DOMAIN list : list[i] \in Connection
    BY DEF Typed, TypeOK
  <2>. QED BY <2>1 DEF Connection
<1>2. /\ None \in Password /\ used.work \in Nat /\ list \in Seq(Connection) /\ Len(list) \in Nat
  BY DEF Password, Typed, TypeOK
<1>3. CASE Disconnect
  <2>1. Counted'
    BY <1>3, OnlyLists DEF Disconnect, tasks
  <2>. QED BY <1>3, <2>1 DEF Disconnect, Typed, TypeOK, Placed, store, tasks
<1>4. ASSUME NEW i \in DOMAIN list, Duplicate(i)
      PROVE  Typed'
  <2>1. PICK name \in Names \ NamesOf(list) : list' = Append(list, [list[i] EXCEPT !.name = name])
    BY <1>4 DEF Duplicate
  <2>2. PICK c : c = [list[i] EXCEPT !.name = name]
    OBVIOUS
  <2>3. c \in Connection
    BY <1>1, <2>2 DEF Connection
  <2>4. list' = Append(list, c)
    BY <2>1, <2>2
  <2>5. list' \in Seq(Connection) /\ Len(list') = Len(list) + 1
    BY <1>2, <2>3, <2>4, RowsAppended
  <2>6. /\ used' \in [work : Nat, faults : 0..MaxFaults] /\ used'.work = used.work + 1
    BY <1>4, Spent DEF Duplicate, Typed
  <2>7. Counted'
    BY <1>2, <1>4, <2>6, CountedStays DEF Duplicate, tasks
  <2>8. Placed'
    BY <1>2, <1>4, <2>5 DEF Duplicate, Typed, Placed
  <2>. QED BY <1>2, <1>4, <2>5, <2>6, <2>7, <2>8 DEF Duplicate, Typed, TypeOK, tasks
<1>5. ASSUME NEW i \in DOMAIN list, Delete(i)
      PROVE  Typed'
  <2>1. /\ spoiled' \in BOOLEAN /\ connecting' = connecting
        /\ UNCHANGED <<actual, probes, explains, wakes, rotations>>
    BY <1>5 DEF Delete, Typed, TypeOK, tasks
  <2>2. PICK name \in Names, without \in [Names -> Password] :
          name = list[i].name /\ without = [keychain EXCEPT ![name] = None]
    BY <1>1, <1>2 DEF Typed, TypeOK
  <2>3. CASE /\ list' = list /\ disk' = disk /\ keychain' \in {keychain, without} /\ Spend("faults")
             /\ MayFail("secret") \/ MayFail("file") \/ MayFail("rollback")
             /\ UNCHANGED <<cache, connected, form>>
    <3>1. PICK f \in 0..MaxFaults : f = used.faults
      BY DEF Typed, TypeOK
    <3>2. f + 1 \in 0..MaxFaults
      BY <2>3, <3>1, ConnectionsAssumption DEF MayFail
    <3>3. used' \in [work : Nat, faults : 0..MaxFaults] /\ used'.work = used.work
      BY <2>3, <3>1, <3>2 DEF Spend, Typed, TypeOK
    <3>4. Counted'
      BY <1>2, <2>1, <3>3, CountedStays
    <3>. QED BY <1>2, <2>1, <2>2, <2>3, <3>3, <3>4 DEF Typed, TypeOK, Placed
  <2>4. CASE /\ list' = RemoveAt(list, i) /\ disk' = list'
             /\ keychain' = without
             /\ cache' = [cache EXCEPT ![name] = NotCached]
             /\ connected' \in {connected, None}
             /\ form' = None /\ used' = used
    <3>1. list' \in Seq(Connection) /\ disk' \in Seq(Connection)
      BY <1>2, <2>4, RowRemoved
    <3>2. Counted'
      BY <2>1, <2>4, OnlyLists
    <3>3. cache' \in [Names -> {NotCached} \cup {Cached(secret) : secret \in Password}]
      BY <2>4 DEF Typed, TypeOK
    <3>. QED BY <1>2, <2>1, <2>2, <2>4, <3>1, <3>2, <3>3 DEF Typed, TypeOK, Placed
  <2>. QED BY <1>5, <2>2, <2>3, <2>4 DEF Delete
<1>6. CASE Restart
  BY <1>6, TypesOfStarting DEF Restart
<1>. QED BY <1>3, <1>4, <1>5, <1>6

LEMMA TypesOfExplains ==
    ASSUME Typed, NEW e \in explains, NotAsleep(e) \/ WakeBegins(e)
    PROVE  Typed'
<1>1. e \in Explain /\ e.name \in Names /\ explains' \subseteq explains /\ used.work \in Nat
  BY DEF NotAsleep, WakeBegins, Typed, TypeOK, Explain
<1>2. CASE NotAsleep(e)
  <2>1. Counted'
    BY <1>2, OnlyLists DEF NotAsleep
  <2>. QED BY <1>1, <1>2, <2>1 DEF NotAsleep, Typed, TypeOK, Placed, store
<1>3. CASE WakeBegins(e)
  <2>1. PICK at \in {"start", "sleep"} :
          wakes' = wakes \cup {[no |-> used.work, name |-> e.name, at |-> at, polls |-> 0]}
    BY <1>3 DEF WakeBegins
  <2>2. [no |-> used.work, name |-> e.name, at |-> at, polls |-> 0] \in Wake
    BY <1>1, ConnectionsAssumption DEF Wake
  <2>3. wakes' \subseteq Wake /\ spoiled' \in BOOLEAN /\ connecting' \in Names
    BY <1>1, <1>3, <2>1, <2>2 DEF WakeBegins, Typed, TypeOK
  <2>4. /\ used' \in [work : Nat, faults : 0..MaxFaults] /\ used'.work = used.work + 1
    BY <1>3, Spent DEF WakeBegins, Typed
  <2>5. Counted'
    BY <1>1, <1>3, <2>4, CountedStays DEF WakeBegins
  <2>. QED BY <1>1, <1>3, <2>3, <2>4, <2>5 DEF WakeBegins, Typed, TypeOK, Placed, store
<1>. QED BY <1>2, <1>3

LEMMA TypesOfWakes ==
    ASSUME Typed, NEW w \in wakes,
           WakeAccepted(w) \/ WakeRefused(w) \/ WakeTick(w) \/ StillAsleep(w)
    PROVE  Typed'
<1>1. /\ w \in Wake /\ w.name \in Names /\ wakes \subseteq Wake
      /\ UNCHANGED <<store, cache, actual, connected, form, probes, explains, rotations, used>>
  BY DEF WakeAccepted, WakeRefused, WakeTick, StillAsleep, Typed, TypeOK, Wake
<1>2. Counted'
  BY <1>1, OnlyLists
<1>3. connecting' \in Names \cup {None} /\ spoiled' \in BOOLEAN
  BY DEF WakeAccepted, WakeRefused, WakeTick, StillAsleep, Released, Typed, TypeOK
<1>4. wakes' \subseteq Wake
  <2>1. \A at \in {"start", "sleep", "fetch"} : [w EXCEPT !.at = at] \in Wake
    BY <1>1 DEF Wake
  <2>2. CASE WakeAccepted(w) \/ WakeRefused(w) \/ WakeTick(w)
    BY <1>1, <2>1, <2>2 DEF WakeAccepted, WakeRefused, WakeTick
  <2>3. CASE StillAsleep(w)
    <3>1. PICK k \in 0..MaxPolls : k = w.polls
      BY <1>1 DEF Wake
    <3>2. MaxPolls \in Nat
      BY ConnectionsAssumption
    <3>3. CASE w.polls + 1 < MaxPolls
      <4>1. k + 1 \in 0..MaxPolls
        BY <3>1, <3>2, <3>3
      <4>2. [w EXCEPT !.at = "sleep", !.polls = @ + 1] \in Wake
        BY <1>1, <3>1, <4>1 DEF Wake
      <4>. QED BY <1>1, <2>3, <3>3, <4>2 DEF StillAsleep
    <3>. QED BY <1>1, <2>3, <3>3 DEF StillAsleep
  <2>. QED BY <2>2, <2>3
<1>. QED BY <1>1, <1>2, <1>3, <1>4 DEF Typed, TypeOK, Placed, store

LEMMA TypesOfAwake ==
    ASSUME Typed, NEW w \in wakes, Awake(w)
    PROVE  Typed'
<1>1. /\ w \in Wake /\ w.name \in Names /\ wakes' \subseteq wakes
      /\ UNCHANGED <<store, cache, actual, connected, form, explains, rotations>>
  BY DEF Awake, Typed, TypeOK, Wake
<1>2. ASSUME NEW i \in DOMAIN list, Probing(list[i], PasswordFor(w.name), None)
      PROVE  Typed'
  <2>1. PICK password \in Password : password = PasswordFor(w.name)
    BY <1>1, PasswordForTypes DEF Typed
  <2>2. Probing(list[i], password, None) /\ list[i] \in Connection
    BY <1>2, <2>1 DEF Typed, TypeOK
  <2>. QED BY <1>1, <2>2, ProbingStarts
<1>3. ASSUME w.name \notin NamesOf(list) \/ (MayFail("secret") /\ ~cache[w.name].cached),
             connecting' = None, spoiled' = (spoiled \/ probes # {}),
             used' = (IF w.name \in NamesOf(list) THEN [used EXCEPT !.faults = @ + 1] ELSE used),
             UNCHANGED probes
      PROVE  Typed'
  <2>1. PICK f \in 0..MaxFaults : f = used.faults
    BY DEF Typed, TypeOK
  <2>2. used' \in [work : Nat, faults : 0..MaxFaults] /\ used'.work = used.work
    <3>1. CASE w.name \in NamesOf(list)
      <4>1. f + 1 \in 0..MaxFaults
        BY <1>3, <2>1, <3>1, ConnectionsAssumption DEF MayFail
      <4>. QED BY <1>3, <2>1, <3>1, <4>1 DEF Typed, TypeOK
    <3>2. CASE w.name \notin NamesOf(list)
      BY <1>3, <3>2 DEF Typed, TypeOK
    <3>. QED BY <3>1, <3>2
  <2>3. used.work \in Nat /\ spoiled' \in BOOLEAN
    BY <1>3 DEF Typed, TypeOK
  <2>4. Counted'
    BY <1>1, <2>2, <2>3, CountedStays
  <2>. QED BY <1>1, <1>3, <2>2, <2>3, <2>4 DEF Typed, TypeOK, Placed, store
<1>. QED BY <1>2, <1>3 DEF Awake

LEMMA TypesOfConfirm ==
    ASSUME Typed, ConfirmRotation
    PROVE  Typed'
<1>1. PICK n \in Nat : n = used.work
  BY DEF Typed, TypeOK
<1>2. /\ form \in Draft /\ form.key \in 1..MaxWork /\ form.connection.server \in Keyed
      /\ n < MaxWork /\ MaxWork \in Nat /\ None \in Password /\ Keyed \subseteq Servers
  BY <1>1, ConnectionsAssumption DEF ConfirmRotation, Typed, TypeOK, Draft, Password, Servers
<1>3. PICK r : r = [no |-> n, key |-> form.key, server |-> form.connection.server, asked |-> FALSE,
                    answer |-> None]
  OBVIOUS
<1>4. r \in Rotation /\ ~r.asked /\ rotations' = rotations \cup {r}
  BY <1>1, <1>2, <1>3 DEF ConfirmRotation, Rotation
<1>5. form' = [form EXCEPT !.working = TRUE] /\ form' \in Draft /\ form'.editing = form.editing
  BY <1>2 DEF ConfirmRotation, Draft
<1>6. /\ used' \in [work : Nat, faults : 0..MaxFaults] /\ used'.work = n + 1
  BY <1>1, Spent DEF ConfirmRotation, Typed
<1>7. Counted'
  <2>1. Unasked' = Unasked \cup {r}
    BY <1>4 DEF Unasked
  <2>2. IsFiniteSet(Unasked) /\ Cardinality(Unasked) \in Nat
    BY FS_CardinalityType DEF Typed, Counted
  <2>3. IsFiniteSet(Unasked \cup {r}) /\ Cardinality(Unasked \cup {r}) \in {Cardinality(Unasked), Cardinality(Unasked) + 1}
    BY <2>2, FS_AddElement
  <2>4. PICK k \in Nat : k = Cardinality(Unasked)
    BY <2>2
  <2>5. PICK m \in {k, k + 1} : m = Cardinality(Unasked')
    BY <2>1, <2>3, <2>4
  <2>6. \A s \in Servers : actual[s] \in 0..MaxWork /\ actual[s] + k \in 0..n \cap 0..MaxWork
    BY <1>1, <2>4 DEF Typed, TypeOK, Counted
  <2>7. \A s \in Servers : actual[s] + m \in 0..(n + 1) \cap 0..MaxWork
    BY <1>2, <2>4, <2>5, <2>6
  <2>8. actual' = actual
    BY DEF ConfirmRotation
  <2>. QED BY <1>6, <2>1, <2>3, <2>5, <2>7, <2>8 DEF Counted
<1>. QED BY <1>4, <1>5, <1>6, <1>7 DEF ConfirmRotation, Typed, TypeOK, Placed, store

LEMMA TypesOfRotates ==
    ASSUME Typed, NEW r \in rotations, Rotates(r)
    PROVE  Typed'
<1>1. /\ r \in Rotation /\ r.server \in Servers /\ ~r.asked /\ r \in Unasked /\ used' = used
      /\ used.work \in Nat /\ MaxWork \in Nat
  BY ConnectionsAssumption DEF Rotates, Typed, TypeOK, Rotation, Unasked, Servers
<1>2. PICK given \in {None, [of |-> r.server, n |-> actual[r.server] + 1]} :
        /\ actual' = [actual EXCEPT ![r.server] = @ + 1] \/ (given = None /\ UNCHANGED actual)
        /\ rotations' = (rotations \ {r}) \cup {[r EXCEPT !.asked = TRUE, !.answer = given]}
  BY DEF Rotates
<1>3. PICK k \in Nat : k = Cardinality(Unasked)
  BY FS_CardinalityType DEF Typed, Counted
<1>4. /\ \A s \in Servers : actual[s] \in 0..MaxWork /\ actual[s] + k \in 0..used.work \cap 0..MaxWork
  BY <1>3 DEF Typed, TypeOK, Counted
<1>5. /\ IsFiniteSet(Unasked \ {r}) /\ Cardinality(Unasked \ {r}) = k - 1 /\ k - 1 \in Nat
  <2>1. IsFiniteSet(Unasked)
    BY DEF Typed, Counted
  <2>2. IsFiniteSet(Unasked \ {r}) /\ Cardinality(Unasked \ {r}) = k - 1
    BY <1>1, <1>3, <2>1, FS_RemoveElement
  <2>. QED BY <2>2, FS_CardinalityType
<1>6. \A s \in Servers : actual[s] + 1 \in 0..MaxWork
  BY <1>4, <1>5, <1>1, <1>3
<1>7. /\ actual' \in [Servers -> 0..MaxWork]
      /\ \A s \in Servers : actual'[s] \in {actual[s], actual[s] + 1}
  BY <1>1, <1>2, <1>4, <1>6 DEF Typed, TypeOK
<1>8. PICK a : a = actual[r.server] + 1
  OBVIOUS
<1>9. [of |-> r.server, n |-> a] \in Secret
  BY <1>1, <1>6, <1>8 DEF Secret
<1>10. given \in Password
  BY <1>2, <1>8, <1>9 DEF Password
<1>11. PICK q : q = [r EXCEPT !.asked = TRUE, !.answer = given]
  OBVIOUS
<1>12. q \in Rotation /\ q.asked
  BY <1>1, <1>10, <1>11 DEF Rotation
<1>13. rotations' = (rotations \ {r}) \cup {q} /\ rotations' \subseteq Rotation
  BY <1>2, <1>11, <1>12 DEF Typed, TypeOK
<1>14. Unasked' = Unasked \ {r}
  BY <1>1, <1>12, <1>13 DEF Unasked
<1>15. \A s \in Servers : actual'[s] + (k - 1) \in 0..used.work \cap 0..MaxWork
  <2>1. SUFFICES ASSUME NEW s \in Servers PROVE actual'[s] + (k - 1) \in 0..used.work \cap 0..MaxWork
    OBVIOUS
  <2>2. PICK b \in 0..MaxWork : b = actual[s] /\ b + k \in 0..used.work \cap 0..MaxWork
    BY <1>4
  <2>3. PICK c \in {b, b + 1} : c = actual'[s]
    BY <1>7, <2>2
  <2>4. c + (k - 1) \in 0..used.work \cap 0..MaxWork
    BY <1>1, <1>3, <1>5, <2>2, <2>3
  <2>. QED BY <2>3, <2>4
<1>16. Counted'
  BY <1>1, <1>5, <1>14, <1>15 DEF Counted
<1>. QED BY <1>1, <1>7, <1>13, <1>16 DEF Rotates, Typed, TypeOK, Placed, store

\* The first connection to a server, if there is one
LEMMA FirstOwner ==
    ASSUME list \in Seq(Connection), NEW s, {i \in DOMAIN list : list[i].server = s} # {}
    PROVE  \E i \in DOMAIN list :
              i = Min({j \in DOMAIN list : list[j].server = s}) /\ list[i].server = s
<1>1. PICK S : S = {i \in DOMAIN list : list[i].server = s}
  OBVIOUS
<1>2. S \subseteq Nat /\ S # {}
  BY <1>1
<1>3. Min(S) \in S
  BY <1>2, MinAttained
<1>. QED BY <1>1, <1>3

LEMMA TypesOfRotationLands ==
    ASSUME Typed, NEW r \in rotations, RotationLands(r)
    PROVE  Typed'
<1>1. /\ r \in Rotation /\ r.asked /\ r.answer \in Password /\ rotations' = rotations \ {r}
      /\ UNCHANGED <<list, disk, cache, actual, connected, connecting, probes, explains, wakes, spoiled>>
  BY DEF RotationLands, Typed, TypeOK, Rotation
<1>2. Unasked' = Unasked
  BY <1>1 DEF Unasked
<1>3. /\ form' \in Draft \cup {None} /\ Placed'
  <2>1. CASE form' = form
    BY <1>1, <2>1 DEF Typed, TypeOK, Placed
  <2>2. CASE SameForm(r)
    <3>1. form \in Draft /\ form.password \in Password
      BY <2>2 DEF SameForm, Typed, TypeOK, Draft
    <3>2. PICK password \in Password : password = IF r.answer = None THEN form.password ELSE r.answer
      BY <1>1, <3>1
    <3>3. form' = [form EXCEPT !.working = FALSE, !.password = password]
      BY <2>2, <3>1, <3>2 DEF RotationLands
    <3>4. form' \in Draft /\ form'.editing = form.editing
      BY <3>1, <3>3 DEF Draft
    <3>. QED BY <1>1, <2>2, <3>4 DEF SameForm, Typed, Placed
  <2>. QED BY <2>1, <2>2 DEF RotationLands
<1>4. /\ keychain' \in [Names -> Password]
      /\ used' \in [work : Nat, faults : 0..MaxFaults] /\ used'.work = used.work
  <2>1. CASE keychain' = keychain /\ used' = used
    BY <2>1 DEF Typed, TypeOK
  <2>2. CASE MayFail("secret") /\ Spend("faults") /\ keychain' = keychain
    <3>1. PICK f \in 0..MaxFaults : f = used.faults
      BY DEF Typed, TypeOK
    <3>2. f + 1 \in 0..MaxFaults
      BY <2>2, <3>1, ConnectionsAssumption DEF MayFail
    <3>. QED BY <2>2, <3>1, <3>2 DEF Spend, Typed, TypeOK
  <2>3. ASSUME {i \in DOMAIN list : list[i].server = r.server} # {}, used' = used,
               keychain' = [keychain EXCEPT
                   ![list[Min({i \in DOMAIN list : list[i].server = r.server})].name] = r.answer]
        PROVE  /\ keychain' \in [Names -> Password]
               /\ used' \in [work : Nat, faults : 0..MaxFaults] /\ used'.work = used.work
    BY <1>1, <2>3 DEF Typed, TypeOK
  <2>. QED BY <2>1, <2>2, <2>3 DEF RotationLands
<1>5. used.work \in Nat /\ rotations' \subseteq Rotation
  BY <1>1 DEF Typed, TypeOK
<1>6. Counted'
  BY <1>1, <1>2, <1>4, <1>5 DEF Typed, Counted
<1>. QED BY <1>1, <1>3, <1>4, <1>5, <1>6 DEF Typed, TypeOK

LEMMA TypedStep == Typed /\ [Next]_vars => Typed'
<1>. SUFFICES ASSUME Typed, [Next]_vars PROVE Typed'
  OBVIOUS
<1>1. CASE UNCHANGED vars
  BY <1>1 DEF vars, Typed, TypeOK, Counted, Unasked, Placed
<1>2. CASE ByUser
  BY <1>2, TypesOfForms, TypesOfSaveForm, TypesOfConnecting, TypesOfTheList, TypesOfConfirm DEF ByUser
<1>3. CASE Work
  BY <1>3, TypesOfProbes, TypesOfProbeSaves, TypesOfExplains, TypesOfWakes, TypesOfAwake,
     TypesOfRotates, TypesOfRotationLands DEF Work
<1>. QED BY <1>1, <1>2, <1>3 DEF Next

LEMMA AlwaysTyped == Spec => []Typed
BY TypedInit, TypedStep, PTL DEF Spec

\* Whatever is started, cancelled, refused or lost, every value is of its kind;
\* no password has a number that was not paid for, and no form or test is about
\* a row the list never had (model.rs:15-70).
THEOREM TypeCorrect == Spec => []TypeOK
<1>1. Typed => TypeOK
  BY DEF Typed
<1>. QED BY <1>1, AlwaysTyped, PTL

-----------------------------------------------------------------------------
(* What a save leaves, done or failed, when the draft's name is free. *)

Free(d) == \A i \in DOMAIN list : i # d.editing => list[i].name # d.connection.name

\* A connection's name is its key in the Keychain.
NamesAreKeys == \A i, j \in DOMAIN list : list[i].name = list[j].name => i = j

LEMMA DraftParts ==
    ASSUME NEW d \in Draft
    PROVE  /\ d.connection \in Connection /\ d.connection.name \in Names /\ d.connection.server \in Servers
           /\ d.original \in Names \cup {None} /\ d.password \in Password /\ d.editing \in Nat
BY DEF Draft, Connection

LEMMA OriginalIsHome ==
    ASSUME NamesAreKeys, SecretsStayHome, list \in Seq(Connection), NEW d \in Draft, Fits(d),
           d.original # None
    PROVE  /\ d.editing \in DOMAIN list /\ d.original = list[d.editing].name /\ d.original \in Names
           /\ d.connection.server = list[d.editing].server
           /\ keychain[d.original] # None => keychain[d.original].of = d.connection.server
<1>1. /\ d.editing \in DOMAIN list /\ d.original = list[d.editing].name
      /\ d.connection.server = list[d.editing].server /\ d.original \in Names
  BY DraftParts DEF Fits
<1>2. ASSUME keychain[d.original] # None
      PROVE  keychain[d.original].of = d.connection.server
  <2>1. PICK i \in DOMAIN list : list[i].name = d.original /\ list[i].server = keychain[d.original].of
    BY <1>1, <1>2 DEF SecretsStayHome
  <2>2. i = d.editing
    BY <1>1, <2>1 DEF NamesAreKeys
  <2>. QED BY <1>1, <2>1, <2>2
<1>. QED BY <1>1, <1>2

\* What the Keychain has under each name after the item was written.
LEMMA ItemIs ==
    ASSUME keychain \in [Names -> Password], NamesAreKeys, SecretsStayHome, list \in Seq(Connection),
           NEW d \in Draft, Fits(d)
    PROVE  /\ Item(d) # None => Item(d).of = d.connection.server
           /\ \A n \in Names : n # d.connection.name => Written(d)[n] = keychain[n]
           /\ Written(d)[d.connection.name] # None =>
                 Written(d)[d.connection.name] \in {Item(d), keychain[d.connection.name]}
           /\ Item(d) # None => Written(d)[d.connection.name] = Item(d)
           /\ Item(d) = None => Written(d) = keychain
<1>1. d.connection.name \in Names
  BY DraftParts
<1>2. Item(d) # None => Item(d).of = d.connection.server
  BY OriginalIsHome DEF Item, Renames, Fits
<1>. QED BY <1>1, <1>2 DEF Written

LEMMA StoredIs ==
    ASSUME keychain \in [Names -> Password], NEW d \in Draft
    PROVE  /\ \A n \in Names : n # d.connection.name /\ n # d.original => Stored(d)[n] = keychain[n]
           /\ Item(d) # None => Stored(d)[d.connection.name] = Item(d)
           /\ Item(d) = None => Stored(d)[d.connection.name] = keychain[d.connection.name]
           /\ Renames(d) => Stored(d)[d.original] = None
<1>1. d.connection.name \in Names /\ d.original \in Names \cup {None}
  BY DraftParts
<1>2. PICK now : now = Written(d)
  OBVIOUS
<1>3. /\ DOMAIN now = Names
      /\ \A n \in Names : n # d.connection.name => now[n] = keychain[n]
      /\ Item(d) # None => now[d.connection.name] = Item(d)
      /\ Item(d) = None => now = keychain
  BY <1>1, <1>2 DEF Written
<1>4. Stored(d) = IF Renames(d) /\ Item(d) # None THEN [now EXCEPT ![d.original] = None] ELSE now
  BY <1>2 DEF Stored
<1>5. CASE Renames(d)
  <2>1. d.original \in Names /\ d.original # d.connection.name
    BY <1>1, <1>5 DEF Renames
  <2>2. CASE Item(d) # None
    BY <1>1, <1>3, <1>4, <1>5, <2>1, <2>2
  <2>3. CASE Item(d) = None
    <3>1. keychain[d.original] = None
      BY <1>5, <2>3 DEF Item
    <3>. QED BY <1>1, <1>3, <1>4, <2>1, <2>3, <3>1
  <2>. QED BY <2>2, <2>3
<1>6. CASE ~Renames(d)
  BY <1>1, <1>3, <1>4, <1>6
<1>. QED BY <1>5, <1>6

LEMMA SavedKeeps ==
    ASSUME keychain \in [Names -> Password], list \in Seq(Connection),
           NamesAreKeys, SecretsStayHome, NEW d \in Draft, Fits(d), Free(d), Persists(d)
    PROVE  /\ NamesAreKeys' /\ SecretsStayHome' /\ disk' = list' /\ Len(list') >= Len(list)
           /\ \A s \in Servers : HasSecret(s) => HasSecret(s)'
           /\ d.connection \in Range(list')
           /\ \A c \in Range(list) : c.name # d.original => c \in Range(list')
<1>1. PICK l, row : l = Updated(d) /\ row = Row(d)
  OBVIOUS
<1>2. PICK k : k = Stored(d)
  OBVIOUS
<1>3. list' = l /\ disk' = l /\ keychain' = k
  BY <1>1, <1>2 DEF Persists
<1>4. /\ l \in Seq(Connection) /\ Len(l) >= Len(list)
      /\ row \in DOMAIN l /\ l[row] = d.connection
      /\ \A i \in DOMAIN l : i # row => i \in DOMAIN list /\ i # d.editing /\ l[i] = list[i]
      /\ \A i \in DOMAIN list : i # d.editing => i \in DOMAIN l /\ i # row /\ l[i] = list[i]
  BY <1>1, UpdatedIs DEF Fits
<1>5. /\ \A n \in Names : n # d.connection.name /\ n # d.original => k[n] = keychain[n]
      /\ Item(d) # None => k[d.connection.name] = Item(d) /\ Item(d).of = d.connection.server
      /\ Item(d) = None => k[d.connection.name] = keychain[d.connection.name]
      /\ Renames(d) => k[d.original] = None
  BY <1>2, StoredIs, ItemIs
<1>6. d.connection.name \in Names /\ d.original \in Names \cup {None} /\ d.connection.server \in Servers
  BY DraftParts
<1>7. \A i \in DOMAIN list : list[i].name \in Names
  <2>1. \A i \in DOMAIN list : list[i] \in Connection
    OBVIOUS
  <2>. QED BY <2>1 DEF Connection
<1>8. ASSUME NEW i \in DOMAIN list, i # d.editing
      PROVE  list[i].name # d.original /\ list[i].name # d.connection.name
  <2>1. list[i].name # d.connection.name
    BY <1>8 DEF Free
  <2>2. CASE d.original = None
    BY <1>7, <2>1, <2>2, ConnectionsAssumption
  <2>3. CASE d.original # None
    <3>1. d.editing \in DOMAIN list /\ d.original = list[d.editing].name
      BY <2>3, OriginalIsHome
    <3>. QED BY <1>8, <2>1, <3>1 DEF NamesAreKeys
  <2>. QED BY <2>2, <2>3
<1>9. ASSUME NEW i \in DOMAIN l, NEW j \in DOMAIN l, l[i].name = l[j].name
      PROVE  i = j
  <2>1. CASE i # row /\ j # row
    BY <1>4, <1>9, <2>1 DEF NamesAreKeys
  <2>2. ASSUME i # row, j = row PROVE FALSE
    <3>1. i \in DOMAIN list /\ i # d.editing /\ l[i] = list[i]
      BY <1>4, <2>2
    <3>. QED BY <1>4, <1>8, <1>9, <2>2, <3>1
  <2>3. ASSUME i = row, j # row PROVE FALSE
    <3>1. j \in DOMAIN list /\ j # d.editing /\ l[j] = list[j]
      BY <1>4, <2>3
    <3>. QED BY <1>4, <1>8, <1>9, <2>3, <3>1
  <2>. QED BY <2>1, <2>2, <2>3
<1>10. NamesAreKeys'
  BY <1>3, <1>9 DEF NamesAreKeys
\* The item under the draft's name is of the draft's server.
<1>11. ASSUME k[d.connection.name] # None
       PROVE  k[d.connection.name].of = d.connection.server
  <2>1. CASE Item(d) # None
    BY <1>5, <2>1
  <2>2. CASE Item(d) = None
    <3>1. keychain[d.connection.name] # None /\ k[d.connection.name] = keychain[d.connection.name]
      BY <1>5, <1>11, <2>2
    <3>2. PICK i \in DOMAIN list : list[i].name = d.connection.name
                                   /\ list[i].server = keychain[d.connection.name].of
      BY <1>6, <3>1 DEF SecretsStayHome
    <3>3. i = d.editing
      BY <1>8, <3>2
    <3>4. d.connection.server = list[i].server
      BY <3>3, <3>2 DEF Fits
    <3>. QED BY <3>1, <3>2, <3>4
  <2>. QED BY <2>1, <2>2
<1>12. ASSUME NEW n \in Names, k[n] # None
       PROVE  \E i \in DOMAIN l : l[i].name = n /\ l[i].server = k[n].of
  <2>1. CASE n = d.connection.name
    BY <1>4, <1>11, <1>12, <2>1
  <2>2. CASE n # d.connection.name
    <3>1. n # d.original
      BY <1>5, <1>12, <2>2, ConnectionsAssumption DEF Renames
    <3>2. k[n] = keychain[n]
      BY <1>5, <2>2, <3>1
    <3>3. PICK i \in DOMAIN list : list[i].name = n /\ list[i].server = keychain[n].of
      BY <1>12, <3>2 DEF SecretsStayHome
    <3>4. i # d.editing
      BY <3>1, <3>3, <1>6 DEF Fits
    <3>. QED BY <1>4, <3>2, <3>3, <3>4
  <2>. QED BY <2>1, <2>2
<1>13. SecretsStayHome'
  BY <1>3, <1>12 DEF SecretsStayHome
<1>14. ASSUME NEW s \in Servers, NEW i \in DOMAIN list, list[i].server = s, keychain[list[i].name] # None
       PROVE  \E j \in DOMAIN l : l[j].server = s /\ k[l[j].name] # None
  <2>1. CASE i # d.editing
    <3>1. i \in DOMAIN l /\ l[i] = list[i] /\ k[list[i].name] = keychain[list[i].name]
      BY <1>4, <1>5, <1>7, <1>8, <2>1
    <3>. QED BY <1>14, <3>1
  <2>2. CASE i = d.editing
    <3>1. d.original = list[i].name /\ d.connection.server = s /\ d.original # None
      BY <1>7, <1>14, <2>2, ConnectionsAssumption DEF Fits
    <3>2. k[d.connection.name] # None
      <4>1. CASE Item(d) # None
        BY <1>5, <4>1
      <4>2. CASE Item(d) = None
        <5>1. ~Renames(d)
          BY <1>14, <3>1, <4>2 DEF Item
        <5>. QED BY <1>5, <1>14, <3>1, <4>2, <5>1 DEF Renames
      <4>. QED BY <4>1, <4>2
    <3>. QED BY <1>4, <3>1, <3>2
  <2>. QED BY <2>1, <2>2
<1>15. \A s \in Servers : HasSecret(s) => HasSecret(s)'
  BY <1>3, <1>14 DEF HasSecret
<1>16. d.connection \in Range(l)
  BY <1>4 DEF Range
<1>17. ASSUME NEW c \in Range(list), c.name # d.original
       PROVE  c \in Range(l)
  <2>1. PICK i \in DOMAIN list : c = list[i]
    BY DEF Range
  <2>2. i # d.editing
    BY <1>17, <2>1 DEF Fits
  <2>. QED BY <1>4, <2>1, <2>2 DEF Range
<1>. QED BY <1>3, <1>4, <1>10, <1>13, <1>15, <1>16, <1>17

\* A save that failed leaves every name what it had, but those of the draft: the
\* new one has nothing, the original one a password of the draft's server.
LEMMA RolledBackIs ==
    ASSUME keychain \in [Names -> Password], NEW d \in Draft, NEW previous,
           NEW half \in {keychain, Written(d)}
    PROVE  LET k == RolledBack(d, previous, half) IN
           /\ \A n \in Names : n # d.connection.name /\ n # d.original => k[n] = keychain[n]
           /\ d.original # d.connection.name => k[d.connection.name] = None
           /\ d.original # None => k[d.original] \in {previous, keychain[d.original], Item(d)}
           /\ d.original # None /\ previous # None => k[d.original] = previous
<1>1. d.connection.name \in Names /\ d.original \in Names \cup {None} /\ None \notin Names
  BY DraftParts, ConnectionsAssumption
<1>2. /\ DOMAIN half = Names
      /\ \A n \in Names : n # d.connection.name => half[n] = keychain[n]
      /\ half[d.connection.name] \in {keychain[d.connection.name], Item(d)}
  BY <1>1 DEF Written
<1>3. PICK back : back = IF d.original # None /\ previous # None THEN [half EXCEPT ![d.original] = previous]
                                                                 ELSE half
  OBVIOUS
<1>4. RolledBack(d, previous, half)
        = IF d.original # d.connection.name THEN [back EXCEPT ![d.connection.name] = None] ELSE back
  BY <1>3 DEF RolledBack, PutBack, Cleared
<1>5. PICK k : k = RolledBack(d, previous, half)
  OBVIOUS
<1>6. /\ DOMAIN back = Names
      /\ \A n \in Names : n # d.original => back[n] = half[n]
      /\ d.original # None => back[d.original] = IF previous # None THEN previous ELSE half[d.original]
  BY <1>1, <1>2, <1>3
<1>7. /\ \A n \in Names : n # d.connection.name => k[n] = back[n]
      /\ d.original # d.connection.name => k[d.connection.name] = None
      /\ d.original = d.connection.name => k = back
  BY <1>1, <1>4, <1>5, <1>6
<1>8. d.original # None => k[d.original] = IF previous # None THEN previous ELSE half[d.original]
  BY <1>1, <1>6, <1>7
<1>9. d.original # None => half[d.original] \in {keychain[d.original], Item(d)}
  BY <1>1, <1>2
<1>. QED BY <1>2, <1>5, <1>6, <1>7, <1>8, <1>9

LEMMA FailedKeeps ==
    ASSUME keychain \in [Names -> Password], list \in Seq(Connection),
           NamesAreKeys, SecretsStayHome, NEW d \in Draft, Fits(d), Free(d),
           NEW previous, previous # None => previous.of = d.connection.server,
           PersistFails(d, previous), ~spoiled'
    PROVE  /\ list' = list /\ disk' \in {disk, list} /\ SecretsStayHome'
           /\ (d.original # None /\ keychain[d.original] # None => previous # None)
                 => \A s \in Servers : HasSecret(s) => HasSecret(s)'
<1>1. list' = list /\ disk' \in {disk, list}
  BY DEF PersistFails, StepsBack, FileRolledBack
<1>2. CASE keychain' = keychain
  BY <1>1, <1>2 DEF SecretsStayHome, HasSecret
<1>3. ASSUME NEW half \in {keychain, Written(d)}, keychain' = RolledBack(d, previous, half)
      PROVE  /\ SecretsStayHome'
             /\ (d.original # None /\ keychain[d.original] # None => previous # None)
                   => \A s \in Servers : HasSecret(s) => HasSecret(s)'
  <2>1. PICK k : k = keychain'
    OBVIOUS
  <2>2. /\ \A n \in Names : n # d.connection.name /\ n # d.original => k[n] = keychain[n]
        /\ d.original # d.connection.name => k[d.connection.name] = None
        /\ d.original # None => k[d.original] \in {previous, keychain[d.original], Item(d)}
        /\ d.original # None /\ previous # None => k[d.original] = previous
    BY <1>3, <2>1, RolledBackIs
  <2>3. Item(d) # None => Item(d).of = d.connection.server
    BY ItemIs
  <2>4. d.connection.name \in Names /\ d.original \in Names \cup {None} /\ None \notin Names
    BY DraftParts, ConnectionsAssumption
  <2>5. d.original # None =>
           /\ d.editing \in DOMAIN list /\ d.original = list[d.editing].name
           /\ d.connection.server = list[d.editing].server
           /\ keychain[d.original] # None => keychain[d.original].of = d.connection.server
    BY OriginalIsHome
  <2>6. ASSUME NEW n \in Names, k[n] # None
        PROVE  \E i \in DOMAIN list : list[i].name = n /\ list[i].server = k[n].of
    <3>1. CASE n = d.original
      <4>1. k[n].of = d.connection.server
        BY <2>2, <2>3, <2>4, <2>5, <2>6, <3>1
      <4>. QED BY <2>4, <2>5, <3>1, <4>1
    <3>2. CASE n # d.original
      <4>1. k[n] = keychain[n]
        BY <2>2, <2>6, <3>2
      <4>. QED BY <2>6, <4>1 DEF SecretsStayHome
    <3>. QED BY <3>1, <3>2
  <2>7. ASSUME d.original # None /\ keychain[d.original] # None => previous # None,
               NEW s \in Servers, NEW i \in DOMAIN list, list[i].server = s, keychain[list[i].name] # None
        PROVE  k[list[i].name] # None
    <3>1. list[i] \in Connection /\ list[i].name \in Names
      <4>1. list[i] \in Connection
        OBVIOUS
      <4>. QED BY <4>1 DEF Connection
    <3>2. CASE list[i].name = d.original
      BY <2>2, <2>4, <2>7, <3>1, <3>2
    <3>3. CASE list[i].name # d.original
      <4>1. list[i].name # d.connection.name
        <5>1. CASE i = d.editing
          BY <3>1, <3>3, <5>1 DEF Fits
        <5>2. CASE i # d.editing
          BY <5>2 DEF Free
        <5>. QED BY <5>1, <5>2
      <4>. QED BY <2>2, <2>7, <3>1, <3>3, <4>1
    <3>. QED BY <3>2, <3>3
  <2>8. SecretsStayHome'
    BY <1>1, <2>1, <2>6 DEF SecretsStayHome
  <2>9. ASSUME d.original # None /\ keychain[d.original] # None => previous # None, NEW s \in Servers, HasSecret(s)
        PROVE  HasSecret(s)'
    BY <1>1, <2>1, <2>7, <2>9 DEF HasSecret
  <2>. QED BY <2>8, <2>9
<1>4. keychain' = keychain \/ \E half \in {keychain, Written(d)} : keychain' = RolledBack(d, previous, half)
  BY DEF PersistFails, StepsBack
<1>. QED BY <1>1, <1>2, <1>3, <1>4

-----------------------------------------------------------------------------
(* The inductive invariant.  Books is true throughout; Aligned as long as      *)
(* nothing has got under the probe in flight and what failed was taken back.   *)

\* The form that is open fits the list; an answer of the control
\* plane is about the service it was asked about; a node that answered took its
\* own password; and a test is of the draft it carries.
Books ==
    /\ form # None => Fits(form)
    /\ \A r \in rotations : r.answer # None => r.answer.of = r.server
    /\ \A p \in probes : p.answer = "reachable" => p.password # None /\ p.password.of = p.connection.server
    /\ \A p \in probes : p.draft # None => p.connection = p.draft.connection

\* One probe at a time, which is what the toolbar shows; it is about a row of the
\* list or about a draft that can still be saved.
OneProbe == \A p, q \in probes : p = q
Aimed(p) ==
    /\ connecting = p.connection.name
    /\ p.draft = None => p.connection \in Range(list)
    /\ p.draft # None => Fits(p.draft) /\ Free(p.draft)

\* The file is the list, too, which is why a restart shows nothing else.
Aligned ==
    /\ disk = list
    /\ NamesAreKeys /\ OneProbe
    /\ \A p \in probes : Aimed(p)
    /\ ConnectedIsSaved /\ SecretsStayHome

Inductively == Typed /\ Books /\ (~spoiled => Aligned)

LEMMA FormStays ==
    ASSUME Typed, Books, UNCHANGED <<list, form>>
    PROVE  (form # None => Fits(form))'
BY DEF Books, Fits

\* A password of the server under the name of a connection of the list
LEMMA PutHome ==
    ASSUME keychain \in [Names -> Password], list \in Seq(Connection), NamesAreKeys, SecretsStayHome,
           NEW i \in DOMAIN list, NEW secret, secret # None, secret.of = list[i].server,
           keychain' = [keychain EXCEPT ![list[i].name] = secret], list' = list
    PROVE  SecretsStayHome' /\ \A s \in Servers : HasSecret(s) => HasSecret(s)'
<1>1. \A j \in DOMAIN list : list[j].name \in Names
  <2>1. \A j \in DOMAIN list : list[j] \in Connection
    OBVIOUS
  <2>. QED BY <2>1 DEF Connection
<1>2. PICK k : k = keychain'
  OBVIOUS
<1>3. k[list[i].name] = secret /\ \A n \in Names : n # list[i].name => k[n] = keychain[n]
  BY <1>1, <1>2
<1>4. ASSUME NEW n \in Names, k[n] # None
      PROVE  \E j \in DOMAIN list : list[j].name = n /\ list[j].server = k[n].of
  BY <1>3, <1>4 DEF SecretsStayHome
<1>5. \A j \in DOMAIN list : keychain[list[j].name] # None => k[list[j].name] # None
  BY <1>1, <1>3
<1>6. SecretsStayHome'
  BY <1>2, <1>4 DEF SecretsStayHome
<1>7. \A s \in Servers : HasSecret(s) => HasSecret(s)'
  BY <1>2, <1>5 DEF HasSecret
<1>. QED BY <1>6, <1>7

\* What SavesAreWhole says of a step
WholeStep ==
    /\ disk' = list'
    /\ Len(list') >= Len(list) => \A s \in Servers : HasSecret(s) => HasSecret(s)'

Keeps == Books' /\ (~spoiled' => Aligned' /\ WholeStep)

\* Steps that leave list and Keychain alone and start no probe
LEMMA CalmStep ==
    ASSUME Inductively, list' = list, disk' = disk, keychain' = keychain, spoiled' \in BOOLEAN, spoiled => spoiled',
           connected' \in {connected, None}, probes' \subseteq probes,
           spoiled' \/ probes' = {} \/ connecting' = connecting,
           (form # None => Fits(form))',
           \A r \in rotations' : r.answer # None => r.answer.of = r.server
    PROVE  Keeps
<1>1. Books'
  BY DEF Inductively, Books
<1>2. ASSUME ~spoiled'
      PROVE  Aligned' /\ WholeStep
  <2>1. Aligned /\ Books
    BY <1>2 DEF Inductively
  <2>2. NamesAreKeys' /\ SecretsStayHome'
    BY <2>1 DEF Aligned, NamesAreKeys, SecretsStayHome
  <2>3. ConnectedIsSaved'
    BY <2>1 DEF Aligned, ConnectedIsSaved
  <2>4. OneProbe'
    BY <2>1 DEF Aligned, OneProbe
  <2>5. \A p \in probes' : Aimed(p)'
    <3>1. SUFFICES ASSUME NEW p \in probes' PROVE Aimed(p)'
      OBVIOUS
    <3>2. Aimed(p) /\ connecting' = connecting
      BY <1>2, <2>1 DEF Aligned
    <3>. QED BY <3>2 DEF Aimed, Fits, Free
  <2>6. WholeStep
    BY <2>1 DEF WholeStep, Aligned, HasSecret
  <2>7. disk' = list'
    BY <2>1 DEF Aligned
  <2>. QED BY <2>2, <2>3, <2>4, <2>5, <2>6, <2>7 DEF Aligned
<1>. QED BY <1>1, <1>2 DEF Keeps

LEMMA RowParts ==
    ASSUME list \in Seq(Connection), NEW i \in DOMAIN list
    PROVE  /\ list[i] \in Connection /\ list[i].name \in Names /\ list[i].server \in Servers
           /\ list[i] \in Range(list) /\ Len(list) \in Nat /\ DOMAIN list = 1..Len(list)
<1>1. list[i] \in Connection /\ Len(list) \in Nat /\ DOMAIN list = 1..Len(list)
  OBVIOUS
<1>. QED BY <1>1 DEF Connection, Range

LEMMA KeepsOfForms ==
    ASSUME Inductively, StartAdd \/ (\E i \in DOMAIN list : StartEdit(i)) \/ CloseForm
    PROVE  Keeps
<1>1. /\ UNCHANGED <<store, cache, actual, connected, connecting, tasks, spoiled>>
      /\ spoiled \in BOOLEAN /\ list \in Seq(Connection) /\ Len(list) \in Nat
  BY DEF StartAdd, StartEdit, CloseForm, Opened, Inductively, Typed, TypeOK
<1>2. (form # None => Fits(form))'
  <2>1. CASE StartAdd
    <3>1. PICK name \in Names, server \in Servers :
            form' = [key |-> used.work + 1, editing |-> 0, original |-> None,
                     connection |-> [name |-> name, server |-> server, posture |-> "guarded"],
                     password |-> Current(server), working |-> FALSE]
      BY <2>1 DEF StartAdd, Opened
    <3>. QED BY <1>1, <3>1 DEF Fits, Current, store
  <2>2. ASSUME NEW i \in DOMAIN list, StartEdit(i)
        PROVE  (form # None => Fits(form))'
    <3>1. PICK name \in Names, posture \in Postures, password \in {None, Current(list[i].server)} :
            form' = [key |-> used.work + 1, editing |-> i, original |-> list[i].name,
                     connection |-> [name |-> name, server |-> list[i].server, posture |-> posture],
                     password |-> password, working |-> FALSE]
      BY <2>2 DEF StartEdit, Opened
    <3>2. i \in 0..Len(list) /\ i # 0
      BY <1>1
    <3>. QED BY <1>1, <3>1, <3>2 DEF Fits, Current, store
  <2>3. CASE CloseForm
    BY <2>3 DEF CloseForm
  <2>. QED BY <2>1, <2>2, <2>3
<1>. QED BY <1>1, <1>2, CalmStep DEF store, tasks, Inductively, Books

\* A form whose buttons work, and no probe under it
LEMMA ReadyFits ==
    ASSUME Inductively, Ready, ~spoiled
    PROVE  /\ form \in Draft /\ Fits(form) /\ Free(form) /\ probes = {} /\ Aligned
           /\ list \in Seq(Connection) /\ keychain \in [Names -> Password]
<1>1. form \in Draft /\ Fits(form) /\ Free(form) /\ connecting = None
  BY DEF Inductively, Ready, Books, Typed, TypeOK, Free
<1>2. Aligned /\ list \in Seq(Connection) /\ keychain \in [Names -> Password]
  BY DEF Inductively, Typed, TypeOK
<1>3. ASSUME NEW p \in probes PROVE FALSE
  <2>1. p.connection.name \in Names
    BY DEF Inductively, Typed, TypeOK, Probe, Connection
  <2>. QED BY <1>1, <1>2, <2>1, ConnectionsAssumption DEF Aligned, Aimed
<1>. QED BY <1>1, <1>2, <1>3

\* What was spoiled before a save still is.
LEMMA SpoiledStays ==
    ASSUME spoiled \in BOOLEAN, NEW d, Persists(d) \/ \E previous : PersistFails(d, previous)
    PROVE  spoiled => spoiled'
BY DEF Persists, PersistFails, StepsBack

LEMMA KeepsOfSaveForm ==
    ASSUME Inductively, SaveForm
    PROVE  Keeps
<1>1. UNCHANGED <<cache, actual, connecting, tasks>> /\ Ready
  BY DEF SaveForm
<1>2. Books'
  <2>2. (form # None => Fits(form))'
    <3>1. CASE form' = None
      BY <3>1
    <3>2. CASE UNCHANGED <<list, form>>
      BY <3>2 DEF Inductively, Books, Fits
    <3>. QED BY <3>1, <3>2 DEF SaveForm, PersistFails
  <2>. QED BY <1>1, <2>2 DEF Inductively, Books, tasks
<1>3. ASSUME ~spoiled'
      PROVE  Aligned' /\ WholeStep
  <2>0. ~spoiled
    BY <1>3, SpoiledStays DEF SaveForm, Inductively, Typed, TypeOK
  <2>1. /\ form \in Draft /\ Fits(form) /\ Free(form) /\ probes = {} /\ Aligned /\ ~spoiled
        /\ list \in Seq(Connection) /\ keychain \in [Names -> Password]
    BY <1>1, <2>0, ReadyFits
  <2>2. NamesAreKeys /\ SecretsStayHome /\ ConnectedIsSaved
    BY <2>1 DEF Aligned
  <2>3. probes' = {}
    BY <1>1, <2>1 DEF tasks
  <2>4. CASE Persists(form) /\ connected' = SessionAfter(form)
    <3>1. /\ NamesAreKeys' /\ SecretsStayHome' /\ disk' = list' /\ Len(list') >= Len(list)
          /\ \A s \in Servers : HasSecret(s) => HasSecret(s)'
          /\ \A c \in Range(list) : c.name # form.original => c \in Range(list')
      BY <2>1, <2>2, <2>4, SavedKeeps
    <3>2. ConnectedIsSaved'
      BY <2>2, <2>4, <3>1 DEF SessionAfter, ConnectedIsSaved
    <3>. QED BY <2>3, <3>1, <3>2 DEF Aligned, OneProbe, WholeStep
  <2>5. CASE PersistFails(form, IF form.original = None THEN None ELSE keychain[form.original])
             /\ UNCHANGED <<connected, form>>
    <3>1. PICK previous : previous = IF form.original = None THEN None ELSE keychain[form.original]
      OBVIOUS
    <3>2. previous # None => previous.of = form.connection.server
      BY <2>1, <2>2, <3>1, OriginalIsHome
    <3>3. PersistFails(form, previous)
      BY <2>5, <3>1
    <3>4. form.original # None /\ keychain[form.original] # None => previous # None
      BY <3>1
    <3>5. /\ list' = list /\ disk' \in {disk, list} /\ SecretsStayHome'
          /\ \A s \in Servers : HasSecret(s) => HasSecret(s)'
      BY <1>3, <2>1, <2>2, <3>2, <3>3, <3>4, FailedKeeps
    <3>6. NamesAreKeys' /\ ConnectedIsSaved' /\ disk' = list'
      BY <2>1, <2>2, <2>5, <3>5 DEF NamesAreKeys, ConnectedIsSaved, Aligned
    <3>. QED BY <2>3, <3>5, <3>6 DEF Aligned, OneProbe, WholeStep
  <2>. QED BY <2>4, <2>5 DEF SaveForm
<1>. QED BY <1>2, <1>3 DEF Keeps

\* A probe that starts when none is in flight
LEMMA KeepsOfProbing ==
    ASSUME Inductively, NEW c, NEW password, NEW draft, Probing(c, password, draft),
           UNCHANGED <<store, connected, form, rotations>>,
           ~spoiled /\ probes = {} /\ draft = None => c \in Range(list),
           ~spoiled /\ probes = {} /\ draft # None => Fits(draft) /\ Free(draft),
           draft # None => c = draft.connection, None # "reachable"
    PROVE  Keeps
<1>1. PICK q : q = [no |-> used.work, connection |-> c, password |-> password, draft |-> draft, answer |-> None]
  OBVIOUS
<1>2. /\ probes' = probes \cup {q} /\ connecting' = c.name /\ spoiled' = (spoiled \/ probes # {})
      /\ q.connection = c /\ q.draft = draft /\ q.answer = None
  BY <1>1 DEF Probing
<1>3. list' = list /\ disk' = disk /\ keychain' = keychain /\ connected' = connected /\ form' = form
  BY DEF store
<1>4. Books'
  BY <1>2, <1>3 DEF Inductively, Books, Fits
<1>5. ASSUME ~spoiled'
      PROVE  Aligned' /\ WholeStep
  <2>1. ~spoiled /\ probes = {} /\ probes' = {q} /\ Aligned
    BY <1>2, <1>5 DEF Inductively
  <2>2. Aimed(q)'
    BY <1>2, <1>3, <2>1 DEF Aimed, Fits, Free
  <2>3. NamesAreKeys' /\ SecretsStayHome' /\ ConnectedIsSaved' /\ OneProbe'
    BY <1>3, <2>1 DEF Aligned, NamesAreKeys, SecretsStayHome, ConnectedIsSaved, OneProbe
  <2>4. WholeStep /\ disk' = list'
    BY <1>3, <2>1 DEF WholeStep, Aligned, HasSecret
  <2>. QED BY <2>1, <2>2, <2>3, <2>4 DEF Aligned
<1>. QED BY <1>4, <1>5 DEF Keeps

LEMMA KeepsOfConnecting ==
    ASSUME Inductively, (\E i \in DOMAIN list : Connect(i)) \/ SaveAndConnect
    PROVE  Keeps
<1>1. list \in Seq(Connection) /\ None # "reachable"
  BY ConnectionsAssumption DEF Inductively, Typed, TypeOK
<1>2. ASSUME NEW i \in DOMAIN list, Connect(i)
      PROVE  Keeps
  <2>1. PICK c, password : c = list[i] /\ password = PasswordFor(list[i].name)
    OBVIOUS
  <2>2. c \in Range(list) /\ Probing(c, password, None) /\ UNCHANGED <<store, connected, form, rotations>>
    BY <1>1, <1>2, <2>1, RowParts DEF Connect
  <2>. QED BY <1>1, <2>2, KeepsOfProbing
<1>3. CASE SaveAndConnect
  <2>1. PICK password : Probing(form.connection, password, form)
    BY <1>3 DEF SaveAndConnect
  <2>2. Ready /\ form # None /\ UNCHANGED <<store, connected, form, rotations>>
    BY <1>3 DEF SaveAndConnect, Ready
  <2>3. ~spoiled => Fits(form) /\ Free(form)
    BY <2>2, ReadyFits
  <2>4. PICK draft : draft = form
    OBVIOUS
  <2>. QED BY <1>1, <2>1, <2>2, <2>3, <2>4, KeepsOfProbing
<1>. QED BY <1>2, <1>3

LEMMA KeepsOfAnswer ==
    ASSUME Inductively, NEW p \in probes, NodesAnswer(p)
    PROVE  Keeps
<1>1. PICK given \in {"reachable", "unreachable"} :
        /\ given = "reachable" => p.password = Current(p.connection.server)
        /\ probes' = (probes \ {p}) \cup {[p EXCEPT !.answer = given]}
  BY DEF NodesAnswer
<1>2. PICK q : q = [p EXCEPT !.answer = given]
  OBVIOUS
<1>3. p \in Probe /\ p.connection \in Connection /\ p.connection.server \in Servers
  BY DEF Inductively, Typed, TypeOK, Probe, Connection
<1>4. /\ q.connection = p.connection /\ q.draft = p.draft /\ q.password = p.password /\ q.answer = given
  BY <1>2, <1>3 DEF Probe
<1>5. Current(p.connection.server) \in Secret /\ Current(p.connection.server).of = p.connection.server
  BY <1>3 DEF Current, Secret, Inductively, Typed, TypeOK
<1>6. q.answer = "reachable" => q.password # None /\ q.password.of = q.connection.server
  BY <1>1, <1>4, <1>5, ConnectionsAssumption
<1>7. /\ probes' = (probes \ {p}) \cup {q}
      /\ list' = list /\ disk' = disk /\ keychain' = keychain /\ connected' = connected /\ form' = form
      /\ connecting' = connecting /\ rotations' = rotations /\ spoiled' = spoiled
  BY <1>1, <1>2 DEF NodesAnswer, store
<1>8. Books'
  BY <1>4, <1>6, <1>7 DEF Inductively, Books, Fits
<1>9. ASSUME ~spoiled'
      PROVE  Aligned' /\ WholeStep
  <2>1. Aligned /\ Aimed(p) /\ probes' = {q}
    BY <1>7, <1>9 DEF Inductively, Aligned, OneProbe
  <2>2. Aimed(q)'
    BY <1>4, <1>7, <2>1 DEF Aimed, Fits, Free
  <2>3. NamesAreKeys' /\ SecretsStayHome' /\ ConnectedIsSaved' /\ OneProbe'
    BY <1>7, <2>1 DEF Aligned, NamesAreKeys, SecretsStayHome, ConnectedIsSaved, OneProbe
  <2>4. WholeStep /\ disk' = list'
    BY <1>7, <2>1 DEF WholeStep, Aligned, HasSecret
  <2>. QED BY <2>1, <2>2, <2>3, <2>4 DEF Aligned
<1>. QED BY <1>8, <1>9 DEF Keeps

\* The probe that lands was the only one.
LEMMA LandsAlone ==
    ASSUME Inductively, ~spoiled, NEW p \in probes, Lands(p)
    PROVE  probes' = {} /\ Aimed(p) /\ Aligned
BY DEF Inductively, Aligned, OneProbe, Lands

\* The application starts again: with the list it had, if nothing was spoiled.
LEMMA KeepsOfStarting ==
    ASSUME Inductively, StartsAgain
    PROVE  Keeps
<1>1. /\ list' = disk /\ disk' = disk /\ keychain' = keychain /\ connected' = None
      /\ form' = None /\ rotations' = {} /\ spoiled' = spoiled /\ probes' = {} /\ spoiled \in BOOLEAN
  BY DEF StartsAgain, Inductively, Typed, TypeOK
<1>2. CASE spoiled
  BY <1>1, <1>2 DEF Keeps, Books
<1>3. CASE ~spoiled
  <2>1. disk = list
    BY <1>3 DEF Inductively, Aligned
  <2>. QED BY <1>1, <2>1, CalmStep
<1>. QED BY <1>2, <1>3

LEMMA KeepsOfLanding ==
    ASSUME Inductively, NEW p \in probes, ProbeFails(p) \/ ProbeConnects(p) \/ ProbeAborts(p)
    PROVE  Keeps
<1>0. spoiled \in BOOLEAN
  BY DEF Inductively, Typed, TypeOK
<1>1. CASE ProbeFails(p)
  <2>1. ~spoiled => probes' = {}
    BY <1>1, LandsAlone DEF ProbeFails
  <2>2. /\ list' = list /\ disk' = disk /\ keychain' = keychain /\ connected' = connected
        /\ form' = form /\ rotations' = rotations /\ spoiled' = spoiled /\ probes' \subseteq probes
    BY <1>1 DEF ProbeFails, Lands, store
  <2>3. (form # None => Fits(form))'
    BY <2>2, FormStays DEF Inductively
  <2>. QED BY <1>0, <2>1, <2>2, <2>3, CalmStep DEF Inductively, Books
<1>2. CASE ProbeAborts(p)
  BY <1>2, KeepsOfStarting DEF ProbeAborts
<1>3. CASE ProbeConnects(p)
  <2>1. /\ list' = list /\ disk' = disk /\ keychain' = keychain /\ connected' = p.connection
        /\ form' = form /\ rotations' = rotations /\ spoiled' = spoiled /\ probes' \subseteq probes
        /\ p.draft = None
    BY <1>3 DEF ProbeConnects, SessionOf, Lands, store
  <2>2. Books'
    BY <2>1 DEF Inductively, Books, Fits
  <2>3. ASSUME ~spoiled'
        PROVE  Aligned' /\ WholeStep
    <3>1. probes' = {} /\ Aimed(p) /\ Aligned
      BY <1>3, <2>1, <2>3, LandsAlone DEF ProbeConnects
    <3>2. NamesAreKeys' /\ SecretsStayHome' /\ ConnectedIsSaved' /\ OneProbe'
      BY <2>1, <3>1 DEF Aligned, Aimed, NamesAreKeys, SecretsStayHome, ConnectedIsSaved, OneProbe
    <3>3. WholeStep /\ disk' = list'
      BY <2>1, <3>1 DEF WholeStep, HasSecret, Aligned
    <3>. QED BY <3>1, <3>2, <3>3 DEF Aligned
  <2>. QED BY <2>2, <2>3 DEF Keeps
<1>. QED BY <1>1, <1>2, <1>3

LEMMA KeepsOfProbeSaves ==
    ASSUME Inductively, NEW p \in probes, ProbeSaves(p)
    PROVE  Keeps
<1>1. PICK d : d = p.draft
  OBVIOUS
<1>2. /\ d \in Draft /\ d.editing \in 0..Len(list) /\ p.connection = d.connection
      /\ p.password # None /\ p.password.of = d.connection.server
      /\ list \in Seq(Connection) /\ keychain \in [Names -> Password]
  BY <1>1 DEF ProbeSaves, Inductively, Books, Typed, TypeOK, Probe
<1>3. /\ probes' \subseteq probes /\ rotations' = rotations /\ Lands(p) /\ p.draft # None
  BY DEF ProbeSaves, Lands
<1>4. \/ Persists(d) /\ connected' = d.connection /\ form' = None
      \/ \E previous : /\ previous = IF d.original = None THEN None
                                     ELSE IF d.password = None THEN p.password ELSE keychain[d.original]
                       /\ PersistFails(d, previous) /\ UNCHANGED <<connected, form>>
  BY <1>1, <1>2 DEF ProbeSaves, SessionOf
<1>5. Books'
  <2>2. (form # None => Fits(form))'
    <3>1. CASE form' = None
      BY <3>1
    <3>2. CASE UNCHANGED <<list, form>>
      BY <3>2 DEF Inductively, Books, Fits
    <3>. QED BY <1>4, <3>1, <3>2 DEF PersistFails
  <2>. QED BY <1>3, <2>2 DEF Inductively, Books
<1>6. ASSUME ~spoiled'
      PROVE  Aligned' /\ WholeStep
  <2>0. ~spoiled
    BY <1>4, <1>6, SpoiledStays DEF Inductively, Typed, TypeOK
  <2>1. probes' = {} /\ Aimed(p) /\ Aligned
    BY <1>3, <2>0, LandsAlone
  <2>2. Fits(d) /\ Free(d) /\ NamesAreKeys /\ SecretsStayHome /\ ConnectedIsSaved
    BY <1>1, <1>3, <2>1 DEF Aimed, Aligned
  <2>3. CASE Persists(d) /\ connected' = d.connection
    <3>1. /\ NamesAreKeys' /\ SecretsStayHome' /\ disk' = list' /\ Len(list') >= Len(list)
          /\ \A s \in Servers : HasSecret(s) => HasSecret(s)'
          /\ d.connection \in Range(list')
      BY <1>2, <2>2, <2>3, SavedKeeps
    <3>2. ConnectedIsSaved'
      BY <2>3, <3>1 DEF ConnectedIsSaved
    <3>. QED BY <2>1, <3>1, <3>2 DEF Aligned, OneProbe, WholeStep
  <2>4. ASSUME NEW previous,
               previous = IF d.original = None THEN None
                          ELSE IF d.password = None THEN p.password ELSE keychain[d.original],
               PersistFails(d, previous), UNCHANGED <<connected, form>>
        PROVE  Aligned' /\ WholeStep
    <3>1. previous # None => previous.of = d.connection.server
      BY <1>2, <2>2, <2>4, OriginalIsHome
    <3>2. d.original # None /\ keychain[d.original] # None => previous # None
      BY <1>2, <2>4
    <3>3. /\ list' = list /\ disk' \in {disk, list} /\ SecretsStayHome'
          /\ \A s \in Servers : HasSecret(s) => HasSecret(s)'
      BY <1>2, <1>6, <2>2, <2>4, <3>1, <3>2, FailedKeeps
    <3>4. NamesAreKeys' /\ ConnectedIsSaved' /\ disk' = list'
      BY <2>1, <2>2, <2>4, <3>3 DEF NamesAreKeys, ConnectedIsSaved, Aligned
    <3>. QED BY <2>1, <3>3, <3>4 DEF Aligned, OneProbe, WholeStep
  <2>. QED BY <1>4, <2>3, <2>4
<1>. QED BY <1>5, <1>6 DEF Keeps

LEMMA KeepsOfDuplicate ==
    ASSUME Inductively, NEW i \in DOMAIN list, Duplicate(i)
    PROVE  Keeps
<1>1. /\ list \in Seq(Connection) /\ Len(list) \in Nat /\ DOMAIN list = 1..Len(list)
      /\ list[i] \in Connection /\ keychain \in [Names -> Password]
      /\ \A j \in DOMAIN list : list[j].name \in Names
  BY RowParts DEF Inductively, Typed, TypeOK
<1>2. PICK name \in Names \ NamesOf(list) : list' = Append(list, [list[i] EXCEPT !.name = name])
  BY DEF Duplicate
<1>3. PICK c : c = [list[i] EXCEPT !.name = name]
  OBVIOUS
<1>4. c \in Connection /\ c.name = name
  BY <1>1, <1>3 DEF Connection
<1>5. PICK l : l = Append(list, c)
  OBVIOUS
<1>6. /\ list' = l /\ DOMAIN l = 1..(Len(list) + 1) /\ Len(l) = Len(list) + 1
      /\ l[Len(list) + 1] = c /\ \A j \in DOMAIN list : l[j] = list[j]
  BY <1>1, <1>2, <1>3, <1>4, <1>5, RowsAppended
<1>7. \A j \in DOMAIN list : list[j].name # c.name
  BY <1>2, <1>4 DEF NamesOf
<1>8. /\ disk' = list' /\ spoiled' = (spoiled \/ probes # {})
      /\ UNCHANGED <<keychain, connected, form, probes, rotations>>
  BY DEF Duplicate, tasks
<1>9. \A d : Fits(d) => Fits(d)'
  <2>1. SUFFICES ASSUME NEW d, Fits(d) PROVE Fits(d)'
    OBVIOUS
  <2>2. d.editing \in 0..Len(list') /\ (d.editing # 0 => d.editing \in DOMAIN list /\ list'[d.editing] = list[d.editing])
    BY <1>1, <1>6, <2>1 DEF Fits
  <2>. QED BY <2>1, <2>2 DEF Fits
<1>10. (form # None => Fits(form))'
  BY <1>8, <1>9 DEF Inductively, Books
<1>11. Books'
  BY <1>8, <1>10 DEF Inductively, Books
<1>12. ASSUME ~spoiled'
       PROVE  Aligned' /\ WholeStep
  <2>1. probes' = {} /\ Aligned
    BY <1>8, <1>12 DEF Inductively
  <2>2. NamesAreKeys'
    <3>1. ASSUME NEW j \in DOMAIN l, NEW k \in DOMAIN l, l[j].name = l[k].name
          PROVE  j = k
      <4>1. j \in DOMAIN list \/ j = Len(list) + 1
        BY <1>1, <1>6
      <4>2. k \in DOMAIN list \/ k = Len(list) + 1
        BY <1>1, <1>6
      <4>. QED BY <1>6, <1>7, <2>1, <3>1, <4>1, <4>2 DEF Aligned, NamesAreKeys
    <3>. QED BY <1>6, <3>1 DEF NamesAreKeys
  <2>3. \A j \in DOMAIN list : j \in DOMAIN l
    BY <1>1, <1>6
  <2>4. SecretsStayHome'
    <3>1. ASSUME NEW n \in Names, keychain[n] # None
          PROVE  \E j \in DOMAIN l : l[j].name = n /\ l[j].server = keychain[n].of
      BY <1>6, <2>1, <2>3, <3>1 DEF Aligned, SecretsStayHome
    <3>. QED BY <1>6, <1>8, <3>1 DEF SecretsStayHome
  <2>5. ConnectedIsSaved'
    <3>1. Range(list) \subseteq Range(l)
      BY <1>6, <2>3 DEF Range
    <3>. QED BY <1>6, <1>8, <2>1, <3>1 DEF Aligned, ConnectedIsSaved
  <2>6. ASSUME NEW s \in Servers, HasSecret(s) PROVE HasSecret(s)'
    <3>1. \E j \in DOMAIN l : l[j].server = s /\ keychain[l[j].name] # None
      BY <1>6, <2>3, <2>6 DEF HasSecret
    <3>. QED BY <1>6, <1>8, <3>1 DEF HasSecret
  <2>. QED BY <1>8, <2>1, <2>2, <2>4, <2>5, <2>6 DEF Aligned, OneProbe, WholeStep
<1>. QED BY <1>11, <1>12 DEF Keeps

LEMMA KeepsOfDelete ==
    ASSUME Inductively, NEW i \in DOMAIN list, Delete(i)
    PROVE  Keeps
<1>1. /\ list \in Seq(Connection) /\ Len(list) \in Nat /\ keychain \in [Names -> Password]
      /\ \A j \in DOMAIN list : list[j].name \in Names
      /\ spoiled \in BOOLEAN
  BY RowParts DEF Inductively, Typed, TypeOK
<1>2. connecting' = connecting /\ UNCHANGED <<probes, rotations>>
  BY DEF Delete, tasks
<1>3. CASE UNCHANGED <<list, disk, keychain, connected, form>> /\ spoiled' = (spoiled \/ probes # {})
  <2>1. (form # None => Fits(form))'
    BY <1>3, FormStays DEF Inductively
  <2>. QED BY <1>1, <1>2, <1>3, <2>1, CalmStep DEF Inductively, Books
<1>4. ASSUME NEW name, name = list[i].name, list' = RemoveAt(list, i), disk' = list',
             keychain' = [keychain EXCEPT ![name] = None],
             connected' = IF connected # None /\ connected.name = name THEN None ELSE connected,
             form' = None, spoiled' = (spoiled \/ probes # {})
      PROVE  Keeps
  <2>1. Books'
    BY <1>2, <1>4 DEF Inductively, Books
  <2>2. PICK l : l = RemoveAt(list, i)
    OBVIOUS
  <2>3. /\ Len(l) = Len(list) - 1
        /\ \A k \in DOMAIN l : \E j \in DOMAIN list : /\ j # i /\ l[k] = list[j]
                                                       /\ j = IF k < i THEN k ELSE k + 1
        /\ \A j \in DOMAIN list : j # i => \E k \in DOMAIN l : l[k] = list[j]
    BY <1>1, <2>2, RowRemoved
  <2>4. l \in Seq(Connection) /\ \A k \in DOMAIN l : k \in Nat
    <3>1. l \in Seq(Connection)
      BY <1>1, <2>2, RowRemoved
    <3>2. Len(l) \in Nat /\ DOMAIN l = 1..Len(l)
      BY <3>1
    <3>. QED BY <3>1, <3>2
  <2>5. ASSUME ~spoiled'
        PROVE  Aligned' /\ WholeStep
    <3>0. ~spoiled /\ probes = {} /\ probes' = probes
      BY <1>1, <1>2, <1>4, <2>5
    <3>1. probes' = {} /\ Aligned
      BY <3>0 DEF Inductively
    <3>2. NamesAreKeys /\ SecretsStayHome /\ ConnectedIsSaved
      BY <3>1 DEF Aligned
    <3>3. NamesAreKeys'
      <4>1. ASSUME NEW k \in DOMAIN l, NEW m \in DOMAIN l, l[k].name = l[m].name
            PROVE  k = m
        <5>1. PICK j \in DOMAIN list : l[k] = list[j] /\ j = IF k < i THEN k ELSE k + 1
          BY <2>3
        <5>2. PICK h \in DOMAIN list : l[m] = list[h] /\ h = IF m < i THEN m ELSE m + 1
          BY <2>3
        <5>3. j = h
          BY <3>2, <4>1, <5>1, <5>2 DEF NamesAreKeys
        <5>4. i \in Nat /\ k \in Nat /\ m \in Nat
          BY <1>1, <2>4
        <5>. QED BY <5>1, <5>2, <5>3, <5>4
      <4>. QED BY <1>4, <2>2, <4>1 DEF NamesAreKeys
    <3>4. PICK k : k = keychain'
      OBVIOUS
    <3>5. k[name] = None /\ \A n \in Names : n # name => k[n] = keychain[n]
      BY <1>1, <1>4, <3>4
    <3>6. SecretsStayHome'
      <4>1. ASSUME NEW n \in Names, k[n] # None
            PROVE  \E m \in DOMAIN l : l[m].name = n /\ l[m].server = k[n].of
        <5>1. n # name /\ k[n] = keychain[n]
          BY <3>5, <4>1
        <5>2. PICK j \in DOMAIN list : list[j].name = n /\ list[j].server = keychain[n].of
          BY <3>2, <4>1, <5>1 DEF SecretsStayHome
        <5>3. j # i
          BY <1>4, <5>1, <5>2
        <5>. QED BY <2>3, <5>1, <5>2, <5>3
      <4>. QED BY <1>4, <2>2, <3>4, <4>1 DEF SecretsStayHome
    <3>7. ConnectedIsSaved'
      <4>1. CASE connected' = None
        BY <4>1 DEF ConnectedIsSaved
      <4>2. CASE connected' # None
        <5>1. connected' = connected /\ connected # None /\ connected.name # name
          BY <1>4, <4>2
        <5>2. PICK j \in DOMAIN list : connected = list[j]
          BY <3>2, <5>1 DEF ConnectedIsSaved, Range
        <5>3. j # i
          BY <1>4, <5>1, <5>2
        <5>4. connected \in Range(l)
          BY <2>3, <5>2, <5>3 DEF Range
        <5>. QED BY <1>4, <2>2, <5>1, <5>4 DEF ConnectedIsSaved
      <4>. QED BY <4>1, <4>2
    <3>8. WholeStep
      <4>1. ~(Len(list') >= Len(list))
        BY <1>1, <1>4, <2>2, <2>3
      <4>. QED BY <1>4, <4>1 DEF WholeStep
    <3>. QED BY <1>4, <3>1, <3>3, <3>6, <3>7, <3>8 DEF Aligned, OneProbe
  <2>. QED BY <2>1, <2>5 DEF Keeps
<1>5. CASE UNCHANGED <<list, disk, connected, form>> /\ spoiled' = TRUE
  <2>1. (form # None => Fits(form))'
    BY <1>5, FormStays DEF Inductively
  <2>. QED BY <1>2, <1>5, <2>1 DEF Keeps, Inductively, Books
<1>. QED BY <1>3, <1>4, <1>5 DEF Delete

LEMMA KeepsOfRotations ==
    ASSUME Inductively, ConfirmRotation \/ Disconnect \/ Restart \/ (\E r \in rotations : Rotates(r))
    PROVE  Keeps
<1>0. CASE Restart
  BY <1>0, KeepsOfStarting DEF Restart
<1>. SUFFICES ASSUME ConfirmRotation \/ Disconnect \/ (\E r \in rotations : Rotates(r)) PROVE Keeps
  BY <1>0
<1>1. /\ UNCHANGED <<list, disk, keychain, connecting, probes, spoiled>> /\ connected' \in {connected, None}
      /\ spoiled \in BOOLEAN
  BY DEF ConfirmRotation, Disconnect, Rotates, store, tasks, Inductively, Typed, TypeOK
<1>2. CASE ConfirmRotation
  <2>1. form \in Draft /\ Fits(form) /\ form' = [form EXCEPT !.working = TRUE]
    BY <1>2 DEF ConfirmRotation, Inductively, Books, Typed, TypeOK
  <2>2. /\ form'.editing = form.editing /\ form'.original = form.original
        /\ form'.connection = form.connection /\ form'.password = form.password
    BY <2>1 DEF Draft
  <2>3. Fits(form)'
    BY <1>1, <2>1, <2>2 DEF Fits
  <2>4. \A r \in rotations' : r.answer # None => r.answer.of = r.server
    BY <1>2 DEF ConfirmRotation, Inductively, Books
  <2>. QED BY <1>1, <2>3, <2>4, CalmStep
<1>3. CASE Disconnect
  <2>1. rotations' = rotations /\ form' = form
    BY <1>3 DEF Disconnect, tasks
  <2>2. (form # None => Fits(form))'
    BY <1>1, <2>1, FormStays DEF Inductively
  <2>. QED BY <1>1, <2>1, <2>2, CalmStep DEF Inductively, Books
<1>4. ASSUME NEW r \in rotations, Rotates(r)
      PROVE  Keeps
  <2>1. PICK given \in {None, [of |-> r.server, n |-> actual[r.server] + 1]} :
          rotations' = (rotations \ {r}) \cup {[r EXCEPT !.asked = TRUE, !.answer = given]}
    BY <1>4 DEF Rotates
  <2>2. PICK q : q = [r EXCEPT !.asked = TRUE, !.answer = given]
    OBVIOUS
  <2>3. r \in Rotation
    BY DEF Inductively, Typed, TypeOK
  <2>4. q.answer = given /\ q.server = r.server
    BY <2>2, <2>3 DEF Rotation
  <2>5. given # None => given.of = r.server
    BY <2>1
  <2>6. \A x \in rotations' : x.answer # None => x.answer.of = x.server
    BY <2>1, <2>2, <2>4, <2>5 DEF Inductively, Books
  <2>7. (form # None => Fits(form))'
    BY <1>1, <1>4, FormStays DEF Rotates, Inductively
  <2>. QED BY <1>1, <2>6, <2>7, CalmStep
<1>. QED BY <1>2, <1>3, <1>4

LEMMA KeepsOfRotationLands ==
    ASSUME Inductively, NEW r \in rotations, RotationLands(r)
    PROVE  Keeps
<1>1. /\ UNCHANGED <<list, disk, cache, actual, connected, connecting, probes, explains, wakes, spoiled>>
      /\ rotations' \subseteq rotations /\ spoiled \in BOOLEAN
      /\ \A x \in rotations' : x.answer # None => x.answer.of = x.server
      /\ r.answer # None => r.answer.of = r.server
      /\ list \in Seq(Connection) /\ keychain \in [Names -> Password]
  BY DEF RotationLands, Inductively, Books, Typed, TypeOK
<1>2. (form # None => Fits(form))'
  <2>1. CASE form' = form
    BY <1>1, <2>1, FormStays DEF Inductively
  <2>2. CASE SameForm(r)
    <3>1. form \in Draft /\ Fits(form) /\ form.connection.server = r.server
      BY <2>2 DEF SameForm, Inductively, Books, Typed, TypeOK
    <3>2. PICK password : password = IF r.answer = None THEN form.password ELSE r.answer
      OBVIOUS
    <3>3. form' = [form EXCEPT !.working = FALSE, !.password = password]
      BY <2>2, <3>1, <3>2 DEF RotationLands
    <3>4. /\ form'.editing = form.editing /\ form'.original = form.original
          /\ form'.connection = form.connection /\ form'.password = password
      BY <3>1, <3>3 DEF Draft
    <3>5. password # None => password.of = form.connection.server
      BY <1>1, <3>1, <3>2 DEF Fits
    <3>. QED BY <1>1, <3>1, <3>4, <3>5 DEF Fits
  <2>. QED BY <2>1, <2>2 DEF RotationLands
<1>3. CASE keychain' = keychain
  BY <1>1, <1>2, <1>3, CalmStep
<1>4. ASSUME r.answer # None, form' = form,
             NEW S, S = {i \in DOMAIN list : list[i].server = r.server}, S # {},
             keychain' = [keychain EXCEPT ![list[Min(S)].name] = r.answer]
      PROVE  Keeps
  <2>1. Books'
    BY <1>1, <1>2 DEF Inductively, Books
  <2>2. ASSUME ~spoiled'
        PROVE  Aligned' /\ WholeStep
    <3>1. Aligned /\ NamesAreKeys /\ SecretsStayHome
      BY <1>1, <2>2 DEF Inductively, Aligned
    <3>2. PICK i \in DOMAIN list : i = Min(S) /\ list[i].server = r.server
      BY <1>1, <1>4, FirstOwner
    <3>3. SecretsStayHome' /\ \A s \in Servers : HasSecret(s) => HasSecret(s)'
      BY <1>1, <1>4, <3>1, <3>2, PutHome
    <3>4. NamesAreKeys' /\ ConnectedIsSaved' /\ OneProbe' /\ \A p \in probes' : Aimed(p)'
      BY <1>1, <3>1 DEF Aligned, NamesAreKeys, ConnectedIsSaved, OneProbe, Aimed, Fits, Free
    <3>5. disk' = list'
      BY <1>1, <3>1 DEF Aligned
    <3>. QED BY <3>3, <3>4, <3>5 DEF Aligned, WholeStep
  <2>. QED BY <2>1, <2>2 DEF Keeps
<1>. QED BY <1>3, <1>4 DEF RotationLands

LEMMA KeepsOfExplains ==
    ASSUME Inductively, NEW e \in explains, NotAsleep(e) \/ WakeBegins(e)
    PROVE  Keeps
<1>1. /\ UNCHANGED <<list, disk, keychain, connected, form, rotations, probes>>
      /\ spoiled \in BOOLEAN /\ spoiled' \in BOOLEAN /\ (spoiled => spoiled')
      /\ spoiled' \/ probes' = {} \/ connecting' = connecting
  BY DEF NotAsleep, WakeBegins, store, Inductively, Typed, TypeOK
<1>2. (form # None => Fits(form))'
  BY <1>1, FormStays DEF Inductively
<1>. QED BY <1>1, <1>2, CalmStep DEF Inductively, Books

LEMMA KeepsOfWakes ==
    ASSUME Inductively, NEW w \in wakes,
           WakeAccepted(w) \/ WakeRefused(w) \/ WakeTick(w) \/ StillAsleep(w) \/ Awake(w)
    PROVE  Keeps
<1>1. /\ UNCHANGED <<list, disk, keychain, connected, form, rotations>> /\ spoiled \in BOOLEAN
  BY DEF WakeAccepted, WakeRefused, WakeTick, StillAsleep, Awake, store, Inductively, Typed, TypeOK
<1>2. (form # None => Fits(form))'
  BY <1>1, FormStays DEF Inductively
<1>3. CASE /\ probes' = probes /\ spoiled' \in BOOLEAN /\ (spoiled => spoiled')
           /\ spoiled' \/ probes' = {} \/ connecting' = connecting
  BY <1>1, <1>2, <1>3, CalmStep DEF Inductively, Books
<1>4. CASE WakeAccepted(w) \/ WakeRefused(w) \/ WakeTick(w) \/ StillAsleep(w)
  <2>1. /\ probes' = probes /\ spoiled' \in BOOLEAN /\ (spoiled => spoiled')
        /\ spoiled' \/ probes' = {} \/ connecting' = connecting
    BY <1>1, <1>4 DEF WakeAccepted, WakeRefused, WakeTick, StillAsleep, Released
  <2>. QED BY <1>3, <2>1
<1>5. CASE Awake(w)
  <2>1. ASSUME NEW i \in DOMAIN list, Probing(list[i], PasswordFor(w.name), None)
        PROVE  Keeps
    <3>1. PICK c, password : c = list[i] /\ password = PasswordFor(w.name)
      OBVIOUS
    <3>2. c \in Range(list) /\ Probing(c, password, None) /\ UNCHANGED <<store, connected, form, rotations>>
      BY <1>5, <2>1, <3>1 DEF Awake, Range
    <3>. QED BY <3>2, KeepsOfProbing, ConnectionsAssumption
  <2>2. CASE UNCHANGED probes /\ spoiled' = (spoiled \/ probes # {})
    BY <1>1, <1>3, <2>2
  <2>. QED BY <1>5, <2>1, <2>2 DEF Awake
<1>. QED BY <1>4, <1>5

LEMMA InductivelyInit == Init => Inductively
<1>. SUFFICES ASSUME Init PROVE Inductively
  OBVIOUS
<1>1. Typed
  BY TypedInit
<1>2. Books
  BY DEF Init, Books
<1>3. NamesAreKeys
  BY ConnectionsAssumption DEF Init, NamesAreKeys
<1>4. SecretsStayHome
  <2>1. SUFFICES ASSUME NEW n \in Names, keychain[n] # None
                 PROVE  \E i \in DOMAIN list : list[i].name = n /\ list[i].server = keychain[n].of
    BY DEF SecretsStayHome
  <2>2. PICK c : c = CHOOSE x \in Range(Initial) : x.name = n
    OBVIOUS
  <2>3. (\E i \in DOMAIN Initial : Initial[i].name = n) /\ keychain[n] = [of |-> c.server, n |-> 0]
    BY <2>1, <2>2 DEF Init
  <2>4. \E x \in Range(Initial) : x.name = n
    BY <2>3 DEF Range
  <2>5. c \in Range(Initial) /\ c.name = n
    BY <2>2, <2>4
  <2>6. PICK i \in DOMAIN Initial : c = Initial[i]
    BY <2>5 DEF Range
  <2>. QED BY <2>3, <2>5, <2>6 DEF Init
<1>5. ConnectedIsSaved /\ OneProbe /\ probes = {} /\ disk = list
  BY DEF Init, ConnectedIsSaved, OneProbe
<1>. QED BY <1>1, <1>2, <1>3, <1>4, <1>5 DEF Inductively, Aligned

LEMMA KeepsAlways == Inductively /\ [Next]_vars => Keeps
<1>. SUFFICES ASSUME Inductively, [Next]_vars PROVE Keeps
  OBVIOUS
<1>1. CASE UNCHANGED vars
  <2>1. /\ UNCHANGED <<list, disk, keychain, connected, form, probes, connecting, rotations, spoiled>>
        /\ spoiled \in BOOLEAN
    BY <1>1 DEF vars, Inductively, Typed, TypeOK
  <2>2. (form # None => Fits(form))'
    BY <2>1, FormStays DEF Inductively
  <2>. QED BY <2>1, <2>2, CalmStep DEF Inductively, Books
<1>2. CASE ByUser
  BY <1>2, KeepsOfForms, KeepsOfSaveForm, KeepsOfConnecting, KeepsOfDuplicate, KeepsOfDelete,
     KeepsOfRotations DEF ByUser
<1>3. CASE Work
  BY <1>3, KeepsOfAnswer, KeepsOfLanding, KeepsOfProbeSaves, KeepsOfExplains, KeepsOfWakes,
     KeepsOfRotations, KeepsOfRotationLands DEF Work
<1>. QED BY <1>1, <1>2, <1>3 DEF Next

LEMMA InductivelyStep == Inductively /\ [Next]_vars => Inductively'
BY TypedStep, KeepsAlways DEF Inductively, Keeps

LEMMA AlwaysInductively == Spec => []Inductively
BY InductivelyInit, InductivelyStep, PTL DEF Spec

\* Session, list and Keychain agree whatever forms, tests, saves that fail,
\* deletions, rotations, waits and restarts come together, as long as nothing gets
\* under the probe in flight and no step back of a failed save or deletion fails
\* in turn (persistence.rs:32-96, cloud.rs:993-1070).
THEOREM NothingIsLeftBehindHolds == Spec => []NothingIsLeftBehind
<1>1. Inductively => NothingIsLeftBehind
  BY DEF Inductively, Aligned, NothingIsLeftBehind
<1>. QED BY <1>1, AlwaysInductively, PTL

\* With the same exceptions: a save or a deletion that fails at any point leaves
\* file and list alike, so that a restart shows the same list; and it leaves every
\* server the password it had, as do a save that succeeds, a rename, a rotation, a
\* copy and a restart (persistence.rs:57-77).
THEOREM SavesAreWholeHolds == Spec => SavesAreWhole
<1>1. Inductively /\ [Next]_vars =>
        [~spoiled' => /\ disk' = list'
                      /\ Len(list') >= Len(list)
                           => \A s \in Servers : HasSecret(s) => HasSecret(s)']_vars
  BY KeepsAlways DEF Keeps, WholeStep
<1>. QED BY <1>1, AlwaysInductively, PTL DEF Spec, SavesAreWhole


-----------------------------------------------------------------------------
(* The agent's connection. *)

----------------------------------------------------------------------------
(* How many updates a sequence of frames holds.                             *)

Updates(s) == {k \in 1..Len(s) : s[k].kind = "update"}
One(frame) == IF frame.kind = "update" THEN 1 ELSE 0

LEMMA UpdatesCounted ==
    ASSUME NEW s \in Seq(FromAgent)
    PROVE  IsFiniteSet(Updates(s)) /\ Cardinality(Updates(s)) \in Nat
<1>1. IsFiniteSet(1..Len(s))
  BY FS_Interval
<1>2. Updates(s) \in SUBSET (1..Len(s))
  BY DEF Updates
<1>. QED BY <1>1, <1>2, FS_Subset, FS_CardinalityType

LEMMA AppendCounts ==
    ASSUME NEW s \in Seq(FromAgent), NEW frame \in FromAgent
    PROVE  Cardinality(Updates(Append(s, frame))) = Cardinality(Updates(s)) + One(frame)
<1>. DEFINE t == Append(s, frame)
<1>1. /\ Len(s) \in Nat /\ Len(t) = Len(s) + 1 /\ t[Len(s) + 1] = frame
      /\ \A k \in 1..Len(s) : t[k] = s[k]
  OBVIOUS
<1>. HIDE DEF t
<1>2. 1..Len(t) = (1..Len(s)) \cup {Len(s) + 1}
  BY <1>1
<1>3. Updates(t) = IF frame.kind = "update" THEN Updates(s) \cup {Len(s) + 1} ELSE Updates(s)
  BY <1>1, <1>2 DEF Updates
<1>4. Len(s) + 1 \notin Updates(s)
  BY <1>1 DEF Updates
<1>5. Cardinality(Updates(s) \cup {Len(s) + 1}) = Cardinality(Updates(s)) + 1
  BY <1>4, UpdatesCounted, FS_AddElement
<1>6. Cardinality(Updates(t)) = Cardinality(Updates(s)) + One(frame)
  BY <1>3, <1>5, UpdatesCounted DEF One
<1>. QED BY <1>6 DEF t

LEMMA TailCounts ==
    ASSUME NEW s \in Seq(FromAgent), s # <<>>
    PROVE  Cardinality(Updates(s)) = Cardinality(Updates(Tail(s))) + One(Head(s))
<1>. DEFINE t == Tail(s)
<1>1. /\ Len(s) \in Nat \ {0} /\ Len(t) = Len(s) - 1 /\ Head(s) = s[1] /\ t \in Seq(FromAgent)
      /\ \A k \in 1..Len(t) : t[k] = s[k + 1]
  OBVIOUS
<1>. HIDE DEF t
<1>. DEFINE later == Updates(s) \ {1}
            shift == [k \in Updates(t) |-> k + 1]
<1>2. shift \in [Updates(t) -> later]
  <2>1. ASSUME NEW k \in Updates(t) PROVE k + 1 \in later
    BY <1>1, <2>1 DEF Updates
  <2>. QED BY <2>1
<1>3. \A j, k \in Updates(t) : shift[j] = shift[k] => j = k
  BY <1>1 DEF Updates
<1>4. \A m \in later : m - 1 \in Updates(t) /\ shift[m - 1] = m
  BY <1>1 DEF Updates
<1>. HIDE DEF shift, later
<1>5. shift \in Bijection(Updates(t), later)
  BY <1>2, <1>3, <1>4 DEF Bijection, Injection, Surjection, IsInjective
<1>6. Cardinality(later) = Cardinality(Updates(t))
  BY <1>1, <1>5, UpdatesCounted, FS_Bijection DEF ExistsBijection
<1>7. Cardinality(later) = IF 1 \in Updates(s) THEN Cardinality(Updates(s)) - 1
                                               ELSE Cardinality(Updates(s))
  BY UpdatesCounted, FS_RemoveElement DEF later
<1>8. 1 \in Updates(s) <=> Head(s).kind = "update"
  BY <1>1 DEF Updates
<1>9. Cardinality(Updates(s)) = Cardinality(Updates(t)) + One(Head(s))
  BY <1>1, <1>6, <1>7, <1>8, UpdatesCounted DEF One
<1>. QED BY <1>9 DEF t

----------------------------------------------------------------------------
(* The inductive invariant.                                                 *)

\* A request is in the pending map just while it is in flight without an
\* outcome, and after the reader has drained the map none can enter the way
\* that leads to waiting.
CallKept(i) ==
    /\ i \in pending <=> request[i] \in InFlight /\ answer[i] = "none"
    /\ request[i] = "new" => answer[i] = "none"
    /\ reader.at \in {"announcing", "stopped"} /\ request[i] \in {"sending", "waiting"}
         => answer[i] # "none"

CallsKept ==
    /\ reader.at \in {"draining", "announcing", "stopped"} => closed
    /\ \A i \in Requests : CallKept(i)

\* What the reader holds while it waits for a queue
HandKept ==
    /\ reader.at = "offering" => reader.frame.kind \in {"update", "ask", "oversized"}
    /\ reader.at = "refusing" => reader.frame.kind = "call"

\* Updates written are in the pipe, in the reader's hand or in the event
\* queue; those the reader finds nobody to give to are lost.
InHand == IF reader.at = "offering" THEN One(reader.frame) ELSE 0
Behind == Cardinality(Updates(stdout)) + InHand
UpdatesKept ==
    /\ unposted >= Behind
    /\ listening => unposted = Behind

AcpInductive == AcpTypeOK /\ CallsKept /\ HandKept /\ UpdatesKept

LEMMA NothingQueued ==
    ASSUME NEW S, NEW n \in Nat
    PROVE  <<>> \in Seq(S) /\ Len(<<>>) <= n
OBVIOUS

LEMMA Initially == AcpInit => AcpInductive
<1>. SUFFICES ASSUME AcpInit PROVE AcpInductive
  OBVIOUS
<1>1. AcpTypeOK
  <2>1. /\ outgoing \in Seq(ToAgent) /\ Len(outgoing) <= OutgoingCapacity
        /\ stdin \in Seq(ToAgent) /\ stdout \in Seq(FromAgent)
        /\ events \in Seq(Event) /\ Len(events) <= EventCapacity
    BY NothingQueued, BoundAssumption DEF AcpInit
  <2>. QED BY <2>1 DEF AcpInit, AcpTypeOK
<1>2. CallsKept
  BY DEF AcpInit, CallsKept, CallKept, InFlight
<1>3. HandKept
  BY DEF AcpInit, HandKept
<1>4. UpdatesKept
  <2>1. Updates(stdout) = {}
    BY DEF AcpInit, Updates
  <2>. QED BY <2>1, FS_EmptySet DEF AcpInit, UpdatesKept, Behind, InHand
<1>. QED BY <1>1, <1>2, <1>3, <1>4 DEF AcpInductive

----------------------------------------------------------------------------
(* Types.                                                                   *)

States == {"new"} \cup InFlight \cup Outcomes

\* A frame that enters the queue to the agent finds room there.
LEMMA EnqueueTyped ==
    ASSUME AcpTypeOK, OutgoingOpen, NEW frame \in ToAgent, Enqueue(frame)
    PROVE  /\ outgoing' \in Seq(ToAgent) /\ Len(outgoing') <= OutgoingCapacity
           /\ writing' \in BOOLEAN /\ stdin' \in Seq(ToAgent)
BY BoundAssumption DEF AcpTypeOK, OutgoingOpen, Enqueue

\* So does an event.
LEMMA PostTyped ==
    ASSUME AcpTypeOK, EventsOpen, NEW event \in Event, Post(event)
    PROVE  events' \in Seq(Event) /\ Len(events') <= EventCapacity
BY BoundAssumption DEF AcpTypeOK, EventsOpen, Post

LEMMA RequestTyped ==
    ASSUME AcpTypeOK, NEW i \in Requests, NEW outcome \in Outcomes
    PROVE  /\ [request EXCEPT ![i] = outcome] \in [Requests -> States]
           /\ \A s \in InFlight : [request EXCEPT ![i] = s] \in [Requests -> States]
BY DEF AcpTypeOK, States

\* What the steps of a request do to its types
LEMMA CallTyped ==
    ASSUME AcpTypeOK, NEW i \in Requests, Register(i) \/ Call(i) \/ TimeOut(i)
    PROVE  AcpTypeOK'
<1>1. CASE Register(i)
  <2>1. request' \in [Requests -> States]
    BY <1>1, RequestTyped DEF Register, End, Outcomes, InFlight
  <2>2. pending' \subseteq Requests
    BY <1>1 DEF Register, AcpTypeOK
  <2>. QED BY <1>1, <2>1, <2>2 DEF Register, AcpTypeOK, channel, world, States
<1>2. CASE CheckClosed(i)
  <2>1. request' \in [Requests -> States]
    BY <1>2, RequestTyped DEF CheckClosed, End, Outcomes, InFlight
  <2>2. pending' \subseteq Requests
    BY <1>2 DEF CheckClosed, Forget, AcpTypeOK
  <2>. QED BY <1>2, <2>1, <2>2 DEF CheckClosed, AcpTypeOK, channel, world, States
<1>3. CASE SendRequest(i)
  <2>1. request' \in [Requests -> States]
    BY <1>3, RequestTyped DEF SendRequest, End, Outcomes, InFlight
  <2>2. pending' \subseteq Requests
    BY <1>3 DEF SendRequest, Forget, AcpTypeOK
  <2>3. Frame("request", i) \in ToAgent
    BY DEF Frame, ToAgent
  <2>4. /\ outgoing' \in Seq(ToAgent) /\ Len(outgoing') <= OutgoingCapacity
        /\ writing' \in BOOLEAN /\ stdin' \in Seq(ToAgent)
    BY <1>3, <2>3, EnqueueTyped DEF SendRequest, AcpTypeOK, channel
  <2>. QED BY <1>3, <2>1, <2>2, <2>4 DEF SendRequest, AcpTypeOK, world, States
<1>4. CASE Receive(i)
  <2>1. request' \in [Requests -> States]
    BY <1>4, RequestTyped DEF Receive, End, AcpTypeOK
  <2>. QED BY <1>4, <2>1 DEF Receive, AcpTypeOK, channel, world, States
<1>5. CASE TimeOut(i)
  <2>1. request' \in [Requests -> States]
    BY <1>5, RequestTyped DEF TimeOut, End, Outcomes
  <2>2. pending' \subseteq Requests
    BY <1>5 DEF TimeOut, Forget, AcpTypeOK
  <2>. QED BY <1>5, <2>1, <2>2 DEF TimeOut, AcpTypeOK, channel, world, States
<1>. QED BY <1>1, <1>2, <1>3, <1>4, <1>5 DEF Call

\* ... the pumps that write ...
LEMMA WriterTyped ==
    ASSUME AcpTypeOK, Cancel \/ Write \/ Stderr
    PROVE  AcpTypeOK'
<1>1. CASE Cancel
  <2>1. Frame("cancel", "none") \in ToAgent
    BY DEF ToAgent
  <2>2. /\ outgoing' \in Seq(ToAgent) /\ Len(outgoing') <= OutgoingCapacity
        /\ writing' \in BOOLEAN /\ stdin' \in Seq(ToAgent)
    BY <1>1, <2>1, EnqueueTyped DEF Cancel, AcpTypeOK, channel
  <2>. QED BY <1>1, <2>2 DEF Cancel, AcpTypeOK, world
<1>2. CASE Write
  <2>1. Head(outgoing) \in ToAgent /\ Tail(outgoing) \in Seq(ToAgent)
        /\ Len(Tail(outgoing)) <= OutgoingCapacity
    BY <1>2, BoundAssumption DEF Write, AcpTypeOK
  <2>2. /\ outgoing' \in Seq(ToAgent) /\ Len(outgoing') <= OutgoingCapacity
        /\ writing' \in BOOLEAN /\ stdin' \in Seq(ToAgent)
    <3>1. CASE agent = "running"
      <4>1. /\ stdin' = Append(stdin, Head(outgoing)) /\ outgoing' = Tail(outgoing)
            /\ writing' = writing
        BY <1>2, <3>1 DEF Write
      <4>2. stdin' \in Seq(ToAgent) /\ writing' \in BOOLEAN
        BY <2>1, <4>1 DEF AcpTypeOK
      <4>. QED BY <2>1, <4>1, <4>2
    <3>2. CASE agent = "ended"
      BY <1>2, <3>2, NothingQueued, BoundAssumption DEF Write, AcpTypeOK
    <3>. QED BY <1>2, <3>1, <3>2 DEF Write
  <2>. QED BY <1>2, <2>2 DEF Write, AcpTypeOK, world
<1>3. CASE Stderr
  <2>1. Frame("stderr", "none") \in Event
    BY DEF Event
  <2>2. events' \in Seq(Event) /\ Len(events') <= EventCapacity
    BY <1>3, <2>1, PostTyped DEF Stderr
  <2>. QED BY <1>3, <2>2 DEF Stderr, AcpTypeOK, channel
<1>. QED BY <1>1, <1>2, <1>3

\* ... the reader ...
LEMMA FramesTyped ==
    ASSUME AcpTypeOK, stdout # <<>>
    PROVE  Head(stdout) \in FromAgent /\ Tail(stdout) \in Seq(FromAgent)
BY DEF AcpTypeOK

LEMMA FrameIds ==
    ASSUME NEW frame \in FromAgent
    PROVE  /\ frame.kind = "reply" => frame.id \in Requests
           /\ frame.kind = "ask" => frame \in [kind : {"ask"}, id : Asks]
           /\ frame.kind = "call" => frame \in [kind : {"call"}, id : Calls]
           /\ frame.kind = "update" => frame = Frame("update", "none")
BY DEF FromAgent, Frame

LEMMA ReaderTyped ==
    ASSUME AcpInductive, Reader
    PROVE  AcpTypeOK'
<1>. USE DEF AcpInductive
<1>1. CASE ReadReply
  <2>1. Head(stdout).id \in Requests /\ stdout' \in Seq(FromAgent)
    BY <1>1, FramesTyped, FrameIds DEF ReadReply, Reading
  <2>2. pending' \subseteq Requests /\ answer' \in [Requests -> {"none"} \cup Outcomes]
    BY <1>1, <2>1 DEF ReadReply, Route, Forget, AcpTypeOK, Outcomes
  <2>. QED BY <1>1, <2>1, <2>2 DEF ReadReply, AcpTypeOK, channel, world
<1>2. CASE ReadEvent
  <2>1. Head(stdout) \in FromAgent /\ stdout' \in Seq(FromAgent)
    BY <1>2, FramesTyped DEF ReadEvent, Reading
  <2>2. Head(stdout).kind = "ask" => Head(stdout).id \in Asks
    BY <2>1, FrameIds
  <2>3. ask' \in [Asks -> {"none", "queued", "held", "decided", "answered"}]
    BY <1>2, <2>2 DEF ReadEvent, AcpTypeOK
  <2>. QED BY <1>2, <2>1, <2>3 DEF ReadEvent, Hold, AcpTypeOK, channel, world
<1>3. CASE ReadCall
  <2>1. Head(stdout) \in FromAgent /\ stdout' \in Seq(FromAgent)
    BY <1>3, FramesTyped DEF ReadCall, Reading
  <2>. QED BY <1>3, <2>1 DEF ReadCall, Hold, AcpTypeOK, channel, world
<1>4. CASE Offer
  <2>. DEFINE event == IF reader.frame.kind = "oversized" THEN Frame("stderr", "none") ELSE reader.frame
  <2>1. reader.frame.kind \in {"update", "ask", "oversized"} /\ reader.frame \in FromAgent
    BY <1>4 DEF Offer, HandKept, AcpTypeOK, Idle, Frame
  <2>2. event \in Event
    BY <2>1, FrameIds DEF Event
  <2>3. events' \in Seq(Event) /\ Len(events') <= EventCapacity
    BY <1>4, <2>2, PostTyped DEF Offer
  <2>4. unposted' \in Nat
    BY <1>4, UpdatesCounted DEF Offer, UpdatesKept, Behind, InHand, One, AcpTypeOK
  <2>. QED BY <1>4, <2>3, <2>4 DEF Offer, Hold, AcpTypeOK, channel, world
<1>5. CASE OfferInVain
  <2>1. reader.frame.kind = "ask" => reader.frame.id \in Asks
    BY <1>5, FrameIds DEF OfferInVain, AcpTypeOK, Idle, Frame
  <2>2. ask' \in [Asks -> {"none", "queued", "held", "decided", "answered"}]
    BY <1>5, <2>1 DEF OfferInVain, AcpTypeOK
  <2>. QED BY <1>5, <2>2 DEF OfferInVain, Hold, AcpTypeOK, channel, world
<1>6. CASE Refuse
  <2>1. reader.frame.id \in Calls
    BY <1>6, FrameIds DEF Refuse, HandKept, AcpTypeOK, Idle, Frame
  <2>2. Frame("refusal", reader.frame.id) \in ToAgent
    BY <2>1 DEF Frame, ToAgent
  <2>3. /\ outgoing' \in Seq(ToAgent) /\ Len(outgoing') <= OutgoingCapacity
        /\ writing' \in BOOLEAN /\ stdin' \in Seq(ToAgent)
    BY <1>6, <2>2, EnqueueTyped DEF Refuse, AcpTypeOK, channel
  <2>. QED BY <1>6, <2>3 DEF Refuse, Hold, AcpTypeOK, world
<1>7. CASE EndOfOutput \/ RaiseFlag
  <2>1. reader'.at \in {"closing", "draining"} /\ reader'.frame = Idle
    BY <1>7 DEF EndOfOutput, RaiseFlag, Hold
  <2>. QED BY <1>7, <2>1 DEF EndOfOutput, RaiseFlag, Hold, AcpTypeOK, channel, world
<1>8. CASE Drain
  BY <1>8 DEF Drain, Hold, AcpTypeOK, channel, world, Outcomes
<1>9. CASE Announce
  <2>1. Frame("closed", "none") \in Event
    BY DEF Event
  <2>2. events' \in Seq(Event) /\ Len(events') <= EventCapacity
    BY <1>9, <2>1, PostTyped DEF Announce, AcpTypeOK
  <2>. QED BY <1>9, <2>2 DEF Announce, Hold, AcpTypeOK, channel, world
<1>. QED BY <1>1, <1>2, <1>3, <1>4, <1>5, <1>6, <1>7, <1>8, <1>9 DEF Reader, ReadFrame

\* ... the consumer, the permission tasks and the agent.
LEMMA OthersTyped ==
    ASSUME AcpTypeOK, Take \/ ConsumerStops \/ (\E a \in Asks : Decide(a) \/ Respond(a))
                     \/ AgentReads \/ AgentWrites \/ AgentEnds
    PROVE  AcpTypeOK'
<1>1. ASSUME DropQueue
      PROVE  /\ listening' \in BOOLEAN /\ events' \in Seq(Event) /\ Len(events') <= EventCapacity
             /\ ask' \in [Asks -> {"none", "queued", "held", "decided", "answered"}]
  BY <1>1, NothingQueued, BoundAssumption DEF DropQueue, AcpTypeOK
<1>2. CASE Take
  <2>1. CASE Head(events).kind = "closed"
    BY <1>1, <1>2, <2>1 DEF Take, AcpTypeOK, channel, world
  <2>2. CASE Head(events).kind # "closed"
    <3>1. Head(events) \in Event /\ Tail(events) \in Seq(Event)
          /\ Len(Tail(events)) <= EventCapacity
      BY <1>2, BoundAssumption DEF Take, AcpTypeOK
    <3>2. Head(events).kind = "ask" => Head(events).id \in Asks
      BY <3>1 DEF Event, Frame
    <3>3. ask' \in [Asks -> {"none", "queued", "held", "decided", "answered"}]
      BY <1>2, <2>2, <3>2 DEF Take, AcpTypeOK
    <3>. QED BY <1>2, <2>2, <3>1, <3>3 DEF Take, AcpTypeOK, channel, world
  <2>. QED BY <2>1, <2>2
<1>3. CASE ConsumerStops
  BY <1>1, <1>3 DEF ConsumerStops, AcpTypeOK, channel, world
<1>4. ASSUME NEW a \in Asks, Decide(a) PROVE AcpTypeOK'
  BY <1>4 DEF Decide, AcpTypeOK, channel, world
<1>5. ASSUME NEW a \in Asks, Respond(a) PROVE AcpTypeOK'
  <2>1. Frame("outcome", a) \in ToAgent
    BY DEF Frame, ToAgent
  <2>2. /\ outgoing' \in Seq(ToAgent) /\ Len(outgoing') <= OutgoingCapacity
        /\ writing' \in BOOLEAN /\ stdin' \in Seq(ToAgent)
    BY <1>5, <2>1, EnqueueTyped DEF Respond, AcpTypeOK, channel
  <2>. QED BY <1>5, <2>2 DEF Respond, AcpTypeOK, world
<1>6. CASE AgentReads
  <2>1. Head(stdin) \in ToAgent /\ Tail(stdin) \in Seq(ToAgent)
    BY <1>6 DEF AgentReads, AcpTypeOK
  <2>. QED BY <1>6, <2>1 DEF AgentReads, AcpTypeOK
<1>7. CASE AgentWrites
  <2>1. PICK frame \in Writable :
          /\ stdout' = Append(stdout, frame)
          /\ unposted' = unposted + (IF frame.kind = "update" THEN 1 ELSE 0)
    BY <1>7 DEF AgentWrites
  <2>2. frame \in FromAgent
    BY <2>1 DEF Writable, FromAgent
  <2>. QED BY <1>7, <2>1, <2>2 DEF AgentWrites, AcpTypeOK, channel
<1>8. CASE AgentEnds
  BY <1>8 DEF AgentEnds, AcpTypeOK
<1>. QED BY <1>2, <1>3, <1>4, <1>5, <1>6, <1>7, <1>8

LEMMA TypesKept ==
    ASSUME AcpInductive, [AcpNext]_acpVars
    PROVE  AcpTypeOK'
<1>1. CASE AcpNext
  BY <1>1, CallTyped, WriterTyped, ReaderTyped, OthersTyped DEF AcpNext, AcpInductive
<1>2. CASE UNCHANGED acpVars
  BY <1>2 DEF AcpInductive, AcpTypeOK, acpVars, channel, world
<1>. QED BY <1>1, <1>2

----------------------------------------------------------------------------
(* Requests.                                                                *)

\* A step of request i concerns no other request.
LEMMA CallStepKeeps ==
    ASSUME AcpInductive, NEW i \in Requests, Register(i) \/ Call(i) \/ TimeOut(i)
    PROVE  CallsKept'
<1>. USE DEF AcpInductive
<1>1. /\ answer' = answer /\ closed' = closed /\ reader' = reader
      /\ pending' \in {pending, pending \cup {i}, pending \ {i}}
      /\ \A j \in Requests \ {i} : request'[j] = request[j]
  BY DEF Register, Call, CheckClosed, SendRequest, Receive, TimeOut, End, Forget, AcpTypeOK
<1>2. \A j \in Requests \ {i} : CallKept(j)'
  BY <1>1 DEF CallsKept, CallKept
<1>3. CallKept(i)'
  <2>0. CallKept(i) /\ request \in [Requests -> States]
    BY DEF CallsKept, AcpTypeOK, States
  <2>1. CASE Register(i)
    BY <1>1, <2>0, <2>1 DEF Register, End, CallKept, InFlight
  <2>2. CASE CheckClosed(i)
    BY <1>1, <2>0, <2>2 DEF CheckClosed, End, Forget, CallsKept, CallKept, InFlight
  <2>3. CASE SendRequest(i)
    BY <1>1, <2>0, <2>3 DEF SendRequest, End, Forget, CallKept, InFlight
  <2>4. CASE Receive(i)
    BY <1>1, <2>0, <2>4 DEF Receive, End, CallKept, InFlight, AcpTypeOK, Outcomes
  <2>5. CASE TimeOut(i)
    BY <1>1, <2>0, <2>5 DEF TimeOut, End, Forget, CallKept, InFlight
  <2>. QED BY <2>1, <2>2, <2>3, <2>4, <2>5 DEF Call
<1>. QED BY <1>1, <1>2, <1>3 DEF CallsKept

LEMMA ReaderKeepsCalls ==
    ASSUME AcpInductive, Reader
    PROVE  CallsKept'
<1>. USE DEF AcpInductive
<1>1. CASE ReadReply
  <2>1. Head(stdout).id \in Requests
    BY <1>1, FramesTyped, FrameIds DEF ReadReply, Reading
  <2>2. reader.at = "reading" /\ UNCHANGED <<request, closed, reader>>
    BY <1>1 DEF ReadReply, Reading
  <2>3. CASE Head(stdout).id \in pending
    <3>. DEFINE i == Head(stdout).id
    <3>1. pending' = pending \ {i} /\ answer'[i] = "reply" /\ \A j \in Requests \ {i} : answer'[j] = answer[j]
      BY <1>1, <2>1, <2>3 DEF ReadReply, Route, Forget, AcpTypeOK
    <3>2. request[i] # "new"
      BY <2>1, <2>3 DEF CallsKept, CallKept, InFlight
    <3>. HIDE DEF i
    <3>. QED BY <2>2, <3>1, <3>2 DEF CallsKept, CallKept
  <2>4. CASE Head(stdout).id \notin pending
    BY <1>1, <2>2, <2>4 DEF ReadReply, Route, CallsKept, CallKept
  <2>. QED BY <2>3, <2>4
<1>2. CASE ReadEvent \/ ReadCall \/ Offer \/ OfferInVain \/ Refuse \/ EndOfOutput
  <2>1. /\ reader'.at \in {"reading", "offering", "refusing", "closing"}
        /\ UNCHANGED <<request, pending, answer, closed>>
    BY <1>2 DEF ReadEvent, ReadCall, Offer, OfferInVain, Refuse, EndOfOutput, Hold
  <2>. QED BY <2>1 DEF CallsKept, CallKept
<1>3. CASE RaiseFlag
  BY <1>3 DEF RaiseFlag, Hold, CallsKept, CallKept
<1>4. CASE Drain
  BY <1>4 DEF Drain, Hold, CallsKept, CallKept, InFlight
<1>5. CASE Announce
  BY <1>5 DEF Announce, Hold, CallsKept, CallKept
<1>. QED BY <1>1, <1>2, <1>3, <1>4, <1>5 DEF Reader, ReadFrame

LEMMA CallsStayKept ==
    ASSUME AcpInductive, [AcpNext]_acpVars
    PROVE  CallsKept'
<1>1. ASSUME UNCHANGED <<request, pending, answer, closed, reader>> PROVE CallsKept'
  BY <1>1 DEF AcpInductive, CallsKept, CallKept
<1>2. ASSUME AcpNext, ~Reader, \A i \in Requests : ~(Register(i) \/ Call(i) \/ TimeOut(i))
      PROVE  UNCHANGED <<request, pending, answer, closed, reader>>
  BY <1>2 DEF AcpNext, Cancel, Write, Stderr, Take, ConsumerStops, Decide, Respond,
              AgentReads, AgentWrites, AgentEnds
<1>. QED BY <1>1, <1>2, CallStepKeeps, ReaderKeepsCalls DEF acpVars

----------------------------------------------------------------------------
(* The reader and the updates of a turn.                                    *)

LEMMA HandStaysKept ==
    ASSUME AcpInductive, [AcpNext]_acpVars
    PROVE  HandKept'
<1>1. CASE Reader
  BY <1>1 DEF Reader, ReadFrame, ReadReply, ReadEvent, ReadCall, Offer, OfferInVain, Refuse,
              EndOfOutput, RaiseFlag, Drain, Announce, Hold, AcpInductive, HandKept
<1>2. ASSUME [AcpNext]_acpVars, ~Reader PROVE reader' = reader
  BY <1>2 DEF acpVars, AcpNext, Register, Call, CheckClosed, SendRequest, Receive, TimeOut, Cancel, Write,
              Stderr, Take, ConsumerStops, Decide, Respond, AgentReads, AgentWrites, AgentEnds
<1>. QED BY <1>1, <1>2 DEF AcpInductive, HandKept

\* The reader hands an update on, or loses it to a queue nobody listens to.
LEMMA ReaderKeepsUpdates ==
    ASSUME AcpInductive, Reader
    PROVE  UpdatesKept'
<1>. USE DEF AcpInductive
<1>0. /\ unposted \in Nat /\ Cardinality(Updates(stdout)) \in Nat
      /\ \A frame : One(frame) \in {0, 1}
  BY UpdatesCounted DEF AcpTypeOK, One
<1>1. ASSUME Reading
      PROVE  /\ Cardinality(Updates(stdout)) = Cardinality(Updates(Tail(stdout))) + One(Head(stdout))
             /\ Cardinality(Updates(Tail(stdout))) \in Nat
  BY <1>1, TailCounts, UpdatesCounted, FramesTyped DEF Reading, AcpTypeOK
<1>2. CASE ReadReply \/ ReadCall
  <2>1. /\ Reading /\ One(Head(stdout)) = 0 /\ stdout' = Tail(stdout)
        /\ UNCHANGED <<unposted, listening>>
    BY <1>2 DEF ReadReply, ReadCall, Reading, One
  <2>2. InHand = 0 /\ InHand' = 0
    BY <1>2 DEF ReadReply, ReadCall, Reading, Hold, InHand
  <2>. QED BY <1>0, <1>1, <2>1, <2>2 DEF UpdatesKept, Behind
<1>3. CASE ReadEvent
  BY <1>0, <1>1, <1>3 DEF ReadEvent, Reading, Hold, UpdatesKept, Behind, InHand
<1>4. CASE Offer
  BY <1>0, <1>4 DEF Offer, Hold, UpdatesKept, Behind, InHand, One
<1>5. CASE OfferInVain
  BY <1>0, <1>5 DEF OfferInVain, Hold, UpdatesKept, Behind, InHand
<1>6. CASE Refuse \/ EndOfOutput \/ RaiseFlag \/ Drain \/ Announce
  BY <1>0, <1>6 DEF Refuse, EndOfOutput, RaiseFlag, Drain, Announce, Hold, UpdatesKept, Behind, InHand
<1>. QED BY <1>2, <1>3, <1>4, <1>5, <1>6 DEF Reader, ReadFrame

LEMMA UpdatesStayKept ==
    ASSUME AcpInductive, [AcpNext]_acpVars
    PROVE  UpdatesKept'
<1>1. CASE AgentWrites
  <2>1. PICK frame \in Writable :
          /\ stdout' = Append(stdout, frame)
          /\ unposted' = unposted + (IF frame.kind = "update" THEN 1 ELSE 0)
    BY <1>1 DEF AgentWrites
  <2>2. frame \in FromAgent
    BY <2>1 DEF Writable, FromAgent
  <2>3. Cardinality(Updates(stdout')) = Cardinality(Updates(stdout)) + One(frame)
    BY <2>1, <2>2, AppendCounts DEF AcpInductive, AcpTypeOK
  <2>4. unposted \in Nat /\ Cardinality(Updates(stdout)) \in Nat /\ InHand \in {0, 1}
    BY UpdatesCounted DEF AcpInductive, AcpTypeOK, InHand, One
  <2>5. InHand' = InHand /\ listening' = listening
    BY <1>1 DEF AgentWrites, InHand
  <2>. QED BY <2>1, <2>3, <2>4, <2>5 DEF AcpInductive, UpdatesKept, Behind, One
<1>2. CASE Take \/ ConsumerStops
  BY <1>2 DEF Take, ConsumerStops, DropQueue, AcpInductive, UpdatesKept, Behind, InHand, AcpTypeOK
<1>3. ASSUME UNCHANGED <<stdout, reader, listening, unposted>> PROVE UpdatesKept'
  BY <1>3 DEF AcpInductive, UpdatesKept, Behind, InHand
<1>4. ASSUME [AcpNext]_acpVars, ~Reader, ~AgentWrites, ~Take, ~ConsumerStops
      PROVE  UNCHANGED <<stdout, reader, listening, unposted>>
  BY <1>4 DEF acpVars, AcpNext, Register, Call, CheckClosed, SendRequest, Receive, TimeOut, Cancel, Write,
              Stderr, Decide, Respond, AgentReads, AgentEnds
<1>. QED BY <1>1, <1>2, <1>3, <1>4, ReaderKeepsUpdates

----------------------------------------------------------------------------
(* The theorems.                                                            *)

THEOREM AcpInvariance == AcpSpec => []AcpInductive
<1>1. AcpInductive /\ [AcpNext]_acpVars => AcpInductive'
  BY TypesKept, CallsStayKept, HandStaysKept, UpdatesStayKept DEF AcpInductive
<1>. QED BY Initially, <1>1, PTL DEF AcpSpec

\* The state keeps its types; no queue exceeds its capacity.
THEOREM AcpTypeCorrect == AcpSpec => []AcpTypeOK
<1>1. AcpInductive => AcpTypeOK
  BY DEF AcpInductive
<1>. QED BY AcpInvariance, <1>1, PTL

\* A request that has ended, however it ended, holds no place in the pending
\* map, and after the reader has drained it no request waits for an answer
\* that nobody will give (request, lib.rs:217-263; the end of the reader pump,
\* lib.rs:183-192).
THEOREM PendingMapIsSoundHolds == AcpSpec => []PendingMapIsSound
<1>1. AcpInductive => SlotsAreInFlight
  BY DEF AcpInductive, AcpTypeOK, CallsKept, CallKept, SlotsAreInFlight
<1>2. AcpInductive => NobodyWaitsInVain
  BY DEF AcpInductive, CallsKept, CallKept, NobodyWaitsInVain
<1>. QED BY AcpInvariance, <1>1, <1>2, PTL DEF PendingMapIsSound

\* The reply that ends a turn never overtakes an update of the turn, although
\* the two take different ways to the pane (route_message, lib.rs:354-446).
THEOREM UpdatesComeFirstHolds == AcpSpec => UpdatesComeFirst
<1>. DEFINE Replied == \E i \in Requests : answer[i] = "none" /\ answer'[i] = "reply"
<1>1. ASSUME AcpInductive, [AcpNext]_acpVars, Replied, listening
      PROVE  unposted' = Cardinality(UpdatesInPipe')
  <2>1. ReadReply
    BY <1>1 DEF acpVars, AcpNext, Register, Call, CheckClosed, SendRequest, Receive, TimeOut, Cancel, Write,
                Stderr, Reader, ReadFrame, ReadEvent, ReadCall, Offer, OfferInVain, Refuse, EndOfOutput,
                RaiseFlag, Drain, Announce, Take, ConsumerStops, Decide, Respond, AgentReads,
                AgentWrites, AgentEnds
  <2>2. Cardinality(Updates(stdout)) = Cardinality(Updates(Tail(stdout))) + One(Head(stdout))
        /\ Cardinality(Updates(Tail(stdout))) \in Nat
    BY <1>1, <2>1, TailCounts, UpdatesCounted, FramesTyped DEF ReadReply, Reading, AcpInductive, AcpTypeOK
  <2>3. unposted' = unposted /\ unposted = Behind /\ InHand = 0 /\ One(Head(stdout)) = 0
    BY <1>1, <2>1 DEF ReadReply, Reading, AcpInductive, UpdatesKept, InHand, One
  <2>4. unposted' = Cardinality(Updates(Tail(stdout)))
    BY <2>2, <2>3 DEF Behind
  <2>5. UpdatesInPipe' = Updates(Tail(stdout))
    BY <2>1 DEF ReadReply, UpdatesInPipe, Updates
  <2>. QED BY <2>4, <2>5
<1>2. AcpInductive /\ [AcpNext]_acpVars => [Replied /\ listening => unposted' = Cardinality(UpdatesInPipe')]_acpVars
  BY <1>1
<1>. QED BY AcpInvariance, <1>2, PTL DEF AcpSpec, UpdatesComeFirst

----------------------------------------------------------------------------
(* AcpConnection implements the safety part of AgentChannel: every step is  *)
(* one step of the channel, or none.                                        *)

\* The record of a channel, and the one a connection shows
Chan(call, stream, over, hearing) ==
    [call |-> call, stream |-> stream, over |-> over, listening |-> hearing]
Shows == [i \in Requests |-> CallState(i)]
Over  == reader.at = "stopped"
Ch == [call |-> [i \in Requests |-> CallState(i)], stream |-> events,
       over |-> reader.at = "stopped", listening |-> listening]

ChannelStep == Channel!Next \/ UNCHANGED Ch

LEMMA ChIs ==
    /\ Ch = Chan(Shows, events, Over, listening)
    /\ Ch' = Chan(Shows', events', Over', listening')
BY DEF Ch, Chan, Shows, Over

LEMMA ChFields ==
    /\ Ch.stream = events /\ Ch.listening = listening /\ Ch.over = Over
    /\ \A i \in Requests : Ch.call[i] = CallState(i)
BY ChIs DEF Chan, Shows

LEMMA SameCalls ==
    ASSUME UNCHANGED <<request, answer>>
    PROVE  Shows' = Shows
BY DEF Shows, CallState

LEMMA EmittedIs ==
    ASSUME NEW event
    PROVE  Channel!Emitted(Ch, event)
             = Chan(Shows, IF listening THEN Append(events, event) ELSE events, Over, listening)
BY ChIs DEF Chan, Channel!Emitted

LEMMA StreamIs ==
    ASSUME NEW stream
    PROVE  [Ch EXCEPT !.stream = stream] = Chan(Shows, stream, Over, listening)
BY ChIs DEF Chan

\* The steps of the channel, as the connection shows them: a call moves,
LEMMA CallMoves ==
    ASSUME NEW i \in Requests,
           \A j \in Requests \ {i} : CallState(j)' = CallState(j),
           UNCHANGED <<events, listening>>, Over' = Over,
           \/ CallState(i) = "new" /\ CallState(i)' \in {"open", "failed"}
           \/ CallState(i) = "open" /\ CallState(i)' = "answered" /\ ~Over
           \/ CallState(i) = "answered" /\ CallState(i)' = "ok"
           \/ CallState(i) \in {"open", "answered"} /\ CallState(i)' = "failed"
    PROVE  ChannelStep
<1>. DEFINE state == CallState(i)'
<1>1. Shows' = [Shows EXCEPT ![i] = state]
  BY DEF Shows
<1>2. Channel!Moved(Ch, i, state) = Chan([Shows EXCEPT ![i] = state], events, Over, listening)
  BY ChIs DEF Chan, Channel!Moved
<1>3. Ch' = Channel!Moved(Ch, i, state)
  BY <1>1, <1>2, ChIs
<1>4. Ch.call[i] = CallState(i) /\ Ch.over = Over
  BY ChFields
<1>5. \/ Ch.call[i] = "new" /\ state \in {"open", "failed"}
      \/ Channel!CanAnswer(Ch, i) /\ state = "answered"
      \/ Channel!CanReturn(Ch, i) /\ state = "ok"
      \/ Channel!CanFail(Ch, i) /\ state = "failed"
  BY <1>4 DEF Channel!CanAnswer, Channel!CanReturn, Channel!CanFail
<1>. HIDE DEF state
<1>6. Channel!Begin(i) \/ Channel!Answer(i) \/ Channel!Return(i) \/ Channel!Fail(i)
  BY <1>3, <1>5 DEF Ch, Channel!Begin, Channel!Answer, Channel!Return, Channel!Fail
<1>. QED BY <1>6 DEF ChannelStep, Channel!Next

\* an event enters the stream,
LEMMA EventEnters ==
    ASSUME NEW event \in {Channel!Update, Channel!Stderr} \cup [kind : {"ask"}, id : Asks],
           listening, event = Channel!Stderr \/ ~Over, Post(event),
           UNCHANGED <<request, answer, listening>>, Over' = Over
    PROVE  ChannelStep
<1>1. events' = IF listening THEN Append(events, event) ELSE events
  BY DEF Post
<1>2. Ch' = Channel!Emitted(Ch, event)
  BY <1>1, EmittedIs, SameCalls, ChIs
<1>3. Channel!CanEmit(Ch, event)
  BY ChFields DEF Channel!CanEmit
<1>4. Channel!Emit(event)
  BY <1>2, <1>3 DEF Ch, Channel!Emit
<1>. QED BY <1>4 DEF ChannelStep, Channel!Next

\* the channel closes,
LEMMA ChannelCloses ==
    ASSUME ~Over, Over', UNCHANGED <<request, answer, listening>>,
           events' = IF listening THEN Append(events, Channel!Closed) ELSE events
    PROVE  ChannelStep
<1>1. PICK yes : yes = TRUE
  OBVIOUS
<1>2. [Ch EXCEPT !.over = yes] = Chan(Shows, events, yes, listening)
  BY ChIs DEF Chan
<1>3. Channel!Emitted(Chan(Shows, events, yes, listening), Channel!Closed) = Chan(Shows, events', yes, listening)
  BY DEF Chan, Channel!Emitted
<1>4. Channel!Ended(Ch) = Channel!Emitted([Ch EXCEPT !.over = yes], Channel!Closed)
  BY <1>1 DEF Channel!Ended
<1>5. Ch' = Chan(Shows, events', yes, listening)
  BY <1>1, SameCalls, ChIs
<1>6. Ch' = Channel!Ended(Ch) /\ ~Ch.over
  BY <1>2, <1>3, <1>4, <1>5, ChFields
<1>7. Channel!Close
  BY <1>6 DEF Ch, Channel!Close
<1>. QED BY <1>7 DEF ChannelStep, Channel!Next

\* or the consumer leaves, or takes an event: the end of the conversation is
\* the last one it takes.
LEMMA LeftIs ==
    ASSUME listening, listening' = FALSE, events' = <<>>, UNCHANGED <<request, answer>>, Over' = Over
    PROVE  Ch' = Channel!Left(Ch)
<1>1. PICK no : no = FALSE
  OBVIOUS
<1>2. [Ch EXCEPT !.listening = no, !.stream = <<>>] = [[Ch EXCEPT !.listening = no] EXCEPT !.stream = <<>>]
  OBVIOUS
<1>3. [Ch EXCEPT !.listening = no] = Chan(Shows, events, Over, no)
  BY ChIs DEF Chan
<1>4. [Chan(Shows, events, Over, no) EXCEPT !.stream = <<>>] = Chan(Shows, <<>>, Over, no)
  BY DEF Chan
<1>5. Channel!Left(Ch) = [Ch EXCEPT !.listening = no, !.stream = <<>>]
  BY <1>1 DEF Channel!Left
<1>6. Ch' = Chan(Shows, <<>>, Over, no)
  <2>1. listening' = no
    BY <1>1
  <2>. QED BY <2>1, SameCalls, ChIs
<1>. QED BY <1>2, <1>3, <1>4, <1>5, <1>6

LEMMA ConsumerLeaves ==
    ASSUME listening, listening' = FALSE, events' = <<>>, UNCHANGED <<request, answer>>, Over' = Over
    PROVE  ChannelStep
<1>1. Ch' = Channel!Left(Ch) /\ Ch.listening
  BY LeftIs, ChFields
<1>2. Channel!Leave
  BY <1>1 DEF Ch, Channel!Leave
<1>. QED BY <1>2 DEF ChannelStep, Channel!Next

LEMMA ConsumerTakes ==
    ASSUME listening, events # <<>>, Head(events) # Channel!Closed, events' = Tail(events),
           UNCHANGED <<request, answer, listening>>, Over' = Over
    PROVE  ChannelStep
<1>1. Channel!Taken(Ch) = [Ch EXCEPT !.stream = Tail(@)]
  BY ChFields DEF Channel!Taken
<1>2. [Ch EXCEPT !.stream = Tail(@)] = [Ch EXCEPT !.stream = Tail(events)]
  BY ChFields
<1>3. Ch' = Channel!Taken(Ch) /\ Ch.listening /\ Ch.stream # <<>>
  BY <1>1, <1>2, StreamIs, SameCalls, ChIs, ChFields
<1>4. Channel!Take
  BY <1>3 DEF Ch, Channel!Take
<1>. QED BY <1>4 DEF ChannelStep, Channel!Next

----------------------------------------------------------------------------
\* Once a request is at its place, its outcome comes from its oneshot.
LEMMA CallSimulates ==
    ASSUME AcpInductive, NEW i \in Requests, Register(i) \/ Call(i) \/ TimeOut(i)
    PROVE  ChannelStep
<1>. USE DEF AcpInductive
<1>1. /\ UNCHANGED <<answer, events, listening, reader>>
      /\ \A j \in Requests \ {i} : request'[j] = request[j]
      /\ request \in [Requests -> States] /\ answer[i] \in {"none"} \cup Outcomes
  BY DEF Register, Call, CheckClosed, SendRequest, Receive, TimeOut, End, AcpTypeOK, States
<1>2. \A j \in Requests \ {i} : CallState(j)' = CallState(j)
  BY <1>1 DEF CallState
<1>3. Over' = Over
  BY <1>1 DEF Over
<1>4. CASE request'[i] = "failed" /\ request[i] \in InFlight
  <2>1. CallState(i)' = "failed" /\ CallState(i) \in {"open", "answered"}
    BY <1>4 DEF CallState, InFlight
  <2>. QED BY <1>1, <1>2, <1>3, <2>1, CallMoves
<1>5. CASE Register(i)
  <2>1. CallState(i)' \in {"open", "failed"} /\ CallState(i) = "new"
    <3>1. request[i] = "new" /\ request'[i] \in {"registered", "failed"} /\ answer'[i] = "none"
      BY <1>1, <1>5 DEF Register, End, CallsKept, CallKept
    <3>. QED BY <3>1 DEF CallState, InFlight
  <2>. QED BY <1>1, <1>2, <1>3, <2>1, CallMoves
<1>6. CASE Receive(i)
  <2>1. CASE answer[i] = "reply"
    <3>1. CallState(i)' = "ok" /\ CallState(i) = "answered"
      BY <1>1, <1>6, <2>1 DEF Receive, End, CallState, InFlight
    <3>. QED BY <1>1, <1>2, <1>3, <3>1, CallMoves
  <2>2. CASE answer[i] = "failed"
    BY <1>1, <1>4, <1>6, <2>2 DEF Receive, End, InFlight
  <2>. QED BY <1>1, <1>6, <2>1, <2>2 DEF Receive, Outcomes
<1>7. CASE request[i] \in InFlight /\ request'[i] \in InFlight
  <2>1. CallState(i)' = CallState(i)
    BY <1>1, <1>7 DEF CallState, InFlight
  <2>2. Shows' = Shows
    BY <1>2, <2>1 DEF Shows
  <2>. QED BY <1>1, <1>3, <2>2, ChIs DEF ChannelStep
<1>8. CASE CheckClosed(i) \/ SendRequest(i) \/ TimeOut(i)
  BY <1>1, <1>4, <1>7, <1>8 DEF CheckClosed, SendRequest, TimeOut, End, InFlight
<1>. QED BY <1>5, <1>6, <1>8 DEF Call

LEMMA ReaderSimulates ==
    ASSUME AcpInductive, Reader
    PROVE  ChannelStep
<1>. USE DEF AcpInductive
<1>1. CASE ReadReply
  <2>1. PICK i \in Requests : i = Head(stdout).id
    BY <1>1, FramesTyped, FrameIds DEF ReadReply, Reading
  <2>2. UNCHANGED <<request, events, listening, reader>> /\ reader.at = "reading"
    BY <1>1 DEF ReadReply, Reading
  <2>3. ~Over /\ Over' = Over
    BY <2>2 DEF Over
  <2>4. CASE i \in pending
    <3>1. answer'[i] = "reply" /\ \A j \in Requests \ {i} : answer'[j] = answer[j]
      BY <1>1, <2>1, <2>4 DEF ReadReply, Route, Forget, AcpTypeOK
    <3>2. request[i] \in InFlight /\ answer[i] = "none"
      BY <2>1, <2>4 DEF CallsKept, CallKept
    <3>3. CallState(i) = "open"
      BY <3>2 DEF CallState, InFlight
    <3>4. CallState(i)' = "answered"
      BY <2>2, <3>1, <3>2 DEF CallState, InFlight
    <3>5. \A j \in Requests \ {i} : CallState(j)' = CallState(j)
      BY <2>2, <3>1 DEF CallState
    <3>. QED BY <2>1, <2>2, <2>3, <3>3, <3>4, <3>5, CallMoves
  <2>5. CASE i \notin pending
    <3>1. answer' = answer
      BY <1>1, <2>1, <2>5 DEF ReadReply, Route
    <3>. QED BY <2>2, <2>3, <3>1, SameCalls, ChIs DEF ChannelStep
  <2>. QED BY <2>4, <2>5
<1>2. CASE Offer
  <2>. DEFINE event == IF reader.frame.kind = "oversized" THEN Frame("stderr", "none") ELSE reader.frame
  <2>1. reader.frame.kind \in {"update", "ask", "oversized"} /\ reader.frame \in FromAgent
    BY <1>2 DEF Offer, HandKept, AcpTypeOK, Idle, Frame
  <2>2. event \in {Channel!Update, Channel!Stderr} \cup [kind : {"ask"}, id : Asks]
    BY <2>1, FrameIds DEF Channel!Update, Channel!Stderr, Frame
  <2>3. /\ listening /\ Post(event) /\ UNCHANGED <<request, answer, listening>>
        /\ reader.at = "offering" /\ reader'.at = "reading"
    BY <1>2 DEF Offer, EventsOpen, Hold
  <2>. HIDE DEF event
  <2>4. ~Over /\ Over' = Over
    BY <2>3 DEF Over
  <2>. QED BY <2>2, <2>3, <2>4, EventEnters
<1>3. CASE Drain
  <2>1. \A i \in Requests : CallState(i)' = CallState(i)
    <3>1. ASSUME NEW i \in Requests
          PROVE  /\ request'[i] = request[i]
                 /\ (answer'[i] = answer[i] \/ (answer[i] = "none" /\ answer'[i] = "failed"))
      <4>1. i \in pending => answer[i] = "none"
        BY DEF CallsKept, CallKept
      <4>2. request' = request /\ answer'[i] = IF i \in pending THEN "failed" ELSE answer[i]
        BY <1>3 DEF Drain
      <4>. QED BY <4>1, <4>2
    <3>. QED BY <3>1 DEF CallState
  <2>2. Shows' = Shows /\ UNCHANGED <<events, listening>>
    BY <1>3, <2>1 DEF Drain, Shows
  <2>3. Over' = Over
    BY <1>3 DEF Drain, Hold, Over
  <2>. QED BY <2>2, <2>3, ChIs DEF ChannelStep
<1>4. CASE Announce
  <2>1. ~Over /\ Over' /\ UNCHANGED <<request, answer, listening>>
    BY <1>4 DEF Announce, Hold, Over
  <2>2. events' = IF listening THEN Append(events, Channel!Closed) ELSE events
    BY <1>4 DEF Announce, EventsOpen, Post, Channel!Closed, Frame
  <2>. QED BY <2>1, <2>2, ChannelCloses
<1>5. CASE ReadEvent \/ ReadCall \/ OfferInVain \/ Refuse \/ EndOfOutput \/ RaiseFlag
  <2>1. /\ UNCHANGED <<request, answer, events, listening>>
        /\ reader.at # "stopped" /\ reader'.at # "stopped"
    BY <1>5 DEF ReadEvent, ReadCall, Reading, OfferInVain, Refuse, EndOfOutput, RaiseFlag, Hold
  <2>2. Over' = Over
    BY <2>1 DEF Over
  <2>. QED BY <2>1, <2>2, SameCalls, ChIs DEF ChannelStep
<1>. QED BY <1>1, <1>2, <1>3, <1>4, <1>5 DEF Reader, ReadFrame

LEMMA StepSimulates ==
    ASSUME AcpInductive, [AcpNext]_acpVars
    PROVE  ChannelStep
<1>1. CASE Stderr
  <2>1. listening /\ Post(Channel!Stderr) /\ UNCHANGED <<request, answer, listening, reader>>
    BY <1>1 DEF Stderr, EventsOpen, Channel!Stderr, Frame
  <2>2. Over' = Over
    BY <2>1 DEF Over
  <2>. QED BY <2>1, <2>2, EventEnters
<1>2. CASE Take
  <2>1. listening /\ events # <<>> /\ UNCHANGED <<request, answer, reader>> /\ Head(events) \in Event
    BY <1>2 DEF Take, AcpInductive, AcpTypeOK
  <2>2. Head(events).kind = "closed" <=> Head(events) = Channel!Closed
    BY <2>1 DEF Event, Frame, Channel!Closed
  <2>3. Over' = Over
    BY <2>1 DEF Over
  <2>4. CASE Head(events).kind = "closed"
    <3>1. events' = <<>> /\ listening' = FALSE
      BY <1>2, <2>4 DEF Take, DropQueue
    <3>. QED BY <2>1, <2>3, <3>1, ConsumerLeaves
  <2>5. CASE Head(events).kind # "closed"
    <3>1. events' = Tail(events) /\ listening' = listening
      BY <1>2, <2>5 DEF Take
    <3>. QED BY <2>1, <2>2, <2>3, <2>5, <3>1, ConsumerTakes
  <2>. QED BY <2>4, <2>5
<1>3. CASE ConsumerStops
  <2>1. listening /\ listening' = FALSE /\ events' = <<>> /\ UNCHANGED <<request, answer>> /\ Over' = Over
    BY <1>3 DEF ConsumerStops, DropQueue, Over
  <2>. QED BY <2>1, ConsumerLeaves
<1>4. ASSUME UNCHANGED <<request, answer, reader, events, listening>> PROVE ChannelStep
  <2>1. Over' = Over
    BY <1>4 DEF Over
  <2>. QED BY <1>4, <2>1, SameCalls, ChIs DEF ChannelStep
<1>5. ASSUME [AcpNext]_acpVars, ~Reader, ~Stderr, ~Take, ~ConsumerStops,
             \A i \in Requests : ~(Register(i) \/ Call(i) \/ TimeOut(i))
      PROVE  UNCHANGED <<request, answer, reader, events, listening>>
  BY <1>5 DEF acpVars, AcpNext, Cancel, Write, Decide, Respond, AgentReads, AgentWrites, AgentEnds
<1>. QED BY <1>1, <1>2, <1>3, <1>4, <1>5, CallSimulates, ReaderSimulates

\* A connection keeps the promise of AgentChannel on which the pane is built:
\* answers, failures and events come as the channel has them, the end is the
\* last event of the conversation, and after it no call is answered
\* (lib.rs:147-263).
THEOREM ImplementsChannel == AcpSpec => Channel!Spec
<1>1. AcpInit => Channel!Init
  <2>. SUFFICES ASSUME AcpInit PROVE Channel!Init
    OBVIOUS
  <2>1. Shows = [i \in Requests |-> "new"]
    BY DEF AcpInit, Shows, CallState
  <2>2. events = <<>> /\ listening = TRUE /\ Over = FALSE
    BY DEF AcpInit, Over
  <2>3. Channel!Opened = Chan(Shows, events, Over, listening)
    BY <2>1, <2>2 DEF Channel!Opened, Chan
  <2>4. Ch = Channel!Opened
    BY <2>3, ChIs
  <2>. QED BY <2>4 DEF Ch, Channel!Init
<1>2. AcpInductive /\ [AcpNext]_acpVars => [Channel!Next]_Ch
  BY StepSimulates DEF ChannelStep
<1>. QED BY AcpInvariance, <1>1, <1>2, PTL DEF AcpSpec, Channel!Spec, Ch
=============================================================================
