---- MODULE LiveTailProofs ----
(***************************************************************************)
(* The rows on show and the live views of LiveTail, for every number of    *)
(* nodes, rows, polls, upgrades, restarts and edits.                       *)
(***************************************************************************)
EXTENDS LiveTail, SequenceTheorems, TLAPS

----------------------------------------------------------------------------
(* Keys and rows                                                            *)

Shown == Queries \X Nodes \X Nat

LEMMA MinOfTwo ==
    ASSUME NEW a \in Nat, NEW b \in Nat
    PROVE  Min({a, b}) \in {a, b} /\ Min({a, b}) =< a /\ Min({a, b}) =< b
<1>1. \E x \in {a, b} : \A y \in {a, b} : x =< y
  OBVIOUS
<1>2. Min({a, b}) \in {a, b} /\ \A y \in {a, b} : Min({a, b}) =< y
  BY <1>1, Zenon DEF Min
<1>. QED BY <1>2

\* seed_sql begins below a table's last row.
LEMMA SeedBelow ==
    ASSUME NEW rows \in Nat
    PROVE  /\ SeedFrom(rows) \in Nat /\ SeedFrom(rows) =< rows
           /\ rows > 0 => SeedFrom(rows) < rows
<1>1. Seed \in Nat \ {0}
  BY TailAssumption
<1>2. \E x \in {rows, Seed} : \A y \in {rows, Seed} : x >= y
  BY <1>1
<1>3. Max({rows, Seed}) \in {rows, Seed} /\ \A y \in {rows, Seed} : Max({rows, Seed}) >= y
  BY <1>2, Zenon DEF Max
<1>. QED BY <1>1, <1>3 DEF SeedFrom

\* What prepend_tail leaves of the new rows and the old ones
Ahead(g, rows, q, n, above, upto) ==
    /\ g \in Seq(Shown)
    /\ above < upto => g # <<>>
    /\ \A i \in DOMAIN g :
          /\ i =< upto - above => g[i] = <<q, n, upto + 1 - i>>
          /\ ~(i =< upto - above) =>
                /\ i - (upto - above) \in DOMAIN rows
                /\ g[i] = rows[i - (upto - above)]

LEMMA PrependedRows ==
    ASSUME NEW rows \in Seq(Shown), NEW q \in Queries, NEW n \in Nodes,
           NEW above \in Nat, NEW upto \in Nat, above =< upto
    PROVE  Ahead(Prepended(rows, q, n, above, upto), rows, q, n, above, upto)
<1>. DEFINE new == [i \in 1..(upto - above) |-> <<q, n, upto + 1 - i>>]
            all == new \o rows
            kept == Min({Len(all), Cap})
<1>1. new \in Seq(Shown) /\ Len(new) = upto - above
      /\ \A i \in 1..(upto - above) : new[i] = <<q, n, upto + 1 - i>>
  <2>1. upto - above \in Nat
    OBVIOUS
  <2>2. \A i \in 1..(upto - above) : <<q, n, upto + 1 - i>> \in Shown
    BY DEF Shown
  <2>3. \A i \in 1..(upto - above) : new[i] = <<q, n, upto + 1 - i>>
    OBVIOUS
  <2>4. new \in [1..(upto - above) -> Shown]
    BY <2>2
  <2>. HIDE DEF new
  <2>5. new \in Seq(Shown) /\ Len(new) = upto - above
    BY <2>1, <2>4
  <2>. QED BY <2>3, <2>5
<1>2. Cap \in Nat \ {0}
  BY TailAssumption
<1>. HIDE DEF new
<1>3. all \in Seq(Shown) /\ Len(all) = upto - above + Len(rows)
      /\ \A i \in 1..Len(all) : all[i] = IF i =< upto - above THEN new[i]
                                         ELSE rows[i - (upto - above)]
  <2>1. /\ all \in Seq(Shown) /\ Len(all) = Len(new) + Len(rows)
        /\ \A i \in 1..(Len(new) + Len(rows)) :
              all[i] = IF i =< Len(new) THEN new[i] ELSE rows[i - Len(new)]
    BY <1>1, ConcatProperties, Zenon
  <2>. QED BY <1>1, <2>1
<1>4. Len(rows) \in Nat /\ DOMAIN rows = 1..Len(rows)
  BY LenProperties
<1>. HIDE DEF all
<1>5. Len(all) \in Nat
  BY <1>3, LenProperties
<1>6. kept \in Nat /\ kept =< Len(all) /\ kept \in {Len(all), Cap}
  BY <1>2, <1>5, MinOfTwo
<1>. HIDE DEF kept
<1>7. \A i \in 1..kept : all[i] \in Shown
  BY <1>3, <1>5, <1>6, ElementOfSeq
<1>8. SubSeq(all, 1, kept) \in Seq(Shown) /\ Len(SubSeq(all, 1, kept)) = kept
      /\ \A i \in 1..kept : SubSeq(all, 1, kept)[i] = all[i]
  BY <1>6, <1>7, SubSeqProperties
<1>. DEFINE g == Prepended(rows, q, n, above, upto)
<1>9. g = SubSeq(all, 1, kept)
  BY DEF Prepended, all, new, kept
<1>. HIDE DEF g
<1>10. DOMAIN g = 1..kept
  BY <1>8, <1>9, LenProperties
<1>11. ASSUME above < upto PROVE g # <<>>
  <2>1. kept # 0
    BY <1>11, <1>2, <1>3, <1>4, <1>6
  <2>. QED BY <2>1, <1>8, <1>9, EmptySeq
<1>12. ASSUME NEW i \in DOMAIN g
       PROVE  /\ i =< upto - above => g[i] = <<q, n, upto + 1 - i>>
              /\ ~(i =< upto - above) =>
                    /\ i - (upto - above) \in DOMAIN rows
                    /\ g[i] = rows[i - (upto - above)]
  <2>1. i \in 1..kept /\ i \in 1..Len(all) /\ g[i] = all[i]
    BY <1>5, <1>6, <1>8, <1>9, <1>10
  <2>2. CASE i =< upto - above
    <3>1. i \in 1..(upto - above)
      BY <2>1, <2>2
    <3>. QED BY <2>1, <2>2, <3>1, <1>1, <1>3
  <2>3. CASE ~(i =< upto - above)
    <3>1. g[i] = rows[i - (upto - above)]
      BY <2>1, <2>3, <1>3
    <3>2. i - (upto - above) \in 1..Len(rows)
      BY <2>1, <2>3, <1>3, <1>4, <1>5
    <3>. QED BY <2>3, <3>1, <3>2, <1>4
  <2>. QED BY <2>2, <2>3
<1>. QED BY <1>8, <1>9, <1>11, <1>12 DEF Ahead, g

\* The rows of g are the last ones up to key k, of query q and, if c is a node,
\* of that node.
Exactly(g, q, k, c) ==
    /\ g # <<>>
    /\ \A i \in DOMAIN g :
          /\ g[i][1] = q /\ g[i][3] = k + 1 - i
          /\ c # None => g[i][2] = c

LEMMA PrependedExactly ==
    ASSUME NEW rows \in Seq(Shown), NEW q \in Queries, NEW n \in Nodes,
           NEW above \in Nat, NEW upto \in Nat, above < upto,
           NEW c \in {None, n},
           rows = <<>> \/ Exactly(rows, q, above, c)
    PROVE  Exactly(Prepended(rows, q, n, above, upto), q, upto, c)
<1>. DEFINE g == Prepended(rows, q, n, above, upto)
<1>0. g = Prepended(rows, q, n, above, upto) /\ above =< upto
  OBVIOUS
<1>. HIDE DEF g
<1>1. Ahead(g, rows, q, n, above, upto)
  BY <1>0, PrependedRows
<1>2. DOMAIN g \subseteq Nat
  BY <1>1, LenProperties DEF Ahead
<1>3. ASSUME NEW i \in DOMAIN g
      PROVE  g[i][1] = q /\ g[i][3] = upto + 1 - i /\ (c # None => g[i][2] = c)
  <2>1. CASE i =< upto - above
    BY <1>1, <2>1 DEF Ahead
  <2>2. CASE ~(i =< upto - above)
    <3>. DEFINE j == i - (upto - above)
    <3>1. j \in DOMAIN rows /\ g[i] = rows[j]
      BY <1>1, <2>2 DEF Ahead
    <3>2. rows # <<>>
      BY <3>1, LenProperties
    <3>3. rows[j][1] = q /\ rows[j][3] = above + 1 - j /\ (c # None => rows[j][2] = c)
      BY <3>1, <3>2 DEF Exactly
    <3>4. above + 1 - j = upto + 1 - i
      BY <1>2
    <3>. QED BY <3>1, <3>3, <3>4
  <2>. QED BY <2>1, <2>2
<1>4. Exactly(g, q, upto, c)
  BY <1>1, <1>3 DEF Exactly, Ahead
<1>. QED BY <1>4 DEF g

LEMMA RemovedAt ==
    ASSUME NEW S, NEW s \in Seq(S), NEW i \in DOMAIN s
    PROVE  /\ RemoveAt(s, i) \in Seq(S)
           /\ \A j \in DOMAIN RemoveAt(s, i) : \E k \in DOMAIN s : RemoveAt(s, i)[j] = s[k]
<1>1. Len(s) \in Nat /\ DOMAIN s = 1..Len(s) /\ i \in 1..Len(s)
  BY LenProperties
<1>. DEFINE R == {s[k] : k \in DOMAIN s}
<1>2. \A k \in 1..Len(s) : s[k] \in R /\ s[k] \in S
  BY <1>1, ElementOfSeq
<1>. HIDE DEF R
<1>3. SubSeq(s, 1, i - 1) \in Seq(R \cap S) /\ SubSeq(s, i + 1, Len(s)) \in Seq(R \cap S)
  <2>1. \A k \in 1..(i - 1) : s[k] \in R \cap S
    BY <1>1, <1>2
  <2>2. \A k \in (i + 1)..Len(s) : s[k] \in R \cap S
    BY <1>1, <1>2
  <2>3. i - 1 \in Int /\ i + 1 \in Int /\ Len(s) \in Int /\ 1 \in Int
    BY <1>1
  <2>. QED BY <2>1, <2>2, <2>3, SubSeqProperties
<1>4. RemoveAt(s, i) \in Seq(R \cap S)
  BY <1>3, ConcatProperties DEF RemoveAt
<1>5. RemoveAt(s, i) \in Seq(S)
  BY <1>4, SeqMonotonic
<1>6. \A j \in DOMAIN RemoveAt(s, i) : RemoveAt(s, i)[j] \in R
  BY <1>4, LenProperties, ElementOfSeq
<1>. QED BY <1>5, <1>6 DEF R

----------------------------------------------------------------------------
(* Types                                                                    *)

LEMMA NothingShown == ASSUME NEW S PROVE <<>> \in Seq(S)
OBVIOUS

LEMMA FreshTyped ==
    ASSUME NEW query \in Queries, NEW g \in Nat
    PROVE  Fresh(query, g) \in Tails
BY DEF Fresh, Tails, Keys

LEMMA PolledTyped ==
    ASSUME polls \in Seq(Polls), NEW t \in Tails, NEW n \in Nodes
    PROVE  Polled(t, n) \in Seq(Polls)
<1>1. t.generation \in Nat /\ t.query \in Queries /\ t.last \in Keys
  BY DEF Tails
<1>2. [generation |-> t.generation, query |-> t.query, from |-> t.last, node |-> n] \in Polls
  BY <1>1 DEF Polls
<1>. QED BY <1>2 DEF Polled

LEMMA UpgradeTyped ==
    ASSUME TypeOK, connected # None, NEW t \in Tails, Upgrade(t)
    PROVE  /\ tail' \in Tails /\ setups' \subseteq Setups
           /\ counters' \in [generation : Nat, epoch : Nat, edits : Nat]
<1>1. PICK experimental \in Experimental :
        LET streamed == experimental /\ ~t.rejected IN
        /\ tail' = IF streamed THEN [t EXCEPT !.push = "Stream", !.connecting = TRUE] ELSE t
        /\ setups' = setups \cup {Request(t, streamed)}
  BY DEF Upgrade
<1>. DEFINE streamed == experimental /\ ~t.rejected
<1>2. streamed \in BOOLEAN
  OBVIOUS
<1>3. tail' \in Tails
  BY <1>1 DEF Tails
<1>4. Request(t, streamed) \in Setups
  BY <1>2 DEF Request, Setups, TypeOK, Tails
<1>5. counters' \in [generation : Nat, epoch : Nat, edits : Nat]
  BY DEF Upgrade, TypeOK
<1>. QED BY <1>1, <1>3, <1>4, <1>5 DEF TypeOK

\* The server's rows a poll returns, between two keys
Above(p) == IF p.from = None THEN SeedFrom(server[p.node]) ELSE p.from
Upto(p) == IF p.from = None THEN server[p.node] ELSE Min({server[p.node], p.from + Limit})

LEMMA KeysTyped ==
    ASSUME TypeOK, NEW p \in Polls
    PROVE  Above(p) \in Nat /\ Upto(p) \in Nat
<1>1. server[p.node] \in Nat /\ p.from \in Nat \cup {None} /\ Limit \in Nat
  BY TailAssumption DEF TypeOK, Polls, Keys
<1>2. CASE p.from = None
  BY <1>1, <1>2, SeedBelow DEF Above, Upto
<1>3. CASE p.from # None
  <2>1. p.from + Limit \in Nat
    BY <1>1, <1>3
  <2>. QED BY <1>1, <1>3, <2>1, MinOfTwo DEF Above, Upto
<1>. QED BY <1>2, <1>3

LEMMA InitiallyTyped == Init => TypeOK
BY NothingShown, TailAssumption DEF Init, TypeOK

LEMMA TypesKept ==
    ASSUME TypeOK, [Next]_vars
    PROVE  TypeOK'
<1>. USE DEF TypeOK
<1>1. ASSUME NEW n \in Nodes, Insert(n) PROVE TypeOK'
  <2>1. server[n] + Burst \in Nat
    <3>1. Burst \in Nat /\ server[n] \in Nat
      BY TailAssumption
    <3>. QED BY <3>1
  <2>. QED BY <1>1, <2>1 DEF Insert
<1>2. CASE Open
  <2>1. tail' \in Tails /\ counters' \in [generation : Nat, epoch : Nat, edits : Nat]
    <3>1. counters.generation + 1 \in Nat /\ Table \in Queries
      BY DEF Queries
    <3>2. /\ tail' = Fresh(Table, counters.generation + 1)
          /\ counters' = [counters EXCEPT !.generation = counters.generation + 1]
      BY <1>2 DEF Open
    <3>. QED BY <3>1, <3>2, FreshTyped
  <2>2. polls' \in Seq(Polls)
    BY <1>2, <2>1, PolledTyped DEF Open
  <2>. QED BY <1>2, <2>1, <2>2, NothingShown DEF Open
<1>3. CASE Pause
  BY <1>3 DEF Pause, Tails
<1>4. CASE Resume
  <2>. DEFINE t == [tail EXCEPT !.paused = FALSE]
              closed == t.push = "Stream" /\ t.stream = None /\ ~t.connecting
  <2>1. t \in Tails /\ [t EXCEPT !.push = "Poll"] \in Tails
    BY <1>4 DEF Resume, Tails
  <2>2. CASE closed /\ connected # None /\ MayUpgrade
             /\ Upgrade([t EXCEPT !.push = "Poll"]) /\ UNCHANGED polls
    BY <1>4, <2>1, <2>2, UpgradeTyped DEF Resume
  <2>3. CASE closed /\ connected = None
             /\ tail' = [t EXCEPT !.push = "Poll"] /\ UNCHANGED <<counters, setups, polls>>
    BY <1>4, <2>1, <2>3 DEF Resume
  <2>4. CASE t.push = "Watch" /\ connected # None /\ MayPoll(t.generation)
             /\ tail' = t /\ polls' = Polled(t, connected) /\ UNCHANGED <<counters, setups>>
    BY <1>4, <2>1, <2>4, PolledTyped DEF Resume
  <2>5. CASE ~closed /\ (t.push # "Watch" \/ connected = None)
             /\ tail' = t /\ UNCHANGED <<counters, setups, polls>>
    BY <1>4, <2>1, <2>5 DEF Resume
  <2>. QED BY <1>4, <2>2, <2>3, <2>4, <2>5 DEF Resume
<1>5. CASE Stop
  BY <1>5 DEF Stop
<1>6. CASE Tick
  <2>1. tail \in Tails /\ connected \in Nodes
    BY <1>6 DEF Tick
  <2>2. polls' \in Seq(Polls)
    BY <1>6, <2>1, PolledTyped DEF Tick
  <2>3. tail' \in Tails
    BY <1>6, <2>1 DEF Tick, Tails
  <2>. QED BY <1>6, <2>2, <2>3 DEF Tick
<1>7. CASE TickPaused
  BY <1>7 DEF TickPaused, Tails
<1>8. ASSUME NEW i \in DOMAIN polls, PollLands(i) PROVE TypeOK'
  <2>. DEFINE p == polls[i]
  <2>1. p \in Polls
    BY ElementOfSeq, LenProperties
  <2>2. Above(p) \in Nat /\ Upto(p) \in Nat
    BY <2>1, KeysTyped
  <2>3. polls' \in Seq(Polls)
    BY <1>8, RemovedAt DEF PollLands
  <2>4. CASE UNCHANGED <<tail, grid, strays>>
    BY <1>8, <2>3, <2>4 DEF PollLands
  <2>5. CASE ~UNCHANGED <<tail, grid, strays>>
    <3>1. /\ tail # None /\ Upto(p) > Above(p)
          /\ tail' = [tail EXCEPT !.last = Upto(p)]
          /\ grid' = Prepended(IF p.from = None THEN <<>> ELSE grid, p.query, p.node,
                               Above(p), Upto(p))
          /\ strays' \in {strays, strays \cup {"rows"}}
      BY <1>8, <2>5 DEF PollLands, Above, Upto
    <3>. DEFINE old == IF p.from = None THEN <<>> ELSE grid
    <3>2. old \in Seq(Shown)
      BY NothingShown DEF Shown
    <3>3. p.query \in Queries /\ p.node \in Nodes
      BY <2>1 DEF Polls
    <3>4. grid' \in Seq(Shown)
      <4>1. grid' = Prepended(old, p.query, p.node, Above(p), Upto(p))
        BY <3>1
      <4>2. Above(p) =< Upto(p)
        BY <2>2, <3>1
      <4>. HIDE DEF old, p
      <4>. QED BY <2>2, <3>2, <3>3, <4>1, <4>2, PrependedRows DEF Ahead
    <3>5. tail' \in Tails
      BY <2>2, <3>1 DEF Tails, Keys
    <3>. QED BY <1>8, <2>3, <3>1, <3>4, <3>5 DEF PollLands, Shown
  <2>. QED BY <2>4, <2>5
<1>9. ASSUME NEW i \in DOMAIN polls, PollFails(i) PROVE TypeOK'
  BY <1>9, RemovedAt DEF PollFails
<1>10. CASE ProbeLands
  BY <1>10 DEF ProbeLands, Tails
<1>11. CASE UpgradePressed
  BY <1>11, UpgradeTyped DEF UpgradePressed
<1>12. ASSUME NEW s \in setups, ViewCreated(s) PROVE TypeOK'
  <2>1. [s EXCEPT !.view = TRUE] \in Setups /\ <<s.node, s.epoch>> \in Nodes \X Nat
    BY DEF Setups
  <2>. QED BY <1>12, <2>1 DEF ViewCreated
<1>13. ASSUME NEW s \in setups, SetupLands(s) PROVE TypeOK'
  <2>1. CASE Live(s.generation) /\ (\E outcome \in Outcomes(s) : Adopt(s, outcome))
             /\ UNCHANGED views
    <3>1. PICK outcome \in Outcomes(s) : Adopt(s, outcome)
      BY <2>1
    <3>. DEFINE t == [tail EXCEPT !.connecting = FALSE,
                        !.rejected = @ \/ (s.streamed /\ outcome \in {"Watch", "FastPoll"})]
                from == IF s.from = None THEN 0 ELSE s.from
    <3>2. tail \in Tails /\ from \in Nat /\ s.epoch \in Nat /\ s.query \in Queries
      BY <2>1 DEF Live, Setups, Keys
    <3>3. t \in Tails
      BY <3>2 DEF Tails
    <3>4. tail' = CASE outcome = "Stream" ->
                [t EXCEPT !.push = "Stream",
                          !.stream = [epoch |-> s.epoch, query |-> s.query, seen |-> from]]
           [] outcome = "Watch" ->
                [t EXCEPT !.push = "Watch", !.watch = [epoch |-> s.epoch, seen |-> None]]
           [] outcome = "FastPoll" -> [t EXCEPT !.push = "Fast"]
           [] outcome = "Error" -> [t EXCEPT !.push = "Poll", !.available = FALSE]
      BY <3>1 DEF Adopt
    <3>. HIDE DEF t, from
    <3>5. outcome \in {"Stream", "Watch", "FastPoll", "Error"}
      BY DEF Outcomes
    <3>6. tail' \in Tails
      <4>1. CASE outcome = "Stream"
        BY <3>2, <3>3, <3>4, <4>1 DEF Tails, Streams, Watches
      <4>2. CASE outcome = "Watch"
        BY <3>2, <3>3, <3>4, <4>2 DEF Tails, Keys, Streams, Watches
      <4>3. CASE outcome = "FastPoll"
        BY <3>3, <3>4, <4>3 DEF Tails
      <4>4. CASE outcome = "Error"
        BY <3>3, <3>4, <4>4 DEF Tails
      <4>. QED BY <3>5, <4>1, <4>2, <4>3, <4>4
    <3>7. strays' \subseteq {"rows", "views"}
      BY <3>1 DEF Adopt
    <3>. QED BY <1>13, <2>1, <3>6, <3>7 DEF SetupLands
  <2>2. CASE ~Live(s.generation) /\ views' = views \ {<<s.node, s.epoch>>}
             /\ UNCHANGED <<tail, strays>>
    BY <1>13, <2>2 DEF SetupLands
  <2>. QED BY <1>13, <2>1, <2>2 DEF SetupLands
<1>14. CASE StreamDelivers
  <2>1. tail \in Tails /\ tail.stream \in [epoch : Nat, query : Queries, seen : Nat]
        /\ connected \in Nodes
    BY <1>14 DEF StreamDelivers, Streaming, Tails, Streams, Watches
  <2>. DEFINE key == tail.stream.seen + 1
  <2>2. /\ tail.stream.seen \in Nat /\ tail.stream.query \in Queries
        /\ key \in Nat /\ key - 1 \in Nat /\ key - 1 =< key
    <3>1. tail.stream.seen \in Nat /\ tail.stream.query \in Queries
      BY <2>1
    <3>. QED BY <3>1
  <2>3. /\ tail' = [tail EXCEPT !.last = key, !.stream.seen = key]
        /\ grid' = Prepended(grid, tail.stream.query, connected, key - 1, key)
    BY <1>14 DEF StreamDelivers
  <2>. HIDE DEF key
  <2>4. grid' \in Seq(Shown)
    BY <2>1, <2>2, <2>3, PrependedRows DEF Ahead, Shown
  <2>5. tail' \in Tails
    BY <2>1, <2>2, <2>3 DEF Tails, Keys, Streams, Watches
  <2>. QED BY <1>14, <2>4, <2>5 DEF StreamDelivers, Shown
<1>15. CASE StreamEnds
  <2>1. [tail EXCEPT !.stream = None, !.rejected = TRUE, !.push = "Poll"] \in Tails
        /\ connected # None
    BY <1>15 DEF StreamEnds, Streaming, Tails
  <2>. QED BY <1>15, <2>1, UpgradeTyped DEF StreamEnds
<1>16. CASE WatchEvent
  <2>1. tail \in Tails /\ connected \in Nodes
        /\ tail.watch \in [epoch : Nat, seen : Keys]
    BY <1>16 DEF WatchEvent, Watching, Tails, Streams, Watches
  <2>2. tail' = [tail EXCEPT !.watch.seen = server[connected]] /\ server[connected] \in Keys
    BY <1>16, <2>1 DEF WatchEvent, Keys
  <2>3. tail' \in Tails
    BY <2>1, <2>2 DEF Tails, Streams, Watches
  <2>4. polls' \in Seq(Polls)
    BY <1>16, <2>1, PolledTyped DEF WatchEvent
  <2>. QED BY <1>16, <2>3, <2>4 DEF WatchEvent
<1>17. CASE WatchEnds
  BY <1>17 DEF WatchEnds, Watching, Tails
<1>18. ASSUME NEW query \in Edited, EditPressed(query) PROVE TypeOK'
  <2>1. [generation |-> tail.generation, query |-> query, node |-> connected] \in Edits
    BY <1>18 DEF EditPressed, Edits, Queries, Tails
  <2>2. counters' \in [generation : Nat, epoch : Nat, edits : Nat]
    <3>1. counters.edits + 1 \in Nat /\ counters' = [counters EXCEPT !.edits = counters.edits + 1]
      BY <1>18 DEF EditPressed
    <3>. QED BY <3>1
  <2>. QED BY <1>18, <2>1, <2>2 DEF EditPressed
<1>19. ASSUME NEW e \in edits, EditLands(e) PROVE TypeOK'
  <2>1. CASE UNCHANGED <<tail, grid, views, setups, counters, strays>>
    BY <1>19, <2>1 DEF EditLands
  <2>2. CASE Live(e.generation) /\ EditAdopted(e)
    <3>. DEFINE rows == server[e.node]
                pushed == tail.stream # None \/ tail.watch # None
                t == [tail EXCEPT !.query = e.query, !.last = IF rows = 0 THEN None ELSE rows,
                          !.rejected = FALSE, !.stream = None, !.watch = None,
                          !.push = IF pushed THEN "Poll" ELSE @]
    <3>1. rows \in Nat /\ e.query \in Queries /\ e.node \in Nodes
      BY DEF Edits
    <3>2. tail \in Tails /\ connected # None
      BY <2>2 DEF Live
    <3>3. t \in Tails
      BY <3>1, <3>2 DEF Tails, Keys
    <3>4. grid' \in Seq(Shown)
      <4>1. grid' = Prepended(<<>>, e.query, e.node, SeedFrom(rows), rows)
        BY <2>2 DEF EditAdopted
      <4>. QED BY <3>1, <4>1, SeedBelow, NothingShown, PrependedRows DEF Ahead
    <3>5. /\ tail' \in Tails /\ setups' \subseteq Setups
          /\ counters' \in [generation : Nat, epoch : Nat, edits : Nat]
      BY <2>2, <3>2, <3>3, UpgradeTyped DEF EditAdopted
    <3>6. views' \subseteq views /\ strays' \subseteq {"rows", "views"}
      BY <2>2 DEF EditAdopted
    <3>. QED BY <1>19, <3>4, <3>5, <3>6 DEF EditLands, Shown
  <2>. QED BY <1>19, <2>1, <2>2 DEF EditLands
<1>20. ASSUME NEW n \in Nodes, Restart(n)
       PROVE  /\ tail' \in Tails \cup {None} /\ polls' \in Seq(Polls)
              /\ counters' \in [generation : Nat, epoch : Nat, edits : Nat]
  <2>1. CASE tail = None /\ UNCHANGED <<tail, counters, polls>>
    BY <2>1
  <2>2. CASE tail # None /\ tail' = Fresh(tail.query, counters.generation + 1)
             /\ counters' = [counters EXCEPT !.generation = @ + 1]
             /\ polls' = Polled(tail', n)
    <3>1. tail.query \in Queries /\ counters.generation + 1 \in Nat
      BY <2>2 DEF Tails
    <3>2. tail' \in Tails
      BY <2>2, <3>1, FreshTyped
    <3>3. polls' \in Seq(Polls)
      BY <2>2, <3>2, PolledTyped
    <3>. QED BY <2>2, <3>2, <3>3
  <2>. QED BY <1>20, <2>1, <2>2 DEF Restart
<1>21. ASSUME NEW n \in Nodes, SelectNode(n) PROVE TypeOK'
  BY <1>20, <1>21 DEF SelectNode
<1>22. ASSUME NEW n \in Nodes, Connect(n) PROVE TypeOK'
  BY <1>20, <1>22 DEF Connect
<1>23. CASE Disconnect
  BY <1>23 DEF Disconnect
<1>24. CASE UNCHANGED vars
  BY <1>24 DEF vars
<1>. QED
  BY <1>1, <1>2, <1>3, <1>4, <1>5, <1>6, <1>7, <1>8, <1>9, <1>10, <1>11, <1>12, <1>13,
     <1>14, <1>15, <1>16, <1>17, <1>18, <1>19, <1>21, <1>22, <1>23, <1>24 DEF Next

----------------------------------------------------------------------------
(* Tasks and their node                                                     *)

\* A task was started by the tail as it is now only on the node that is active.
Kept(x) ==
    /\ x.generation =< counters.generation
    /\ tail # None /\ x.generation = tail.generation => connected \in {None, x.node}

TasksKept ==
    /\ tail # None => tail.generation =< counters.generation
    /\ \A i \in DOMAIN polls : Kept(polls[i])
    /\ \A x \in setups \cup edits : Kept(x)

\* A step between two restarts
Steady ==
    /\ tail' # None => tail # None /\ tail'.generation = tail.generation
    /\ connected' \in {connected, None}
    /\ counters'.generation = counters.generation
Started(x) ==
    /\ tail # None /\ connected # None
    /\ x.generation = tail.generation /\ x.node = connected
TasksStay ==
    /\ \A i \in DOMAIN polls' :
          Started(polls'[i]) \/ \E k \in DOMAIN polls : polls'[i] = polls[k]
    /\ \A x \in setups' \cup edits' :
          \/ Started(x)
          \/ \E y \in setups \cup edits : x.generation = y.generation /\ x.node = y.node

LEMMA SteadyKeepsTasks ==
    ASSUME TasksKept, Steady, TasksStay
    PROVE  TasksKept'
<1>1. ASSUME NEW x, Started(x) PROVE Kept(x)'
  BY <1>1 DEF Started, Kept, TasksKept, Steady
<1>2. ASSUME NEW x, NEW y, Kept(y), x.generation = y.generation, x.node = y.node
      PROVE  Kept(x)'
  BY <1>2 DEF Kept, Steady
<1>3. \A i \in DOMAIN polls' : Kept(polls[i])'
  BY <1>1, <1>2 DEF TasksStay, TasksKept
<1>4. \A x \in setups' \cup edits' : Kept(x)'
  BY <1>1, <1>2 DEF TasksStay, TasksKept
<1>5. tail' # None => tail'.generation =< counters'.generation
  BY DEF TasksKept, Steady
<1>. QED BY <1>3, <1>4, <1>5 DEF TasksKept

LEMMA PollsTyped ==
    ASSUME TypeOK, NEW k \in DOMAIN polls
    PROVE  polls[k] \in Polls /\ polls[k].generation \in Nat
<1>1. polls \in Seq(Polls)
  BY DEF TypeOK
<1>2. polls[k] \in Polls
  BY <1>1
<1>. QED BY <1>2 DEF Polls

LEMMA PolledTasks ==
    ASSUME polls \in Seq(Polls), NEW t \in Tails, NEW n \in Nodes,
           NEW i \in DOMAIN Polled(t, n)
    PROVE  \/ Polled(t, n)[i].generation = t.generation /\ Polled(t, n)[i].node = n
           \/ \E k \in DOMAIN polls : Polled(t, n)[i] = polls[k]
<1>. DEFINE new == [generation |-> t.generation, query |-> t.query, from |-> t.last, node |-> n]
<1>1. new \in Polls
  BY DEF Polls, Tails
<1>2. new.generation = t.generation /\ new.node = n
  OBVIOUS
<1>. HIDE DEF new
<1>3. Polled(t, n) = Append(polls, new)
  BY DEF Polled, new
<1>4. \/ Append(polls, new)[i] = new
      \/ i \in DOMAIN polls /\ Append(polls, new)[i] = polls[i]
  BY <1>1, <1>3
<1>. QED BY <1>2, <1>3, <1>4

\* What Upgrade leaves as it is
LEMMA UpgradeShape ==
    ASSUME TypeOK, NEW t \in Tails, Upgrade(t)
    PROVE  /\ counters'.generation = counters.generation
           /\ tail' \in Tails /\ tail'.generation = t.generation /\ tail'.watch = t.watch
           /\ tail'.stream = t.stream /\ tail'.last = t.last /\ tail'.query = t.query
           /\ setups \subseteq setups'
           /\ \A s \in setups' : s \in setups \/
                 /\ s.generation = t.generation /\ s.node = connected /\ ~s.view
                 /\ s.from = t.last /\ s.query = t.query
                 /\ s.streamed => tail'.push = "Stream" /\ tail'.connecting
<1>1. PICK experimental \in Experimental :
        LET streamed == experimental /\ ~t.rejected IN
        /\ tail' = IF streamed THEN [t EXCEPT !.push = "Stream", !.connecting = TRUE] ELSE t
        /\ setups' = setups \cup {Request(t, streamed)}
  BY DEF Upgrade
<1>. DEFINE streamed == experimental /\ ~t.rejected
            new == Request(t, streamed)
<1>2. tail' = IF streamed THEN [t EXCEPT !.push = "Stream", !.connecting = TRUE] ELSE t
  BY <1>1
<1>3. setups' = setups \cup {new}
  BY <1>1
<1>4. /\ new.generation = t.generation /\ new.node = connected /\ new.from = t.last
      /\ new.query = t.query /\ ~new.view /\ (new.streamed <=> streamed)
  BY DEF Request
<1>. HIDE DEF streamed, new
<1>5. /\ tail' \in Tails /\ tail'.generation = t.generation /\ tail'.watch = t.watch
      /\ tail'.stream = t.stream /\ tail'.last = t.last /\ tail'.query = t.query
      /\ streamed => tail'.push = "Stream" /\ tail'.connecting
  BY <1>2 DEF Tails
<1>6. counters'.generation = counters.generation
  BY DEF Upgrade, TypeOK
<1>. QED BY <1>3, <1>4, <1>5, <1>6

\* What a set-up that is adopted changes in its tail
LEMMA LandedShape ==
    ASSUME TypeOK, NEW s \in setups, NEW outcome \in Outcomes(s), Live(s.generation),
           Adopt(s, outcome)
    PROVE  /\ tail' \in Tails
           /\ tail'.generation = tail.generation /\ tail'.query = tail.query
           /\ tail'.last = tail.last
           /\ outcome \in {"Stream", "Watch", "FastPoll", "Error"}
           /\ IF outcome = "Stream"
              THEN /\ s.streamed /\ tail'.push = "Stream"
                   /\ tail'.stream = [epoch |-> s.epoch, query |-> s.query,
                                      seen |-> IF s.from = None THEN 0 ELSE s.from]
              ELSE tail'.stream = tail.stream
           /\ IF outcome = "Watch"
              THEN tail'.push = "Watch" /\ tail'.watch = [epoch |-> s.epoch, seen |-> None]
              ELSE ~s.view /\ tail'.watch = tail.watch
<1>. DEFINE t == [tail EXCEPT !.connecting = FALSE,
                    !.rejected = @ \/ (s.streamed /\ outcome \in {"Watch", "FastPoll"})]
            from == IF s.from = None THEN 0 ELSE s.from
<1>1. tail \in Tails /\ from \in Nat /\ s.epoch \in Nat /\ s.query \in Queries
  BY DEF TypeOK, Live, Setups, Keys
<1>2. /\ t \in Tails /\ t.generation = tail.generation /\ t.query = tail.query
      /\ t.last = tail.last /\ t.stream = tail.stream /\ t.watch = tail.watch
  BY <1>1 DEF Tails
<1>3. tail' = CASE outcome = "Stream" ->
            [t EXCEPT !.push = "Stream",
                      !.stream = [epoch |-> s.epoch, query |-> s.query, seen |-> from]]
       [] outcome = "Watch" ->
            [t EXCEPT !.push = "Watch", !.watch = [epoch |-> s.epoch, seen |-> None]]
       [] outcome = "FastPoll" -> [t EXCEPT !.push = "Fast"]
       [] outcome = "Error" -> [t EXCEPT !.push = "Poll", !.available = FALSE]
  BY DEF Adopt
<1>. HIDE DEF t
<1>4. /\ outcome \in {"Stream", "Watch", "FastPoll", "Error"}
      /\ outcome = "Stream" => s.streamed
      /\ outcome # "Watch" => ~s.view
  BY DEF Outcomes
<1>5. CASE outcome = "Stream"
  <2>1. tail' = [t EXCEPT !.push = "Stream",
                   !.stream = [epoch |-> s.epoch, query |-> s.query, seen |-> from]]
    BY <1>3, <1>5
  <2>2. [epoch |-> s.epoch, query |-> s.query, seen |-> from] \in
           [epoch : Nat, query : Queries, seen : Nat]
    BY <1>1
  <2>. QED BY <1>2, <1>4, <1>5, <2>1, <2>2 DEF Tails, Streams, Watches
<1>6. CASE outcome = "Watch"
  <2>1. tail' = [t EXCEPT !.push = "Watch", !.watch = [epoch |-> s.epoch, seen |-> None]]
    BY <1>3, <1>6
  <2>2. [epoch |-> s.epoch, seen |-> None] \in [epoch : Nat, seen : Keys]
    BY <1>1 DEF Keys
  <2>. QED BY <1>2, <1>6, <2>1, <2>2 DEF Tails, Streams, Watches
<1>7. CASE outcome = "FastPoll"
  <2>1. tail' = [t EXCEPT !.push = "Fast"]
    BY <1>3, <1>7
  <2>. QED BY <1>2, <1>4, <1>7, <2>1 DEF Tails
<1>8. CASE outcome = "Error"
  <2>1. tail' = [t EXCEPT !.push = "Poll", !.available = FALSE]
    BY <1>3, <1>8
  <2>. QED BY <1>2, <1>4, <1>8, <2>1 DEF Tails
<1>. QED BY <1>4, <1>5, <1>6, <1>7, <1>8

\* What an edit that is adopted changes
LEMMA AdoptedShape ==
    ASSUME TypeOK, NEW e \in edits, Live(e.generation), EditAdopted(e)
    PROVE  \E t \in Tails :
              /\ t.generation = tail.generation /\ t.query = e.query
              /\ t.last = IF server[e.node] = 0 THEN None ELSE server[e.node]
              /\ t.stream = None /\ t.watch = None
              /\ \/ Upgrade(t)
                 \/ tail' = t /\ UNCHANGED <<setups, counters>>
<1>. DEFINE rows == server[e.node]
            pushed == tail.stream # None \/ tail.watch # None
            push == IF pushed THEN "Poll" ELSE tail.push
            last == IF rows = 0 THEN None ELSE rows
            t == [tail EXCEPT !.query = e.query, !.last = last,
                      !.rejected = FALSE, !.stream = None, !.watch = None, !.push = push]
<1>1. tail \in Tails /\ rows \in Nat /\ e.query \in Queries
  BY DEF TypeOK, Live, Edits
<1>2. push \in {"Poll", "Fast", "Watch", "Stream"} /\ last \in Keys
  BY <1>1 DEF Tails, Keys
<1>3. Upgrade(t) \/ (tail' = t /\ UNCHANGED <<setups, counters>>)
  BY DEF EditAdopted
<1>. HIDE DEF push, last
<1>4. /\ t \in Tails /\ t.generation = tail.generation /\ t.query = e.query
      /\ t.last = last /\ t.stream = None /\ t.watch = None
  BY <1>1, <1>2 DEF Tails
<1>. QED BY <1>3, <1>4 DEF last

\* restart_visible_tails gives the tail a generation no task has.
LEMMA RestartKeepsTasks ==
    ASSUME TypeOK, TasksKept, NEW n \in Nodes, Restart(n), connected' = n,
           UNCHANGED <<setups, edits>>
    PROVE  TasksKept'
<1>1. CASE tail = None /\ UNCHANGED <<tail, counters, polls>>
  BY <1>1 DEF TasksKept, Kept
<1>2. CASE /\ tail # None
           /\ tail' = Fresh(tail.query, counters.generation + 1)
           /\ counters' = [counters EXCEPT !.generation = @ + 1]
           /\ polls' = Polled(tail', n)
  <2>1. tail.query \in Queries /\ counters.generation \in Nat
    BY <1>2 DEF TypeOK, Tails
  <2>2. tail' \in Tails /\ tail'.generation = counters.generation + 1
    BY <1>2, <2>1, FreshTyped DEF Fresh
  <2>3. counters'.generation = counters.generation + 1
    BY <1>2 DEF TypeOK
  <2>4. ASSUME NEW x, x.generation \in Nat, Kept(x) PROVE Kept(x)'
    BY <2>1, <2>2, <2>3, <2>4 DEF Kept
  <2>5. ASSUME NEW i \in DOMAIN polls' PROVE Kept(polls[i])'
    <3>1. \/ polls'[i].generation = tail'.generation /\ polls'[i].node = n
          \/ \E k \in DOMAIN polls : polls'[i] = polls[k]
      BY <1>2, <2>2, PolledTasks DEF TypeOK
    <3>2. CASE polls'[i].generation = tail'.generation /\ polls'[i].node = n
      BY <2>1, <2>2, <2>3, <3>2 DEF Kept
    <3>3. CASE \E k \in DOMAIN polls : polls'[i] = polls[k]
      <4>1. PICK k \in DOMAIN polls : polls'[i] = polls[k]
        BY <3>3
      <4>2. polls[k].generation \in Nat /\ Kept(polls[k])
        BY PollsTyped DEF TasksKept
      <4>. QED BY <4>1, <4>2, <2>4
    <3>. QED BY <3>1, <3>2, <3>3
  <2>6. ASSUME NEW x \in setups \cup edits PROVE Kept(x)'
    <3>1. x.generation \in Nat /\ Kept(x)
      BY DEF TypeOK, Setups, Edits, TasksKept
    <3>. QED BY <3>1, <2>4
  <2>. QED BY <1>2, <2>1, <2>2, <2>3, <2>5, <2>6 DEF TasksKept
<1>. QED BY <1>1, <1>2 DEF Restart

LEMMA OpenKeepsTasks ==
    ASSUME TypeOK, TasksKept, Open
    PROVE  TasksKept'
<1>1. Table \in Queries /\ counters.generation \in Nat /\ connected \in Nodes \cup {None}
  BY DEF Queries, TypeOK
<1>2. tail' \in Tails /\ tail'.generation = counters.generation + 1
  BY <1>1, FreshTyped DEF Open, Fresh
<1>3. counters'.generation = counters.generation + 1 /\ connected' = connected
  BY DEF Open, TypeOK
<1>4. ASSUME NEW x, x.generation \in Nat, Kept(x) PROVE Kept(x)'
  BY <1>1, <1>2, <1>3, <1>4 DEF Kept
<1>5. ASSUME NEW i \in DOMAIN polls' PROVE Kept(polls[i])'
  <2>1. \/ connected # None /\ polls'[i].generation = tail'.generation /\ polls'[i].node = connected
        \/ \E k \in DOMAIN polls : polls'[i] = polls[k]
    BY <1>1, <1>2, PolledTasks DEF Open, TypeOK
  <2>2. CASE connected # None /\ polls'[i].generation = tail'.generation /\ polls'[i].node = connected
    BY <1>1, <1>2, <1>3, <2>2 DEF Kept
  <2>3. CASE \E k \in DOMAIN polls : polls'[i] = polls[k]
    <3>1. PICK k \in DOMAIN polls : polls'[i] = polls[k]
      BY <2>3
    <3>2. polls[k].generation \in Nat /\ Kept(polls[k])
      BY PollsTyped DEF TasksKept
    <3>. QED BY <3>1, <3>2, <1>4
  <2>. QED BY <2>1, <2>2, <2>3
<1>6. ASSUME NEW x \in setups \cup edits PROVE Kept(x)'
  <2>1. x.generation \in Nat /\ Kept(x)
    BY DEF TypeOK, Setups, Edits, TasksKept
  <2>. QED BY <2>1, <1>4
<1>7. setups' = setups /\ edits' = edits
  BY DEF Open
<1>. QED BY <1>1, <1>2, <1>3, <1>5, <1>6, <1>7 DEF TasksKept

LEMMA TasksStep ==
    ASSUME TypeOK, TasksKept, [Next]_vars
    PROVE  TasksKept'
<1>. USE DEF Steady, TasksStay, Started
<1>0. (tail # None => tail \in Tails) /\ (connected # None => connected \in Nodes)
      /\ polls \in Seq(Polls)
  BY DEF TypeOK
<1>1. ASSUME NEW n \in Nodes, Insert(n) PROVE TasksKept'
  BY <1>1, SteadyKeepsTasks DEF Insert
<1>2. CASE Open
  BY <1>2, OpenKeepsTasks
<1>3. CASE Pause
  <2>1. Steady
    BY <1>0, <1>3 DEF Pause, Tails
  <2>. QED BY <1>3, <2>1, SteadyKeepsTasks DEF Pause
<1>4. CASE Resume
  <2>. DEFINE t == [tail EXCEPT !.paused = FALSE]
              u == [t EXCEPT !.push = "Poll"]
  <2>1. t \in Tails /\ u \in Tails /\ t.generation = tail.generation
        /\ u.generation = tail.generation
    BY <1>0, <1>4 DEF Resume, Tails
  <2>2. /\ \/ connected # None /\ Upgrade(u) /\ UNCHANGED polls
           \/ tail' = u /\ UNCHANGED <<counters, setups, polls>>
           \/ connected # None /\ tail' = t /\ polls' = Polled(t, connected)
              /\ UNCHANGED <<counters, setups>>
           \/ tail' = t /\ UNCHANGED <<counters, setups, polls>>
        /\ tail # None /\ UNCHANGED <<connected, edits>>
    BY <1>4 DEF Resume
  <2>. HIDE DEF t, u
  <2>3. CASE connected # None /\ Upgrade(u) /\ UNCHANGED polls
    <3>1. Steady /\ TasksStay
      BY <2>1, <2>2, <2>3, UpgradeShape
    <3>. QED BY <3>1, SteadyKeepsTasks
  <2>4. CASE connected # None /\ tail' = t /\ polls' = Polled(t, connected)
             /\ UNCHANGED <<counters, setups>>
    <3>1. \A i \in DOMAIN polls' : Started(polls'[i]) \/ \E k \in DOMAIN polls : polls'[i] = polls[k]
      BY <1>0, <2>1, <2>2, <2>4, PolledTasks
    <3>. QED BY <2>1, <2>2, <2>4, <3>1, SteadyKeepsTasks
  <2>5. CASE tail' \in {t, u} /\ UNCHANGED <<counters, setups, polls>>
    BY <2>1, <2>2, <2>5, SteadyKeepsTasks
  <2>. QED BY <2>2, <2>3, <2>4, <2>5
<1>5. CASE Stop
  BY <1>5, SteadyKeepsTasks DEF Stop
<1>6. CASE Tick
  <2>1. tail' # None => tail'.generation = tail.generation
    BY <1>0, <1>6 DEF Tick, Tails
  <2>2. \A i \in DOMAIN polls' : Started(polls'[i]) \/ \E k \in DOMAIN polls : polls'[i] = polls[k]
    BY <1>0, <1>6, PolledTasks DEF Tick
  <2>. QED BY <1>6, <2>1, <2>2, SteadyKeepsTasks DEF Tick
<1>7. CASE TickPaused
  <2>1. tail'.generation = tail.generation
    BY <1>0, <1>7 DEF TickPaused, Tails
  <2>. QED BY <1>7, <2>1, SteadyKeepsTasks DEF TickPaused
<1>8. ASSUME NEW i \in DOMAIN polls, PollLands(i) PROVE TasksKept'
  <2>1. tail' # None => tail # None /\ tail'.generation = tail.generation
    BY <1>0, <1>8 DEF PollLands, Tails
  <2>2. \A j \in DOMAIN polls' : \E k \in DOMAIN polls : polls'[j] = polls[k]
    BY <1>0, <1>8, RemovedAt DEF PollLands
  <2>. QED BY <1>8, <2>1, <2>2, SteadyKeepsTasks DEF PollLands
<1>9. ASSUME NEW i \in DOMAIN polls, PollFails(i) PROVE TasksKept'
  <2>1. \A j \in DOMAIN polls' : \E k \in DOMAIN polls : polls'[j] = polls[k]
    BY <1>0, <1>9, RemovedAt DEF PollFails
  <2>. QED BY <1>9, <2>1, SteadyKeepsTasks DEF PollFails
<1>10. CASE ProbeLands
  <2>1. tail'.generation = tail.generation
    BY <1>0, <1>10 DEF ProbeLands, Tails
  <2>. QED BY <1>10, <2>1, SteadyKeepsTasks DEF ProbeLands
<1>11. CASE UpgradePressed
  <2>1. Steady /\ TasksStay
    BY <1>0, <1>11, UpgradeShape DEF UpgradePressed
  <2>. QED BY <2>1, SteadyKeepsTasks
<1>12. ASSUME NEW s \in setups, ViewCreated(s) PROVE TasksKept'
  <2>. DEFINE new == [s EXCEPT !.view = TRUE]
  <2>1. new.generation = s.generation /\ new.node = s.node
    BY DEF TypeOK, Setups
  <2>2. setups' \subseteq setups \cup {new}
    BY <1>12 DEF ViewCreated
  <2>. HIDE DEF new
  <2>. QED BY <1>12, <2>1, <2>2, SteadyKeepsTasks DEF ViewCreated
<1>13. ASSUME NEW s \in setups, SetupLands(s) PROVE TasksKept'
  <2>1. tail' # None => tail # None /\ tail'.generation = tail.generation
    BY <1>0, <1>13, LandedShape DEF SetupLands, Live
  <2>. QED BY <1>13, <2>1, SteadyKeepsTasks DEF SetupLands
<1>14. CASE StreamDelivers
  <2>1. tail'.generation = tail.generation
    BY <1>0, <1>14 DEF StreamDelivers, Streaming, Tails
  <2>. QED BY <1>14, <2>1, SteadyKeepsTasks DEF StreamDelivers, Streaming
<1>15. CASE StreamEnds
  <2>. DEFINE t == [tail EXCEPT !.stream = None, !.rejected = TRUE, !.push = "Poll"]
  <2>1. t \in Tails /\ t.generation = tail.generation /\ connected # None /\ tail # None
    BY <1>0, <1>15 DEF StreamEnds, Streaming, Tails
  <2>2. Upgrade(t) /\ UNCHANGED <<connected, polls, edits>>
    BY <1>15 DEF StreamEnds
  <2>. HIDE DEF t
  <2>3. Steady /\ TasksStay
    BY <2>1, <2>2, UpgradeShape
  <2>. QED BY <2>3, SteadyKeepsTasks
<1>16. CASE WatchEvent
  <2>1. tail'.generation = tail.generation /\ tail # None /\ connected # None
    BY <1>0, <1>16 DEF WatchEvent, Watching, Tails
  <2>2. \A i \in DOMAIN polls' : Started(polls'[i]) \/ \E k \in DOMAIN polls : polls'[i] = polls[k]
    BY <1>0, <1>16, <2>1, PolledTasks DEF WatchEvent
  <2>. QED BY <1>16, <2>1, <2>2, SteadyKeepsTasks DEF WatchEvent
<1>17. CASE WatchEnds
  <2>1. tail'.generation = tail.generation /\ tail # None
    BY <1>0, <1>17 DEF WatchEnds, Watching, Tails
  <2>. QED BY <1>17, <2>1, SteadyKeepsTasks DEF WatchEnds
<1>18. ASSUME NEW query \in Edited, EditPressed(query) PROVE TasksKept'
  <2>. DEFINE new == [generation |-> tail.generation, query |-> query, node |-> connected]
  <2>1. Started(new)
    BY <1>18 DEF EditPressed
  <2>2. edits' = edits \cup {new} /\ counters'.generation = counters.generation
    BY <1>18 DEF EditPressed, TypeOK
  <2>. HIDE DEF new
  <2>. QED BY <1>18, <2>1, <2>2, SteadyKeepsTasks DEF EditPressed
<1>19. ASSUME NEW e \in edits, EditLands(e) PROVE TasksKept'
  <2>1. CASE UNCHANGED <<tail, grid, views, setups, counters, strays>>
    BY <1>19, <2>1, SteadyKeepsTasks DEF EditLands
  <2>2. CASE Live(e.generation) /\ EditAdopted(e)
    <3>1. PICK t \in Tails :
             /\ t.generation = tail.generation
             /\ Upgrade(t) \/ (tail' = t /\ UNCHANGED <<setups, counters>>)
      BY <2>2, AdoptedShape
    <3>2. tail # None /\ connected # None /\ connected' = connected /\ polls' = polls
          /\ edits' \subseteq edits
      BY <1>19, <2>2 DEF Live, EditLands
    <3>3. Steady /\ TasksStay
      BY <3>1, <3>2, UpgradeShape
    <3>. QED BY <3>3, SteadyKeepsTasks
  <2>. QED BY <1>19, <2>1, <2>2 DEF EditLands
<1>20. ASSUME NEW n \in Nodes, SelectNode(n) PROVE TasksKept'
  BY <1>20, RestartKeepsTasks DEF SelectNode
<1>21. ASSUME NEW n \in Nodes, Connect(n) PROVE TasksKept'
  BY <1>21, RestartKeepsTasks DEF Connect
<1>22. CASE Disconnect
  BY <1>22, SteadyKeepsTasks DEF Disconnect
<1>23. CASE UNCHANGED vars
  BY <1>23, SteadyKeepsTasks DEF vars
<1>. QED
  BY <1>1, <1>2, <1>3, <1>4, <1>5, <1>6, <1>7, <1>8, <1>9, <1>10, <1>11, <1>12, <1>13,
     <1>14, <1>15, <1>16, <1>17, <1>18, <1>19, <1>20, <1>21, <1>22, <1>23 DEF Next

----------------------------------------------------------------------------
(* What rows that land change in the tail                                   *)

LEMMA PollShape ==
    ASSUME TypeOK, NEW i \in DOMAIN polls, PollLands(i)
    PROVE  \/ UNCHANGED <<tail, grid, strays>>
           \/ /\ tail \in Tails /\ tail.generation = polls[i].generation
              /\ Upto(polls[i]) > Above(polls[i])
              /\ tail' \in Tails
              /\ tail' = [tail EXCEPT !.last = Upto(polls[i])] /\ tail'.last = Upto(polls[i])
              /\ tail'.query = tail.query /\ tail'.push = tail.push
              /\ tail'.stream = tail.stream /\ tail'.watch = tail.watch
              /\ tail'.generation = tail.generation /\ tail'.connecting = tail.connecting
              /\ grid' = Prepended(IF polls[i].from = None THEN <<>> ELSE grid, polls[i].query,
                                   polls[i].node, Above(polls[i]), Upto(polls[i]))
              /\ strays' = IF Late(polls[i]) THEN strays \cup {"rows"} ELSE strays
<1>. SUFFICES ASSUME ~UNCHANGED <<tail, grid, strays>>
              PROVE  /\ tail \in Tails /\ tail.generation = polls[i].generation
                     /\ Upto(polls[i]) > Above(polls[i])
                     /\ tail' = [tail EXCEPT !.last = Upto(polls[i])]
                     /\ Upto(polls[i]) \in Nat
                     /\ grid' = Prepended(IF polls[i].from = None THEN <<>> ELSE grid,
                                   polls[i].query, polls[i].node, Above(polls[i]), Upto(polls[i]))
                     /\ strays' = IF Late(polls[i]) THEN strays \cup {"rows"} ELSE strays
  BY DEF Tails, Keys
<1>1. Upto(polls[i]) \in Nat
  BY PollsTyped, KeysTyped
<1>. QED BY <1>1 DEF PollLands, Above, Upto, TypeOK

LEMMA StreamShape ==
    ASSUME TypeOK, StreamDelivers
    PROVE  /\ tail \in Tails /\ tail.stream \in Streams /\ connected \in Nodes
           /\ tail.stream.seen \in Nat /\ tail.stream.query \in Queries
           /\ tail' \in Tails
           /\ tail'.last = tail.stream.seen + 1 /\ tail'.query = tail.query
           /\ tail'.push = tail.push /\ tail'.watch = tail.watch
           /\ tail'.stream = [tail.stream EXCEPT !.seen = tail.stream.seen + 1]
           /\ tail'.generation = tail.generation /\ tail'.connecting = tail.connecting
           /\ grid' = Prepended(grid, tail.stream.query, connected, tail.stream.seen,
                                tail.stream.seen + 1)
<1>1. tail \in Tails /\ tail.stream \in Streams /\ connected \in Nodes
  BY DEF StreamDelivers, Streaming, Tails, TypeOK
<1>2. tail.stream.seen \in Nat /\ tail.stream.query \in Queries
  BY <1>1 DEF Streams
<1>. DEFINE key == tail.stream.seen + 1
<1>3. key \in Nat /\ key - 1 = tail.stream.seen
  BY <1>2
<1>4. /\ tail' = [tail EXCEPT !.last = key, !.stream.seen = key]
      /\ grid' = Prepended(grid, tail.stream.query, connected, key - 1, key)
  BY DEF StreamDelivers
<1>. HIDE DEF key
<1>5. /\ tail' \in Tails /\ tail'.last = key /\ tail'.query = tail.query
      /\ tail'.push = tail.push /\ tail'.watch = tail.watch
      /\ tail'.stream = [tail.stream EXCEPT !.seen = key]
      /\ tail'.generation = tail.generation /\ tail'.connecting = tail.connecting
  BY <1>1, <1>3, <1>4 DEF Tails, Streams, Keys
<1>. QED BY <1>1, <1>2, <1>3, <1>4, <1>5 DEF key

----------------------------------------------------------------------------
(* Live views and their owners                                              *)

Watched(v) ==
    tail # None /\ connected \in {v[1], None} /\ tail.watch # None /\ tail.watch.epoch = v[2]
Promised(v) == \E s \in setups : s.view /\ <<s.node, s.epoch>> = v

PromisesStay == ("views" \in strays => "views" \in strays') /\ \A s \in setups : s.view => s \in setups'

\* A step that keeps the live view a tail listens to
LEMMA OwnersStay ==
    ASSUME ViewsAreOwned, PromisesStay, views' \subseteq views, connected' \in {connected, None},
           tail # None /\ tail.watch # None =>
              tail' # None /\ tail'.watch # None /\ tail'.watch.epoch = tail.watch.epoch
    PROVE  ViewsAreOwned'
<1>. SUFFICES ASSUME "views" \notin strays', NEW v \in views'
              PROVE  (Watched(v) \/ Promised(v))'
  BY DEF ViewsAreOwned, Watched, Promised
<1>1. Watched(v) \/ Promised(v)
  BY DEF ViewsAreOwned, Watched, Promised, PromisesStay
<1>2. Promised(v) => Promised(v)'
  BY DEF Promised, PromisesStay
<1>3. Watched(v) => Watched(v)'
  BY DEF Watched
<1>. QED BY <1>1, <1>2, <1>3

\* A step that gives up the live view a tail listened to
LEMMA OwnerLeaves ==
    ASSUME TypeOK, ViewsAreOwned, PromisesStay, views' \subseteq views,
           \/ tail = None
           \/ tail.watch = None
           \/ "views" \in strays'
           \/ connected # None /\ views' = views \ View(tail)
    PROVE  ViewsAreOwned'
<1>. SUFFICES ASSUME "views" \notin strays', NEW v \in views'
              PROVE  (Watched(v) \/ Promised(v))'
  BY DEF ViewsAreOwned, Watched, Promised
<1>1. Watched(v) \/ Promised(v)
  BY DEF ViewsAreOwned, Watched, Promised, PromisesStay
<1>2. Promised(v) => Promised(v)'
  BY DEF Promised, PromisesStay
<1>3. ~Watched(v)
  <2>1. v = <<v[1], v[2]>>
    BY DEF TypeOK
  <2>2. CASE tail # None /\ tail.watch # None /\ connected # None /\ views' = views \ View(tail)
    BY <2>1, <2>2 DEF Watched, View
  <2>. QED BY <2>2 DEF Watched
<1>. QED BY <1>1, <1>2, <1>3

LEMMA UpgradeKeepsOwners ==
    ASSUME TypeOK, ViewsAreOwned, NEW t \in Tails, Upgrade(t), tail # None, t.watch = tail.watch,
           UNCHANGED <<views, connected, strays>>
    PROVE  ViewsAreOwned'
<1>1. tail' \in Tails /\ tail'.watch = t.watch /\ setups \subseteq setups'
  BY UpgradeShape
<1>2. tail' # None
  BY <1>1, TailAssumption
<1>. QED BY <1>1, <1>2, OwnersStay DEF PromisesStay

LEMMA CreatedIsOwned ==
    ASSUME TypeOK, ViewsAreOwned, NEW s \in setups, ViewCreated(s)
    PROVE  ViewsAreOwned'
<1>. DEFINE new == [s EXCEPT !.view = TRUE]
<1>1. new.view /\ new.node = s.node /\ new.epoch = s.epoch
  BY DEF TypeOK, Setups
<1>2. setups' = (setups \ {s}) \cup {new} /\ ~s.view
  BY DEF ViewCreated
<1>3. views' = views \cup {<<s.node, s.epoch>>} /\ UNCHANGED <<connected, tail, strays>>
  BY DEF ViewCreated
<1>. HIDE DEF new
<1>. SUFFICES ASSUME "views" \notin strays', NEW v \in views'
              PROVE  (Watched(v) \/ Promised(v))'
  BY DEF ViewsAreOwned, Watched, Promised
<1>4. CASE v = <<s.node, s.epoch>>
  BY <1>1, <1>2, <1>4 DEF Promised
<1>5. CASE v \in views
  <2>1. Watched(v) \/ Promised(v)
    BY <1>3, <1>5 DEF ViewsAreOwned, Watched, Promised
  <2>2. Promised(v) => Promised(v)'
    BY <1>2 DEF Promised
  <2>3. Watched(v) => Watched(v)'
    BY <1>3 DEF Watched
  <2>. QED BY <2>1, <2>2, <2>3
<1>. QED BY <1>3, <1>4, <1>5

\* A live view is handed to the tail it was made for, on the node it was made on.
LEMMA LandedIsOwned ==
    ASSUME TypeOK, TasksKept, ViewsAreOwned, NEW s \in setups, SetupLands(s)
    PROVE  ViewsAreOwned'
<1>. SUFFICES ASSUME "views" \notin strays', NEW v \in views'
              PROVE  (Watched(v) \/ Promised(v))'
  BY DEF ViewsAreOwned, Watched, Promised
<1>1. setups' = setups \ {s} /\ UNCHANGED connected
  BY DEF SetupLands
<1>2. CASE ~Live(s.generation) /\ views' = views \ {<<s.node, s.epoch>>} /\ UNCHANGED <<tail, strays>>
  <2>1. Watched(v) \/ Promised(v)
    BY <1>2 DEF ViewsAreOwned, Watched, Promised
  <2>2. Promised(v) => Promised(v)'
    BY <1>1, <1>2 DEF Promised
  <2>3. Watched(v) => Watched(v)'
    BY <1>1, <1>2 DEF Watched
  <2>. QED BY <2>1, <2>2, <2>3
<1>3. ASSUME NEW outcome \in Outcomes(s), Live(s.generation), Adopt(s, outcome), UNCHANGED views
      PROVE  (Watched(v) \/ Promised(v))'
  <2>1. /\ tail' \in Tails
        /\ IF outcome = "Watch"
           THEN tail'.push = "Watch" /\ tail'.watch = [epoch |-> s.epoch, seen |-> None]
           ELSE ~s.view /\ tail'.watch = tail.watch
    BY <1>3, LandedShape
  <2>2. tail' # None
    BY <2>1, TailAssumption
  <2>3. /\ "views" \notin strays
        /\ outcome = "Watch" => tail.watch = None
    BY <1>3 DEF Adopt
  <2>4. Watched(v) \/ Promised(v)
    BY <1>3, <2>3 DEF ViewsAreOwned, Watched, Promised
  <2>5. Watched(v) => Watched(v)'
    BY <1>1, <2>1, <2>2, <2>3 DEF Watched
  <2>6. ASSUME NEW r \in setups \ {s}, r.view, <<r.node, r.epoch>> = v PROVE Promised(v)'
    BY <1>1, <2>6 DEF Promised
  <2>7. ASSUME s.view, <<s.node, s.epoch>> = v PROVE Watched(v)'
    <3>1. v[1] = s.node /\ v[2] = s.epoch
      BY <2>7
    <3>2. tail'.watch = [epoch |-> s.epoch, seen |-> None] /\ s.epoch \in Nat
      BY <2>1, <2>7 DEF TypeOK, Setups
    <3>3. tail'.watch # None /\ tail'.watch.epoch = s.epoch
      BY <3>2, TailAssumption DEF Watches, Keys
    <3>4. connected = s.node
      BY <1>3 DEF TasksKept, Kept, Live
    <3>. QED BY <1>1, <2>2, <3>1, <3>3, <3>4 DEF Watched
  <2>. QED BY <2>4, <2>5, <2>6, <2>7 DEF Promised
<1>. QED BY <1>2, <1>3 DEF SetupLands

LEMMA ViewsStep ==
    ASSUME TypeOK, TasksKept, ViewsAreOwned, [Next]_vars
    PROVE  ViewsAreOwned'
<1>. USE DEF PromisesStay
<1>0. (tail # None => tail \in Tails) /\ (connected # None => connected \in Nodes)
  BY DEF TypeOK
<1>1. ASSUME NEW n \in Nodes, Insert(n) PROVE ViewsAreOwned'
  BY <1>1, OwnersStay DEF Insert
<1>2. CASE Open
  BY <1>2, OwnerLeaves DEF Open
<1>3. CASE Pause
  <2>1. tail' \in Tails /\ tail'.watch = tail.watch
    BY <1>0, <1>3 DEF Pause, Tails
  <2>. QED BY <1>3, <2>1, TailAssumption, OwnersStay DEF Pause
<1>4. CASE Resume
  <2>. DEFINE t == [tail EXCEPT !.paused = FALSE]
              u == [t EXCEPT !.push = "Poll"]
  <2>1. t \in Tails /\ u \in Tails /\ t.watch = tail.watch /\ u.watch = tail.watch
    BY <1>0, <1>4 DEF Resume, Tails
  <2>2. /\ Upgrade(u) \/ (tail' \in {t, u} /\ UNCHANGED setups)
        /\ tail # None /\ UNCHANGED <<views, connected, strays>>
    BY <1>4 DEF Resume
  <2>. HIDE DEF t, u
  <2>3. CASE Upgrade(u)
    BY <2>1, <2>2, <2>3, UpgradeKeepsOwners
  <2>4. CASE tail' \in {t, u} /\ UNCHANGED setups
    BY <2>1, <2>2, <2>4, TailAssumption, OwnersStay
  <2>. QED BY <2>2, <2>3, <2>4
<1>5. CASE Stop
  <2>1. connected # None \/ tail.watch = None \/ "views" \in strays'
    BY <1>5 DEF Stop
  <2>. QED BY <1>5, <2>1, OwnerLeaves DEF Stop
<1>6. CASE Tick
  <2>1. tail' \in Tails /\ tail'.watch = tail.watch
    BY <1>0, <1>6 DEF Tick, Tails
  <2>. QED BY <1>6, <2>1, TailAssumption, OwnersStay DEF Tick
<1>7. CASE TickPaused
  <2>1. tail' \in Tails /\ tail'.watch = tail.watch
    BY <1>0, <1>7 DEF TickPaused, Tails
  <2>. QED BY <1>7, <2>1, TailAssumption, OwnersStay DEF TickPaused
<1>8. ASSUME NEW i \in DOMAIN polls, PollLands(i) PROVE ViewsAreOwned'
  <2>1. tail # None => tail' # None /\ tail'.watch = tail.watch
    BY <1>8, PollShape, TailAssumption
  <2>. QED BY <1>8, <2>1, OwnersStay DEF PollLands
<1>9. ASSUME NEW i \in DOMAIN polls, PollFails(i) PROVE ViewsAreOwned'
  BY <1>9, OwnersStay DEF PollFails
<1>10. CASE ProbeLands
  <2>1. tail' \in Tails /\ tail'.watch = tail.watch
    BY <1>0, <1>10 DEF ProbeLands, Tails
  <2>. QED BY <1>10, <2>1, TailAssumption, OwnersStay DEF ProbeLands
<1>11. CASE UpgradePressed
  BY <1>0, <1>11, UpgradeKeepsOwners DEF UpgradePressed
<1>12. ASSUME NEW s \in setups, ViewCreated(s) PROVE ViewsAreOwned'
  BY <1>12, CreatedIsOwned
<1>13. ASSUME NEW s \in setups, SetupLands(s) PROVE ViewsAreOwned'
  BY <1>13, LandedIsOwned
<1>14. CASE StreamDelivers
  <2>1. tail # None /\ tail' # None /\ tail'.watch = tail.watch
    BY <1>14, StreamShape, TailAssumption
  <2>. QED BY <1>14, <2>1, OwnersStay DEF StreamDelivers
<1>15. CASE StreamEnds
  <2>. DEFINE t == [tail EXCEPT !.stream = None, !.rejected = TRUE, !.push = "Poll"]
  <2>1. t \in Tails /\ t.watch = tail.watch /\ tail # None
    BY <1>0, <1>15 DEF StreamEnds, Streaming, Tails
  <2>2. Upgrade(t) /\ UNCHANGED <<views, connected, strays>>
    BY <1>15 DEF StreamEnds
  <2>. HIDE DEF t
  <2>. QED BY <2>1, <2>2, UpgradeKeepsOwners
<1>16. CASE WatchEvent
  <2>. DEFINE now == server[connected]
  <2>1. /\ tail' = [tail EXCEPT !.watch.seen = now] /\ tail \in Tails
        /\ tail.watch \in Watches /\ now \in Keys
    BY <1>0, <1>16 DEF WatchEvent, Watching, Tails, TypeOK, Keys
  <2>. HIDE DEF now
  <2>2. tail' \in Tails /\ tail'.watch \in Watches /\ tail'.watch.epoch = tail.watch.epoch
    BY <2>1 DEF Tails, Watches
  <2>. QED BY <1>16, <2>2, TailAssumption, OwnersStay DEF WatchEvent
<1>17. CASE WatchEnds
  BY <1>17, OwnerLeaves DEF WatchEnds, Watching
<1>18. ASSUME NEW query \in Edited, EditPressed(query) PROVE ViewsAreOwned'
  BY <1>18, OwnersStay DEF EditPressed
<1>19. ASSUME NEW e \in edits, EditLands(e) PROVE ViewsAreOwned'
  <2>1. CASE UNCHANGED <<tail, grid, views, setups, counters, strays>>
    BY <1>19, <2>1, OwnersStay DEF EditLands
  <2>2. CASE Live(e.generation) /\ EditAdopted(e)
    <3>1. setups \subseteq setups'
      BY <2>2, AdoptedShape, UpgradeShape
    <3>2. /\ connected # None /\ views' = views \ View(tail)
          /\ "views" \in strays => "views" \in strays'
      BY <2>2 DEF Live, EditAdopted
    <3>. QED BY <3>1, <3>2, OwnerLeaves
  <2>. QED BY <1>19, <2>1, <2>2 DEF EditLands
<1>20. ASSUME NEW n \in Nodes, SelectNode(n) PROVE ViewsAreOwned'
  BY <1>20, OwnerLeaves DEF SelectNode
<1>21. ASSUME NEW n \in Nodes, Connect(n) PROVE ViewsAreOwned'
  BY <1>21, OwnerLeaves DEF Connect
<1>22. CASE Disconnect
  BY <1>22, OwnersStay DEF Disconnect
<1>23. CASE UNCHANGED vars
  BY <1>23, OwnersStay DEF vars
<1>. QED
  BY <1>1, <1>2, <1>3, <1>4, <1>5, <1>6, <1>7, <1>8, <1>9, <1>10, <1>11, <1>12, <1>13,
     <1>14, <1>15, <1>16, <1>17, <1>18, <1>19, <1>20, <1>21, <1>22, <1>23 DEF Next

----------------------------------------------------------------------------
(* Who pushes                                                               *)

\* A stream goes on from the last key seen, or from an empty grid.
StreamFits ==
    tail.stream # None =>
       /\ tail.stream.query = tail.query /\ tail.push = "Stream" /\ tail.watch = None
       /\ IF tail.last = None THEN tail.stream.seen = 0 /\ grid = <<>>
                              ELSE tail.stream.seen = tail.last
WatchFits == tail.watch # None => tail.push = "Watch"
\* A stream that is on its way will do so too: nothing moves the tail meanwhile.
SetupsFit ==
    \A s \in setups : s.streamed /\ s.generation = tail.generation =>
       /\ s.from = tail.last /\ s.query = tail.query
       /\ tail.push = "Stream" /\ tail.connecting /\ tail.stream = None /\ tail.watch = None
PushKept == tail # None /\ "rows" \notin strays => StreamFits /\ WatchFits /\ SetupsFit

NoStreamComes(generation) ==
    \A s \in setups : ~(s.streamed /\ s.generation = generation)

LEMMA NothingStreams ==
    ASSUME tail' # None /\ "rows" \notin strays' =>
              /\ tail'.stream = None /\ (tail'.watch # None => tail'.push = "Watch")
              /\ NoStreamComes(tail.generation)'
    PROVE  PushKept'
BY DEF PushKept, StreamFits, WatchFits, SetupsFit, NoStreamComes

LEMMA UpgradeFits ==
    ASSUME TypeOK, NEW t \in Tails, Upgrade(t),
           "rows" \notin strays' => t.stream = None /\ t.watch = None /\ NoStreamComes(t.generation)
    PROVE  PushKept'
<1>1. /\ tail'.generation = t.generation /\ tail'.watch = t.watch
      /\ tail'.stream = t.stream /\ tail'.last = t.last /\ tail'.query = t.query
      /\ \A s \in setups' : s \in setups \/
            /\ s.generation = t.generation /\ s.node = connected /\ ~s.view
            /\ s.from = t.last /\ s.query = t.query
            /\ s.streamed => tail'.push = "Stream" /\ tail'.connecting
  BY UpgradeShape
<1>. SUFFICES ASSUME "rows" \notin strays' PROVE (StreamFits /\ WatchFits /\ SetupsFit)'
  BY DEF PushKept
<1>. QED BY <1>1 DEF StreamFits, WatchFits, SetupsFit, NoStreamComes

\* A step that leaves who pushes, the last key and the rows on show as they are, but
\* for a stream that is closed
Quiet ==
    /\ tail' # None =>
          /\ tail # None /\ tail'.query = tail.query /\ tail'.last = tail.last
          /\ tail'.push = tail.push /\ tail'.stream \in {tail.stream, None}
          /\ tail'.watch = None <=> tail.watch = None
          /\ tail'.generation = tail.generation /\ tail'.connecting = tail.connecting
          /\ grid' = grid
    /\ strays \subseteq strays'
    /\ \A s \in setups' : s.streamed => \E r \in setups :
          r.streamed /\ r.generation = s.generation /\ r.from = s.from /\ r.query = s.query

LEMMA QuietStep ==
    ASSUME PushKept, Quiet
    PROVE  PushKept'
<1>. SUFFICES ASSUME tail' # None, "rows" \notin strays'
              PROVE  (StreamFits /\ WatchFits /\ SetupsFit)'
  BY DEF PushKept
<1>1. StreamFits /\ WatchFits /\ SetupsFit /\ tail # None
  BY DEF PushKept, Quiet
<1>2. StreamFits' /\ WatchFits'
  BY <1>1 DEF Quiet, StreamFits, WatchFits
<1>3. SetupsFit'
  BY <1>1 DEF Quiet, SetupsFit
<1>. QED BY <1>2, <1>3

\* While a timer polls, or a live view pushes, no stream is there or on its way.
LEMMA NoStream ==
    ASSUME PushKept, tail # None, "rows" \notin strays, tail.push # "Stream"
    PROVE  tail.stream = None /\ WatchFits /\ NoStreamComes(tail.generation)
BY DEF PushKept, StreamFits, WatchFits, SetupsFit, NoStreamComes

LEMMA LandedPushes ==
    ASSUME TypeOK, PushKept, NEW s \in setups, SetupLands(s)
    PROVE  PushKept'
<1>1. setups' = setups \ {s} /\ UNCHANGED <<grid, connected>>
  BY DEF SetupLands
<1>2. CASE ~Live(s.generation) /\ UNCHANGED <<tail, strays>>
  <2>1. Quiet
    BY <1>1, <1>2 DEF Quiet
  <2>. QED BY <2>1, QuietStep
<1>3. ASSUME NEW outcome \in Outcomes(s), Live(s.generation), Adopt(s, outcome)
      PROVE  PushKept'
  <2>. SUFFICES ASSUME tail' # None, "rows" \notin strays'
                PROVE  (StreamFits /\ WatchFits /\ SetupsFit)'
    BY DEF PushKept
  <2>1. "rows" \notin strays /\ ~Overtaken(s, outcome)
    BY <1>3 DEF Adopt
  <2>2. /\ tail # None /\ tail.generation = s.generation
        /\ tail.stream = None /\ tail.watch = None
        /\ \A r \in setups \ {s} : r.generation # s.generation
        /\ outcome = "Stream" => s.from # None \/ grid = <<>>
    BY <1>3, <2>1 DEF Overtaken, Live
  <2>3. /\ tail'.generation = tail.generation /\ tail'.query = tail.query
        /\ tail'.last = tail.last
        /\ outcome \in {"Stream", "Watch", "FastPoll", "Error"}
        /\ IF outcome = "Stream"
           THEN /\ s.streamed /\ tail'.push = "Stream"
                /\ tail'.stream = [epoch |-> s.epoch, query |-> s.query,
                                   seen |-> IF s.from = None THEN 0 ELSE s.from]
           ELSE tail'.stream = tail.stream
        /\ IF outcome = "Watch"
           THEN tail'.push = "Watch" /\ tail'.watch = [epoch |-> s.epoch, seen |-> None]
           ELSE ~s.view /\ tail'.watch = tail.watch
    BY <1>3, LandedShape
  <2>4. NoStreamComes(tail.generation)'
    BY <1>1, <2>2, <2>3 DEF NoStreamComes
  <2>5. SetupsFit'
    BY <2>4 DEF SetupsFit, NoStreamComes
  <2>6. WatchFits'
    BY <2>2, <2>3 DEF WatchFits
  <2>7. CASE outcome = "Stream"
    <3>1. s.from = tail.last /\ s.query = tail.query
      BY <2>1, <2>2, <2>3, <2>7 DEF PushKept, SetupsFit
    <3>2. /\ tail'.stream.query = tail'.query /\ tail'.push = "Stream" /\ tail'.watch = None
          /\ tail'.stream.seen = IF s.from = None THEN 0 ELSE s.from
      BY <2>2, <2>3, <2>7, <3>1
    <3>. QED BY <1>1, <2>2, <2>3, <2>5, <2>6, <2>7, <3>1, <3>2 DEF StreamFits
  <2>8. CASE outcome # "Stream"
    BY <2>2, <2>3, <2>5, <2>6, <2>8 DEF StreamFits
  <2>. QED BY <2>7, <2>8
<1>. QED BY <1>2, <1>3 DEF SetupLands

LEMMA DeliveredPushes ==
    ASSUME TypeOK, PushKept, StreamDelivers
    PROVE  PushKept'
<1>. SUFFICES ASSUME "rows" \notin strays' PROVE (StreamFits /\ WatchFits /\ SetupsFit)'
  BY DEF PushKept
<1>1. /\ tail.stream # None /\ tail # None /\ "rows" \notin strays
      /\ UNCHANGED setups
  BY DEF StreamDelivers, Streaming
<1>2. StreamFits /\ WatchFits /\ SetupsFit
  BY <1>1 DEF PushKept
<1>3. /\ tail.stream \in Streams /\ tail.stream.seen \in Nat
      /\ tail'.last = tail.stream.seen + 1 /\ tail'.query = tail.query
      /\ tail'.push = tail.push /\ tail'.watch = tail.watch
      /\ tail'.stream = [tail.stream EXCEPT !.seen = tail.stream.seen + 1]
      /\ tail'.generation = tail.generation
  BY StreamShape
<1>4. tail'.stream.query = tail.stream.query /\ tail'.stream.seen = tail.stream.seen + 1
  BY <1>3 DEF Streams
<1>5. tail'.last # None
  BY <1>3, TailAssumption
<1>6. StreamFits' /\ WatchFits'
  BY <1>1, <1>2, <1>3, <1>4, <1>5 DEF StreamFits, WatchFits
<1>7. SetupsFit'
  BY <1>1, <1>2, <1>3 DEF SetupsFit
<1>. QED BY <1>6, <1>7

\* A restart gives the tail a generation no upgrade was asked for.
LEMMA RestartPushes ==
    ASSUME TypeOK, TasksKept, NEW query \in Queries,
           tail' = Fresh(query, counters.generation + 1), setups' = setups
    PROVE  PushKept'
<1>1. counters.generation \in Nat
  BY DEF TypeOK
<1>2. /\ tail'.generation = counters.generation + 1
      /\ tail'.stream = None /\ tail'.watch = None
  BY DEF Fresh
<1>3. \A s \in setups : s.generation \in Nat /\ s.generation =< counters.generation
  BY DEF TypeOK, Setups, TasksKept, Kept
<1>4. NoStreamComes(tail.generation)'
  BY <1>1, <1>2, <1>3 DEF NoStreamComes
<1>. QED BY <1>2, <1>4, NothingStreams

LEMMA EditedPushes ==
    ASSUME TypeOK, PushKept, NEW e \in edits, Live(e.generation), EditAdopted(e)
    PROVE  PushKept'
<1>1. PICK t \in Tails :
        /\ t.generation = tail.generation /\ t.stream = None /\ t.watch = None
        /\ \/ Upgrade(t)
           \/ tail' = t /\ UNCHANGED <<setups, counters>>
  BY AdoptedShape
<1>2. "rows" \notin strays' => NoStreamComes(tail.generation)
  BY DEF EditAdopted, Connecting, NoStreamComes
<1>3. CASE Upgrade(t)
  BY <1>1, <1>2, <1>3, UpgradeFits
<1>4. CASE tail' = t /\ UNCHANGED <<setups, counters>>
  <2>1. "rows" \notin strays' => NoStreamComes(tail.generation)'
    BY <1>1, <1>2, <1>4 DEF NoStreamComes
  <2>. QED BY <1>1, <1>4, <2>1, NothingStreams
<1>. QED BY <1>1, <1>3, <1>4

LEMMA ResumedPushes ==
    ASSUME TypeOK, PushKept, Resume
    PROVE  PushKept'
<1>. DEFINE t == [tail EXCEPT !.paused = FALSE]
            u == [t EXCEPT !.push = "Poll"]
<1>1. tail \in Tails /\ tail # None
  BY DEF TypeOK, Resume
<1>2. /\ t \in Tails /\ t.query = tail.query /\ t.last = tail.last /\ t.push = tail.push
      /\ t.stream = tail.stream /\ t.watch = tail.watch /\ t.generation = tail.generation
      /\ t.connecting = tail.connecting
  BY <1>1 DEF Tails
<1>3. /\ u \in Tails /\ u.stream = tail.stream /\ u.watch = tail.watch
      /\ u.generation = tail.generation
  BY <1>1 DEF Tails
<1>4. /\ \/ /\ t.push = "Stream" /\ t.stream = None /\ ~t.connecting
            /\ Upgrade(u) \/ (tail' = u /\ UNCHANGED setups)
         \/ tail' = t /\ UNCHANGED setups
      /\ UNCHANGED <<grid, strays>>
  BY DEF Resume
<1>. HIDE DEF t, u
<1>5. CASE tail' = t /\ UNCHANGED setups
  <2>1. Quiet
    BY <1>1, <1>2, <1>4, <1>5 DEF Quiet
  <2>. QED BY <2>1, QuietStep
<1>6. CASE /\ t.push = "Stream" /\ t.stream = None /\ ~t.connecting
           /\ Upgrade(u) \/ (tail' = u /\ UNCHANGED setups)
  <2>1. "rows" \notin strays => /\ u.stream = None /\ u.watch = None
                                /\ NoStreamComes(tail.generation)
    BY <1>1, <1>2, <1>3, <1>6 DEF PushKept, WatchFits, SetupsFit, NoStreamComes
  <2>2. CASE Upgrade(u)
    BY <1>3, <1>4, <2>1, <2>2, UpgradeFits
  <2>3. CASE tail' = u /\ UNCHANGED setups
    <3>1. "rows" \notin strays' => NoStreamComes(tail.generation)'
      BY <1>3, <1>4, <2>1, <2>3 DEF NoStreamComes
    <3>. QED BY <1>3, <1>4, <2>1, <2>3, <3>1, NothingStreams
  <2>. QED BY <1>6, <2>2, <2>3
<1>. QED BY <1>4, <1>5, <1>6

LEMMA PushStep ==
    ASSUME TypeOK, TasksKept, PushKept, [Next]_vars
    PROVE  PushKept'
<1>0. tail # None => tail \in Tails
  BY DEF TypeOK
<1>1. ASSUME NEW n \in Nodes, Insert(n) PROVE PushKept'
  BY <1>1, QuietStep DEF Insert, Quiet
<1>2. CASE Open
  BY <1>2, RestartPushes DEF Open, Queries
<1>3. CASE Pause
  <2>1. /\ tail'.query = tail.query /\ tail'.last = tail.last
        /\ tail'.push = tail.push /\ tail'.stream \in {tail.stream, None}
        /\ tail'.watch = tail.watch
        /\ tail'.generation = tail.generation /\ tail'.connecting = tail.connecting
    BY <1>0, <1>3 DEF Pause, Tails
  <2>. QED BY <1>3, <2>1, QuietStep DEF Pause, Quiet
<1>4. CASE Resume
  BY <1>4, ResumedPushes
<1>5. CASE Stop
  BY <1>5 DEF Stop, PushKept
<1>6. CASE Tick \/ TickPaused
  <2>1. CASE tail' = tail
    BY <1>6, <2>1, QuietStep DEF Tick, TickPaused, Quiet
  <2>2. CASE tail.push = "Fast" /\ tail' = [tail EXCEPT !.push = "Poll", !.available = None]
    <3>1. tail # None /\ UNCHANGED <<setups, strays>>
      BY <1>6 DEF Tick, TickPaused
    <3>2. /\ tail'.stream = tail.stream /\ tail'.watch = tail.watch
          /\ tail'.generation = tail.generation
      BY <1>0, <2>2, <3>1 DEF Tails
    <3>3. "rows" \notin strays =>
             tail.stream = None /\ tail.watch = None /\ NoStreamComes(tail.generation)
      BY <2>2, <3>1, NoStream DEF WatchFits
    <3>4. "rows" \notin strays' => NoStreamComes(tail.generation)'
      BY <3>1, <3>2, <3>3 DEF NoStreamComes
    <3>. QED BY <3>1, <3>2, <3>3, <3>4, NothingStreams
  <2>. QED BY <1>6, <2>1, <2>2 DEF Tick, TickPaused
<1>8. ASSUME NEW i \in DOMAIN polls, PollLands(i) PROVE PushKept'
  <2>1. CASE UNCHANGED <<tail, grid, strays>>
    BY <1>8, <2>1, QuietStep DEF PollLands, Quiet
  <2>2. CASE ~UNCHANGED <<tail, grid, strays>>
    <3>1. /\ tail \in Tails /\ tail'.push = tail.push
          /\ tail'.stream = tail.stream /\ tail'.watch = tail.watch
          /\ tail'.generation = tail.generation
          /\ strays' = IF Late(polls[i]) THEN strays \cup {"rows"} ELSE strays
      BY <1>8, <2>2, PollShape
    <3>2. setups' = setups /\ tail # None
      BY <1>8, <3>1, TailAssumption DEF PollLands
    <3>3. "rows" \notin strays' => "rows" \notin strays /\ tail.push # "Stream"
      BY <3>1 DEF Late
    <3>4. "rows" \notin strays' =>
             tail.stream = None /\ WatchFits /\ NoStreamComes(tail.generation)
      BY <3>2, <3>3, NoStream
    <3>5. "rows" \notin strays' => NoStreamComes(tail.generation)'
      BY <3>1, <3>2, <3>4 DEF NoStreamComes
    <3>. QED BY <3>1, <3>4, <3>5, NothingStreams DEF WatchFits
  <2>. QED BY <2>1, <2>2
<1>9. ASSUME NEW i \in DOMAIN polls, PollFails(i) PROVE PushKept'
  BY <1>9, QuietStep DEF PollFails, Quiet
<1>10. CASE ProbeLands
  <2>1. /\ tail'.query = tail.query /\ tail'.last = tail.last
        /\ tail'.push = tail.push /\ tail'.stream = tail.stream
        /\ tail'.watch = tail.watch
        /\ tail'.generation = tail.generation /\ tail'.connecting = tail.connecting
    BY <1>0, <1>10 DEF ProbeLands, Tails
  <2>. QED BY <1>10, <2>1, QuietStep DEF ProbeLands, Quiet
<1>11. CASE UpgradePressed
  <2>1. "rows" \notin strays' =>
           tail.stream = None /\ tail.watch = None /\ NoStreamComes(tail.generation)
    BY <1>11, NoStream DEF UpgradePressed, WatchFits
  <2>. QED BY <1>0, <1>11, <2>1, UpgradeFits DEF UpgradePressed
<1>12. ASSUME NEW s \in setups, ViewCreated(s) PROVE PushKept'
  <2>. DEFINE new == [s EXCEPT !.view = TRUE]
  <2>1. /\ new.generation = s.generation /\ new.from = s.from /\ new.query = s.query
        /\ new.streamed = s.streamed
    BY DEF TypeOK, Setups
  <2>2. setups' \subseteq setups \cup {new} /\ UNCHANGED <<tail, grid, strays>>
    BY <1>12 DEF ViewCreated
  <2>. HIDE DEF new
  <2>3. Quiet
    BY <2>1, <2>2 DEF Quiet
  <2>. QED BY <2>3, QuietStep
<1>13. ASSUME NEW s \in setups, SetupLands(s) PROVE PushKept'
  BY <1>13, LandedPushes
<1>14. CASE StreamDelivers
  BY <1>14, DeliveredPushes
<1>15. CASE StreamEnds
  <2>. DEFINE t == [tail EXCEPT !.stream = None, !.rejected = TRUE, !.push = "Poll"]
  <2>1. /\ t \in Tails /\ t.watch = tail.watch /\ t.stream = None
        /\ t.generation = tail.generation /\ tail # None /\ tail.stream # None
    BY <1>0, <1>15 DEF StreamEnds, Streaming, Tails
  <2>2. Upgrade(t) /\ UNCHANGED strays
    BY <1>15 DEF StreamEnds
  <2>. HIDE DEF t
  <2>3. "rows" \notin strays' => t.watch = None /\ NoStreamComes(t.generation)
    BY <2>1, <2>2 DEF PushKept, StreamFits, SetupsFit, NoStreamComes
  <2>. QED BY <2>1, <2>2, <2>3, UpgradeFits
<1>16. CASE WatchEvent
  <2>. DEFINE now == server[connected]
  <2>1. /\ tail' = [tail EXCEPT !.watch.seen = now] /\ tail \in Tails
        /\ tail.watch \in Watches /\ now \in Keys /\ tail.watch # None
        /\ UNCHANGED <<grid, setups, strays>> /\ tail # None
    BY <1>0, <1>16 DEF WatchEvent, Watching, Tails, TypeOK, Keys
  <2>. HIDE DEF now
  <2>2. /\ tail'.query = tail.query /\ tail'.last = tail.last
        /\ tail'.push = tail.push /\ tail'.stream = tail.stream
        /\ tail'.generation = tail.generation /\ tail'.connecting = tail.connecting
        /\ tail'.watch \in Watches
    BY <2>1 DEF Tails, Watches
  <2>. QED BY <2>1, <2>2, TailAssumption, QuietStep DEF Quiet
<1>17. CASE WatchEnds
  <2>1. /\ tail'.stream = tail.stream /\ tail'.watch = None
        /\ tail'.generation = tail.generation
        /\ tail # None /\ tail.watch # None /\ UNCHANGED <<setups, strays>>
    BY <1>0, <1>17 DEF WatchEnds, Watching, Tails
  <2>2. "rows" \notin strays =>
           tail.push # "Stream" /\ tail.stream = None /\ NoStreamComes(tail.generation)
    BY <2>1, NoStream DEF PushKept, WatchFits
  <2>3. "rows" \notin strays' => NoStreamComes(tail.generation)'
    BY <2>1, <2>2 DEF NoStreamComes
  <2>. QED BY <2>1, <2>2, <2>3, NothingStreams
<1>18. ASSUME NEW query \in Edited, EditPressed(query) PROVE PushKept'
  BY <1>18, QuietStep DEF EditPressed, Quiet
<1>19. ASSUME NEW e \in edits, EditLands(e) PROVE PushKept'
  <2>1. CASE UNCHANGED <<tail, grid, views, setups, counters, strays>>
    BY <1>19, <2>1, QuietStep DEF EditLands, Quiet
  <2>2. CASE Live(e.generation) /\ EditAdopted(e)
    BY <2>2, EditedPushes
  <2>. QED BY <1>19, <2>1, <2>2 DEF EditLands
<1>20. ASSUME NEW n \in Nodes, SelectNode(n) \/ Connect(n) PROVE PushKept'
  <2>1. CASE tail = None /\ UNCHANGED tail
    BY <2>1 DEF PushKept
  <2>2. CASE tail # None /\ tail' = Fresh(tail.query, counters.generation + 1)
    <3>1. tail.query \in Queries /\ setups' = setups
      BY <1>0, <1>20, <2>2 DEF Tails, SelectNode, Connect
    <3>. QED BY <2>2, <3>1, RestartPushes
  <2>. QED BY <1>20, <2>1, <2>2 DEF SelectNode, Connect, Restart
<1>22. CASE Disconnect
  BY <1>22, QuietStep DEF Disconnect, Quiet
<1>23. CASE UNCHANGED vars
  BY <1>23, QuietStep DEF vars, Quiet
<1>. QED
  BY <1>1, <1>2, <1>3, <1>4, <1>5, <1>6, <1>8, <1>9, <1>10, <1>11, <1>12, <1>13,
     <1>14, <1>15, <1>16, <1>17, <1>18, <1>19, <1>20, <1>22, <1>23 DEF Next

----------------------------------------------------------------------------
(* The rows on show                                                         *)

LEMMA ShownIsExact ==
    ShownExactly <=> (tail # None /\ "rows" \notin strays /\ tail.last # None
                      => Exactly(grid, tail.query, tail.last, connected))
BY DEF ShownExactly, Exactly

\* A step that changes neither the query, nor the last key, nor the rows on show
LEMMA SameShown ==
    ASSUME ShownExactly, strays \subseteq strays',
           tail' # None => /\ tail # None /\ tail'.query = tail.query /\ tail'.last = tail.last
                           /\ grid' = grid /\ connected' \in {connected, None}
    PROVE  ShownExactly'
BY DEF ShownExactly

\* Rows that land go on from the rows on show: those of the node that is active.
LEMMA LandedShown ==
    ASSUME TypeOK, ShownExactly,
           tail \in Tails, tail' \in Tails, connected' = connected, strays \subseteq strays',
           NEW n \in Nodes, NEW above \in Nat, NEW upto \in Nat, above < upto,
           connected \in {None, n}, tail'.last = upto, tail'.query = tail.query,
           NEW old \in Seq(Shown), NEW query \in Queries,
           "rows" \notin strays' => query = tail.query /\ (old = <<>> \/ (old = grid /\ tail.last = above)),
           grid' = Prepended(old, query, n, above, upto)
    PROVE  ShownExactly'
<1>. SUFFICES ASSUME "rows" \notin strays'
              PROVE  Exactly(grid', tail'.query, tail'.last, connected')
  BY DEF ShownExactly, Exactly
<1>1. tail # None /\ above # None
  BY TailAssumption
<1>2. old = <<>> \/ Exactly(old, query, above, connected)
  BY <1>1, ShownIsExact
<1>. QED BY <1>2, PrependedExactly

LEMMA PollShown ==
    ASSUME TypeOK, TasksKept, ShownExactly, NEW i \in DOMAIN polls, PollLands(i)
    PROVE  ShownExactly'
<1>1. connected' = connected
  BY DEF PollLands
<1>2. CASE UNCHANGED <<tail, grid, strays>>
  BY <1>1, <1>2, SameShown
<1>3. CASE ~UNCHANGED <<tail, grid, strays>>
  <2>. DEFINE p == polls[i]
              old == IF p.from = None THEN <<>> ELSE grid
  <2>1. /\ tail \in Tails /\ tail.generation = p.generation /\ Upto(p) > Above(p)
        /\ tail' \in Tails /\ tail'.last = Upto(p) /\ tail'.query = tail.query
        /\ grid' = Prepended(old, p.query, p.node, Above(p), Upto(p))
        /\ strays' = IF Late(p) THEN strays \cup {"rows"} ELSE strays
    BY <1>3, PollShape
  <2>2. p \in Polls /\ p.node \in Nodes /\ p.query \in Queries
        /\ Above(p) \in Nat /\ Upto(p) \in Nat
    BY PollsTyped, KeysTyped DEF Polls
  <2>3. connected \in {None, p.node}
    BY <2>1, TailAssumption DEF TasksKept, Kept
  <2>4. old \in Seq(Shown)
    BY NothingShown DEF TypeOK, Shown
  <2>5. "rows" \notin strays' => /\ p.query = tail.query
                                 /\ old = <<>> \/ (old = grid /\ tail.last = Above(p))
    BY <2>1 DEF Late, Above
  <2>6. Above(p) < Upto(p) /\ strays \subseteq strays'
    BY <2>1, <2>2
  <2>. HIDE DEF p, old
  <2>. QED BY <1>1, <2>1, <2>2, <2>3, <2>4, <2>5, <2>6, LandedShown
<1>. QED BY <1>2, <1>3

LEMMA StreamShown ==
    ASSUME TypeOK, PushKept, ShownExactly, StreamDelivers
    PROVE  ShownExactly'
<1>. DEFINE seen == tail.stream.seen
<1>1. /\ tail \in Tails /\ connected \in Nodes /\ seen \in Nat /\ tail.stream.query \in Queries
      /\ tail' \in Tails /\ tail'.last = seen + 1 /\ tail'.query = tail.query
      /\ grid' = Prepended(grid, tail.stream.query, connected, seen, seen + 1)
  BY StreamShape
<1>2. UNCHANGED <<connected, strays>> /\ tail # None /\ tail.stream # None
  BY DEF StreamDelivers, Streaming
<1>3. "rows" \notin strays' => /\ tail.stream.query = tail.query
                               /\ grid = <<>> \/ tail.last = seen
  BY <1>2 DEF PushKept, StreamFits
<1>4. grid \in Seq(Shown)
  BY DEF TypeOK, Shown
<1>. HIDE DEF seen
<1>5. seen + 1 \in Nat /\ seen < seen + 1
  BY <1>1
<1>. QED BY <1>1, <1>2, <1>3, <1>4, <1>5, LandedShown

LEMMA EditShown ==
    ASSUME TypeOK, TasksKept, NEW e \in edits, Live(e.generation), EditAdopted(e),
           connected' = connected
    PROVE  ShownExactly'
<1>. DEFINE rows == server[e.node]
<1>1. PICK t \in Tails :
        /\ t.query = e.query /\ t.last = IF rows = 0 THEN None ELSE rows
        /\ \/ Upgrade(t)
           \/ tail' = t /\ UNCHANGED <<setups, counters>>
  BY AdoptedShape
<1>2. tail'.query = e.query /\ tail'.last = IF rows = 0 THEN None ELSE rows
  BY <1>1, UpgradeShape
<1>3. /\ rows \in Nat /\ e.query \in Queries /\ e.node \in Nodes
      /\ SeedFrom(rows) \in Nat /\ (rows > 0 => SeedFrom(rows) < rows)
  BY SeedBelow DEF TypeOK, Edits
<1>4. connected \in {None, e.node}
  BY DEF TasksKept, Kept, Live
<1>5. grid' = Prepended(<<>>, e.query, e.node, SeedFrom(rows), rows)
  BY DEF EditAdopted
<1>6. <<>> \in Seq(Shown)
  BY NothingShown DEF Shown
<1>. HIDE DEF rows
<1>7. tail'.last # None => Exactly(grid', e.query, rows, connected)
  <2>. SUFFICES ASSUME rows > 0 PROVE Exactly(grid', e.query, rows, connected)
    BY <1>2, <1>3
  <2>. QED BY <1>3, <1>4, <1>5, <1>6, PrependedExactly
<1>. QED BY <1>2, <1>7 DEF ShownExactly, Exactly

LEMMA ShownStep ==
    ASSUME TypeOK, TasksKept, PushKept, ShownExactly, [Next]_vars
    PROVE  ShownExactly'
<1>0. (tail # None => tail \in Tails)
  BY DEF TypeOK
<1>1. ASSUME NEW n \in Nodes, Insert(n) PROVE ShownExactly'
  BY <1>1, SameShown DEF Insert
<1>2. CASE Open
  BY <1>2 DEF Open, Fresh, ShownExactly
<1>3. CASE Pause
  <2>1. tail'.query = tail.query /\ tail'.last = tail.last
    BY <1>0, <1>3 DEF Pause, Tails
  <2>. QED BY <1>3, <2>1, SameShown DEF Pause
<1>4. CASE Resume
  <2>. DEFINE t == [tail EXCEPT !.paused = FALSE]
              u == [t EXCEPT !.push = "Poll"]
  <2>1. /\ t \in Tails /\ t.query = tail.query /\ t.last = tail.last
        /\ u \in Tails /\ u.query = tail.query /\ u.last = tail.last
    BY <1>0, <1>4 DEF Resume, Tails
  <2>2. /\ Upgrade(u) \/ tail' \in {t, u}
        /\ tail # None /\ UNCHANGED <<grid, connected, strays>>
    BY <1>4 DEF Resume
  <2>. HIDE DEF t, u
  <2>3. tail'.query = tail.query /\ tail'.last = tail.last
    BY <2>1, <2>2, UpgradeShape
  <2>. QED BY <2>2, <2>3, SameShown
<1>5. CASE Stop
  BY <1>5 DEF Stop, ShownExactly
<1>6. CASE Tick \/ TickPaused
  <2>1. tail # None /\ tail'.query = tail.query /\ tail'.last = tail.last
    BY <1>0, <1>6 DEF Tick, TickPaused, Tails
  <2>. QED BY <1>6, <2>1, SameShown DEF Tick, TickPaused
<1>8. ASSUME NEW i \in DOMAIN polls, PollLands(i) PROVE ShownExactly'
  BY <1>8, PollShown
<1>9. ASSUME NEW i \in DOMAIN polls, PollFails(i) PROVE ShownExactly'
  BY <1>9, SameShown DEF PollFails
<1>10. CASE ProbeLands
  <2>1. tail'.query = tail.query /\ tail'.last = tail.last
    BY <1>0, <1>10 DEF ProbeLands, Tails
  <2>. QED BY <1>10, <2>1, SameShown DEF ProbeLands
<1>11. CASE UpgradePressed
  <2>1. tail # None /\ tail'.query = tail.query /\ tail'.last = tail.last
    BY <1>0, <1>11, UpgradeShape DEF UpgradePressed
  <2>. QED BY <1>11, <2>1, SameShown DEF UpgradePressed
<1>12. ASSUME NEW s \in setups, ViewCreated(s) PROVE ShownExactly'
  BY <1>12, SameShown DEF ViewCreated
<1>13. ASSUME NEW s \in setups, SetupLands(s) PROVE ShownExactly'
  <2>1. CASE UNCHANGED <<tail, strays>>
    BY <1>13, <2>1, SameShown DEF SetupLands
  <2>2. ASSUME NEW outcome \in Outcomes(s), Live(s.generation), Adopt(s, outcome)
        PROVE  ShownExactly'
    <3>1. tail # None /\ tail'.query = tail.query /\ tail'.last = tail.last
      BY <2>2, LandedShape DEF Live
    <3>2. strays \subseteq strays'
      BY <2>2 DEF Adopt
    <3>. QED BY <1>13, <3>1, <3>2, SameShown DEF SetupLands
  <2>. QED BY <1>13, <2>1, <2>2 DEF SetupLands
<1>14. CASE StreamDelivers
  BY <1>14, StreamShown
<1>15. CASE StreamEnds
  <2>. DEFINE t == [tail EXCEPT !.stream = None, !.rejected = TRUE, !.push = "Poll"]
  <2>1. t \in Tails /\ t.query = tail.query /\ t.last = tail.last /\ tail # None
    BY <1>0, <1>15 DEF StreamEnds, Streaming, Tails
  <2>2. Upgrade(t) /\ UNCHANGED <<grid, connected, strays>>
    BY <1>15 DEF StreamEnds
  <2>. HIDE DEF t
  <2>3. tail'.query = tail.query /\ tail'.last = tail.last
    BY <2>1, <2>2, UpgradeShape
  <2>. QED BY <2>1, <2>2, <2>3, SameShown
<1>16. CASE WatchEvent
  <2>1. tail # None /\ tail'.query = tail.query /\ tail'.last = tail.last
    BY <1>0, <1>16 DEF WatchEvent, Watching, Tails
  <2>. QED BY <1>16, <2>1, SameShown DEF WatchEvent
<1>17. CASE WatchEnds
  <2>1. tail # None /\ tail'.query = tail.query /\ tail'.last = tail.last
    BY <1>0, <1>17 DEF WatchEnds, Watching, Tails
  <2>. QED BY <1>17, <2>1, SameShown DEF WatchEnds
<1>18. ASSUME NEW query \in Edited, EditPressed(query) PROVE ShownExactly'
  BY <1>18, SameShown DEF EditPressed
<1>19. ASSUME NEW e \in edits, EditLands(e) PROVE ShownExactly'
  <2>1. CASE UNCHANGED <<tail, grid, views, setups, counters, strays>>
    BY <1>19, <2>1, SameShown DEF EditLands
  <2>2. CASE Live(e.generation) /\ EditAdopted(e)
    BY <1>19, <2>2, EditShown DEF EditLands
  <2>. QED BY <1>19, <2>1, <2>2 DEF EditLands
<1>20. ASSUME NEW n \in Nodes, SelectNode(n) \/ Connect(n) PROVE ShownExactly'
  BY <1>20 DEF SelectNode, Connect, Restart, Fresh, ShownExactly
<1>22. CASE Disconnect
  BY <1>22, SameShown DEF Disconnect
<1>23. CASE UNCHANGED vars
  BY <1>23, SameShown DEF vars
<1>. QED
  BY <1>1, <1>2, <1>3, <1>4, <1>5, <1>6, <1>8, <1>9, <1>10, <1>11, <1>12, <1>13,
     <1>14, <1>15, <1>16, <1>17, <1>18, <1>19, <1>20, <1>22, <1>23 DEF Next

----------------------------------------------------------------------------
(* The theorems                                                             *)

Inductive == TypeOK /\ TasksKept /\ PushKept /\ ShownExactly /\ ViewsAreOwned

LEMMA InductiveInitially == Init => Inductive
<1>. SUFFICES ASSUME Init PROVE Inductive
  OBVIOUS
<1>1. polls = <<>> /\ setups = {} /\ edits = {} /\ views = {} /\ tail = None
  BY DEF Init
<1>2. TasksKept
  BY <1>1, EmptySeq DEF TasksKept
<1>. QED BY <1>1, <1>2, InitiallyTyped DEF Inductive, PushKept, ShownExactly, ViewsAreOwned

LEMMA InductiveStep == Inductive /\ [Next]_vars => Inductive'
BY TypesKept, TasksStep, PushStep, ShownStep, ViewsStep DEF Inductive

LEMMA InductiveHolds == Spec => []Inductive
BY InductiveInitially, InductiveStep, PTL DEF Spec

\* Every variable keeps its type.
THEOREM TypeCorrect == Spec => []TypeOK
<1>1. Inductive => TypeOK
  BY DEF Inductive
<1>. QED BY <1>1, InductiveHolds, PTL

\* The rows on show are the last ones up to the last key seen, of the query and the
\* node that are tailed, none missing and none twice, whatever polls, streams, live
\* views, pauses, edits, restarts and lost connections came before: prepend_tail
\* after the checks of generation and boundary in tail_controller.  Left out is a tail
\* on which an answer has landed late since it began or was last edited: a poll in
\* flight as a stream claimed the slot, a second poll from one key, a poll or stream
\* of the query before an edit, an upgrade of a tail already pushed to or not primed.
THEOREM ShownExactlyHolds == Spec => []ShownExactly
<1>1. Inductive => ShownExactly
  BY DEF Inductive
<1>. QED BY <1>1, InductiveHolds, PTL

\* A live view that is on a server is listened to, or an upgrade in flight will hand
\* it over or drop it: upgrade_tail_instant, stop_tail and select_node clean up.  Left
\* out are views left behind by a reconnection, a stop while cut off, or a second
\* upgrade.
THEOREM ViewsAreOwnedHolds == Spec => []ViewsAreOwned
<1>1. Inductive => ViewsAreOwned
  BY DEF Inductive
<1>. QED BY <1>1, InductiveHolds, PTL
====
