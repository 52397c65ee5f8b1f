---------------------------- MODULE Connections ----------------------------
(* The saved connections of the desktop application and what connects to      *)
(* them: the list in memory and in connections.json, the Keychain, the        *)
(* session's password cache, the connection form with its test before save,   *)
(* the rotation of a Cloud service's password, and the wait for a service     *)
(* that is asleep.                                                            *)
(*                                                                            *)
(* An action is one handler of the app thread, or the point where a task      *)
(* talks to a server, the control plane or the Keychain.  What the user types *)
(* into a form is chosen when the form opens.                                 *)
EXTENDS Integers, Sequences, FiniteSets, SequencesExt

CONSTANTS
    Names,          \* connection names, which are the Keychain's keys
    Hosts,          \* self-hosted servers
    Services,       \* services of ClickHouse Cloud
    Keyed,          \* services whose organization has an API key here
    Initial,        \* the saved connections at launch
    Faults,         \* what may fail: "file", "secret", and the "rollback" of either
    MaxWork,        \* forms, copies, connects, rotations and waits begun
    MaxPolls,       \* of the control plane, by one wait (24 in the code)
    MaxFaults,
    None

Servers == Hosts \cup Services
Postures == {"guarded", "open"}
Connection == [name : Names, server : Servers, posture : Postures]
Secret == [of : Servers, n : 0..MaxWork]

ASSUME ConnectionsAssumption ==
    /\ Hosts \cap Services = {} /\ Keyed \subseteq Services
    /\ Initial \in Seq(Connection)
    /\ \A i, j \in DOMAIN Initial : Initial[i].name = Initial[j].name => i = j
    /\ Faults \subseteq {"file", "secret", "rollback"}
    /\ {MaxWork, MaxPolls, MaxFaults} \subseteq Nat
    /\ None \notin Names \cup Connection \cup Secret \cup {"reachable", "unreachable"}

VARIABLES
    list,           \* connections, in memory
    disk,           \* connections.json
    keychain,       \* [Names -> Secret or None]
    cache,          \* password_cache; an entry may say that there is no password
    actual,         \* the password each server takes now
    connected,      \* the connection of the session, as it was connected
    connecting,     \* the name the toolbar shows as connecting
    form,           \* the open form
    probes,         \* probe_connection tasks in flight
    explains,       \* cloud_explain_unreachable tasks in flight
    wakes,          \* cloud_wake_then_connect tasks in flight
    rotations,      \* cloud_provision_password tasks in flight
    used,           \* what has been spent of the bounds
    spoiled         \* auxiliary: something started or changed under a probe in flight,
                    \* or what took a failed save back failed too

vars == <<list, disk, keychain, cache, actual, connected, connecting, form,
          probes, explains, wakes, rotations, used, spoiled>>
store == <<list, disk, keychain>>
tasks == <<probes, explains, wakes, rotations>>

NamesOf(l) == {l[i].name : i \in DOMAIN l}
Current(server) == [of |-> server, n |-> actual[server]]
NotCached == [cached |-> FALSE]
Cached(secret) == [cached |-> TRUE, secret |-> secret]

Spend(what) == used' = [used EXCEPT ![what] = @ + 1]
MayFail(what) == what \in Faults /\ used.faults < MaxFaults

\* The password a connect of a saved connection sends (connect_selected).
PasswordFor(name) == IF cache[name].cached THEN cache[name].secret ELSE keychain[name]

Init ==
    /\ list = Initial /\ disk = Initial
    /\ actual = [s \in Servers |-> 0]
    /\ keychain = [n \in Names |->
          IF \E i \in DOMAIN Initial : Initial[i].name = n
            THEN [of |-> (CHOOSE c \in Range(Initial) : c.name = n).server, n |-> 0]
            ELSE None]
    /\ cache = [n \in Names |-> NotCached]
    /\ connected = None /\ connecting = None /\ form = None
    /\ probes = {} /\ explains = {} /\ wakes = {} /\ rotations = {}
    /\ used = [work |-> 0, faults |-> 0]
    /\ spoiled = FALSE

-----------------------------------------------------------------------------
\* Persisting a draft: the file first, then the Keychain, and back on failure.

Updated(d) == IF d.editing = 0 THEN Append(list, d.connection)
                               ELSE [list EXCEPT ![d.editing] = d.connection]

Renames(d) == d.original # None /\ d.original # d.connection.name

\* The item written under the connection's name: what the form says, or on a
\* rename what the old name had.
Item(d) == IF d.password # None THEN d.password
           ELSE IF Renames(d) THEN keychain[d.original] ELSE None

Written(d) == IF Item(d) = None THEN keychain ELSE [keychain EXCEPT ![d.connection.name] = Item(d)]
Stored(d) == IF Renames(d) /\ Item(d) # None THEN [Written(d) EXCEPT ![d.original] = None]
                                             ELSE Written(d)

\* On the way back the original name gets what it had, and a new name nothing.
PutBack(d, previous, half) ==
    IF d.original # None /\ previous # None THEN [half EXCEPT ![d.original] = previous] ELSE half

\* Mutant: the item under the form's name goes, renamed or not.
ClearedBlindly(d, half) == [half EXCEPT ![d.connection.name] = None]

Cleared(d, half) ==
    IF d.original # d.connection.name THEN [half EXCEPT ![d.connection.name] = None] ELSE half

RolledBack(d, previous, half) == Cleared(d, PutBack(d, previous, half))

\* Mutant: the file keeps what the failed save has written.
FileKept(d) == Updated(d)

\* The file on the way back: the list is written again.
FileRolledBack(d) == list

Persists(d) ==
    /\ list' = Updated(d) /\ disk' = Updated(d)
    /\ keychain' = Stored(d)
    /\ UNCHANGED <<used, spoiled>>

\* Each step back can fail in turn, for itself: file and list, or Keychain and
\* list, are apart then.
StepsBack(d, previous, half) ==
    \/ /\ MayFail("secret")
       /\ disk' = FileRolledBack(d) /\ keychain' = RolledBack(d, previous, half)
       /\ UNCHANGED spoiled
    \/ /\ MayFail("rollback")
       /\ disk' \in {list, Updated(d)}
       /\ keychain' \in {half, PutBack(d, previous, half), Cleared(d, half),
                        RolledBack(d, previous, half)}
       /\ spoiled' = TRUE

PersistFails(d, previous) ==
    /\ \/ MayFail("file") /\ UNCHANGED <<disk, keychain, spoiled>>
       \/ \E half \in {keychain, Written(d)} : StepsBack(d, previous, half)
    /\ Spend("faults")
    /\ UNCHANGED list

\* Mutant: saving over the connection one is connected to leaves the session.
SessionKept(d) == connected

\* The session of the connection that is saved over ends.
SessionAfter(d) ==
    IF connected # None /\ connected.name = d.original THEN None ELSE connected

-----------------------------------------------------------------------------
\* Forms.

Opened(editing, original, c, password) ==
    /\ used.work < MaxWork
    /\ Spend("work")
    /\ form' = [key |-> used.work + 1, editing |-> editing, original |-> original,
                connection |-> c, password |-> password, working |-> FALSE]
    /\ UNCHANGED <<store, cache, actual, connected, connecting, tasks, spoiled>>

StartAdd ==
    \E name \in Names, server \in Servers :
        Opened(0, None, [name |-> name, server |-> server, posture |-> "guarded"], Current(server))

\* An edit keeps the server; who retargets a connection types its password.
StartEdit(i) ==
    \E name \in Names, posture \in Postures, password \in {None, Current(list[i].server)} :
        Opened(i, list[i].name, [name |-> name, server |-> list[i].server, posture |-> posture],
               password)

\* Cancel, or the preferences over it.
CloseForm ==
    /\ form # None
    /\ form' = None
    /\ UNCHANGED <<store, cache, actual, connected, connecting, tasks, used, spoiled>>

\* The form's buttons, and the check draft_from_form makes.
Ready ==
    /\ form # None /\ connecting = None /\ ~form.working
    /\ \A i \in DOMAIN list : i # form.editing => list[i].name # form.connection.name

SaveForm ==
    /\ Ready
    /\ \/ Persists(form) /\ connected' = SessionAfter(form) /\ form' = None
       \/ PersistFails(form, IF form.original = None THEN None ELSE keychain[form.original])
          /\ UNCHANGED <<connected, form>>
    /\ UNCHANGED <<cache, actual, connecting, tasks>>

-----------------------------------------------------------------------------
\* Connecting.

Probing(c, password, draft) ==
    /\ connecting' = c.name
    /\ probes' = probes \cup {[no |-> used.work, connection |-> c, password |-> password,
                               draft |-> draft, answer |-> None]}
    /\ Spend("work")
    /\ spoiled' = (spoiled \/ probes # {})

Connect(i) ==
    /\ connecting = None /\ used.work < MaxWork
    /\ connected # None => connected.name # list[i].name
    /\ Probing(list[i], PasswordFor(list[i].name), None)
    /\ UNCHANGED <<store, cache, actual, connected, form, explains, wakes, rotations>>

SaveAndConnect ==
    /\ Ready /\ used.work < MaxWork
    /\ LET key == IF form.original # None THEN form.original ELSE form.connection.name
           password == IF form.password # None THEN form.password ELSE keychain[key]
       IN Probing(form.connection, password, form)
    /\ UNCHANGED <<store, cache, actual, connected, form, explains, wakes, rotations>>

\* The nodes are asked; a node that is up refuses a password that is not its own.
NodesAnswer(p) ==
    /\ p.answer = None
    /\ \E answer \in {"reachable", "unreachable"} :
          /\ answer = "reachable" => p.password = Current(p.connection.server)
          /\ probes' = (probes \ {p}) \cup {[p EXCEPT !.answer = answer]}
    /\ UNCHANGED <<store, cache, actual, connected, connecting, form,
                   explains, wakes, rotations, used, spoiled>>

Lands(p) == probes' = probes \ {p} /\ connecting' = None

ProbeFails(p) ==
    /\ p.answer = "unreachable"
    /\ Lands(p)
    /\ explains' = IF p.connection.server \in Keyed
                     THEN explains \cup {[no |-> p.no, name |-> p.connection.name]} ELSE explains
    /\ UNCHANGED <<store, cache, actual, connected, form, wakes, rotations, used, spoiled>>

SessionOf(p) ==
    /\ connected' = p.connection
    /\ cache' = [cache EXCEPT ![p.connection.name] = Cached(p.password)]

ProbeConnects(p) ==
    /\ p.answer = "reachable" /\ p.draft = None
    /\ Lands(p)
    /\ SessionOf(p)
    /\ UNCHANGED <<store, actual, form, explains, wakes, rotations, used, spoiled>>

\* A form that passed its test is saved, and whatever form is open closes.
ProbeSaves(p) ==
    /\ p.answer = "reachable" /\ p.draft # None
    /\ p.draft.editing \in 0..Len(list)
    /\ Lands(p)
    /\ \/ Persists(p.draft) /\ SessionOf(p) /\ form' = None
       \/ PersistFails(p.draft, IF p.draft.original = None THEN None
                                ELSE IF p.draft.password = None THEN p.password
                                ELSE keychain[p.draft.original])
          /\ UNCHANGED <<connected, cache, form>>
    /\ UNCHANGED <<actual, explains, wakes, rotations>>

\* The application starts again, with what the file and the Keychain have.
StartsAgain ==
    /\ list' = disk
    /\ cache' = [n \in Names |-> NotCached]
    /\ connected' = None /\ connecting' = None /\ form' = None
    /\ probes' = {} /\ explains' = {} /\ wakes' = {} /\ rotations' = {}
    /\ UNCHANGED <<disk, keychain, actual, used, spoiled>>

\* It is quit or killed, between two handlers.
Restart == StartsAgain

\* The row the form was opened on is gone: the index is out of range, and the
\* application aborts.
ProbeAborts(p) ==
    /\ p.answer = "reachable" /\ p.draft # None
    /\ p.draft.editing > Len(list)
    /\ StartsAgain

\* Disconnect, or the health poll that finds the node gone.
Disconnect ==
    /\ connected # None
    /\ connected' = None
    /\ UNCHANGED <<store, cache, actual, connecting, form, tasks, used, spoiled>>

-----------------------------------------------------------------------------
\* The list.

\* The copy gets the first free name; a copy that cannot be saved is taken back.
Duplicate(i) ==
    /\ used.work < MaxWork
    /\ \E name \in Names \ NamesOf(list) :
          list' = Append(list, [list[i] EXCEPT !.name = name])
    /\ disk' = list'
    /\ Spend("work")
    /\ spoiled' = (spoiled \/ probes # {})
    /\ UNCHANGED <<keychain, cache, actual, connected, connecting, form, tasks>>

\* Delete, confirmed: the password first, then the file, and back on failure,
\* when putting the password back can fail too.
Delete(i) ==
    /\ connecting = None
    /\ LET name == list[i].name
           without == [keychain EXCEPT ![name] = None]
       IN
       \/ /\ list' = RemoveAt(list, i) /\ disk' = list'
          /\ keychain' = without
          /\ cache' = [cache EXCEPT ![name] = NotCached]
          /\ connected' = IF connected # None /\ connected.name = name THEN None ELSE connected
          /\ form' = None
          /\ spoiled' = (spoiled \/ probes # {})
          /\ UNCHANGED used
       \/ /\ \/ /\ MayFail("secret") \/ MayFail("file")
                /\ UNCHANGED keychain
                /\ spoiled' = (spoiled \/ probes # {})
             \/ MayFail("rollback") /\ keychain' = without /\ spoiled' = TRUE
          /\ Spend("faults")
          /\ UNCHANGED <<list, disk, cache, connected, form>>
    /\ UNCHANGED <<actual, connecting, tasks>>

-----------------------------------------------------------------------------
\* A Cloud service that is asleep.

\* cloud_explain_unreachable: the control plane is asked; asleep or waking, the
\* wait begins.
NotAsleep(e) ==
    /\ explains' = explains \ {e}
    /\ UNCHANGED <<store, cache, actual, connected, connecting, form,
                   probes, wakes, rotations, used, spoiled>>

WakeBegins(e) ==
    /\ used.work < MaxWork
    /\ explains' = explains \ {e}
    /\ connecting' = e.name
    /\ \E at \in {"start", "sleep"} :     \* asleep, or waking already
          wakes' = wakes \cup {[no |-> used.work, name |-> e.name, at |-> at, polls |-> 0]}
    /\ Spend("work")
    /\ spoiled' = (spoiled \/ probes # {})
    /\ UNCHANGED <<store, cache, actual, connected, form, probes, rotations>>

Waits(w) == connecting = w.name

\* The wait is over; `connecting` is released if it is still the wait's.
Released(w) ==
    /\ connecting' = IF Waits(w) THEN None ELSE connecting
    /\ spoiled' = (spoiled \/ (Waits(w) /\ probes # {}))

WakeAccepted(w) ==
    /\ w.at = "start"
    /\ wakes' = (wakes \ {w}) \cup {[w EXCEPT !.at = "sleep"]}
    /\ UNCHANGED <<store, cache, actual, connected, connecting, form,
                   probes, explains, rotations, used, spoiled>>

\* Mutant: the refusal is shown and `connecting` stays.
WakeRefusedSilently(w) ==
    /\ w.at = "start"
    /\ wakes' = wakes \ {w}
    /\ UNCHANGED <<store, cache, actual, connected, connecting, form,
                   probes, explains, rotations, used, spoiled>>

WakeRefused(w) ==
    /\ w.at = "start"
    /\ wakes' = wakes \ {w}
    /\ Released(w)
    /\ UNCHANGED <<store, cache, actual, connected, form, probes, explains, rotations, used>>

WakeTick(w) ==
    /\ w.at = "sleep"
    /\ wakes' = (wakes \ {w}) \cup (IF Waits(w) THEN {[w EXCEPT !.at = "fetch"]} ELSE {})
    /\ UNCHANGED <<store, cache, actual, connected, connecting, form,
                   probes, explains, rotations, used, spoiled>>

\* Not running yet, or the control plane did not answer.
StillAsleep(w) ==
    /\ w.at = "fetch"
    /\ IF w.polls + 1 < MaxPolls
         THEN /\ wakes' = (wakes \ {w}) \cup {[w EXCEPT !.at = "sleep", !.polls = @ + 1]}
              /\ UNCHANGED <<connecting, spoiled>>
         ELSE wakes' = wakes \ {w} /\ Released(w)
    /\ UNCHANGED <<store, cache, actual, connected, form, probes, explains, rotations, used>>

Awake(w) ==
    /\ w.at = "fetch"
    /\ wakes' = wakes \ {w}
    /\ \/ \E i \in DOMAIN list :
             /\ list[i].name = w.name
             /\ Probing(list[i], PasswordFor(w.name), None)
       \/ /\ w.name \notin NamesOf(list) \/ (MayFail("secret") /\ ~cache[w.name].cached)
          /\ connecting' = None
          /\ spoiled' = (spoiled \/ probes # {})
          /\ used' = IF w.name \in NamesOf(list) THEN [used EXCEPT !.faults = @ + 1] ELSE used
          /\ UNCHANGED probes
    /\ UNCHANGED <<store, cache, actual, connected, form, explains, rotations>>

-----------------------------------------------------------------------------
\* A Cloud service's password.

ConfirmRotation ==
    /\ form # None /\ ~form.working /\ form.connection.server \in Keyed
    /\ used.work < MaxWork
    /\ form' = [form EXCEPT !.working = TRUE]
    /\ rotations' = rotations \cup {[no |-> used.work, key |-> form.key,
                                     server |-> form.connection.server, asked |-> FALSE,
                                     answer |-> None]}
    /\ Spend("work")
    /\ UNCHANGED <<store, cache, actual, connected, connecting, probes, explains, wakes, spoiled>>

\* The control plane rotates, or refuses; an answer may be lost on the way.
Rotates(r) ==
    /\ ~r.asked
    /\ \E answer \in {None, [of |-> r.server, n |-> actual[r.server] + 1]} :
          /\ actual' = [actual EXCEPT ![r.server] = @ + 1] \/ (answer = None /\ UNCHANGED actual)
          /\ rotations' = (rotations \ {r}) \cup {[r EXCEPT !.asked = TRUE, !.answer = answer]}
    /\ UNCHANGED <<store, cache, connected, connecting, form, probes, explains, wakes, used, spoiled>>

\* Mutant: any form that is open takes the new password.
AnyForm(r) == form # None

\* password_provision_completion_matches: the form that asked, still waiting.
SameForm(r) ==
    /\ form # None /\ form.working
    /\ form.connection.server = r.server
    /\ form.key = r.key

RotationLands(r) ==
    /\ r.asked
    /\ rotations' = rotations \ {r}
    /\ IF SameForm(r)
         THEN /\ form' = [form EXCEPT !.working = FALSE,
                                      !.password = IF r.answer = None THEN @ ELSE r.answer]
              /\ UNCHANGED <<keychain, used>>
         ELSE LET owners == {i \in DOMAIN list : list[i].server = r.server} IN
              /\ UNCHANGED form
              /\ IF r.answer = None \/ owners = {}
                   THEN UNCHANGED <<keychain, used>>
                   ELSE \/ /\ keychain' = [keychain EXCEPT ![list[Min(owners)].name] = r.answer]
                           /\ UNCHANGED used
                        \/ MayFail("secret") /\ Spend("faults") /\ UNCHANGED keychain
    /\ UNCHANGED <<list, disk, cache, actual, connected, connecting, probes, explains, wakes, spoiled>>

-----------------------------------------------------------------------------
ByUser ==
    \/ StartAdd \/ CloseForm \/ SaveForm \/ SaveAndConnect \/ Disconnect \/ Restart
    \/ ConfirmRotation
    \/ \E i \in DOMAIN list : StartEdit(i) \/ Connect(i) \/ Duplicate(i) \/ Delete(i)

Work ==
    \/ \E p \in probes : \/ NodesAnswer(p) \/ ProbeFails(p) \/ ProbeConnects(p)
                         \/ ProbeSaves(p) \/ ProbeAborts(p)
    \/ \E e \in explains : NotAsleep(e) \/ WakeBegins(e)
    \/ \E w \in wakes : \/ WakeAccepted(w) \/ WakeRefused(w) \/ WakeTick(w)
                        \/ StillAsleep(w) \/ Awake(w)
    \/ \E r \in rotations : Rotates(r) \/ RotationLands(r)

Next == ByUser \/ Work

Spec == Init /\ [][Next]_vars

\* Every request ends or times out, and every timer fires; users owe nothing.
FairSpec == Spec /\ WF_vars(Work)

-----------------------------------------------------------------------------
Password == Secret \cup {None}
Draft == [key : 1..MaxWork, editing : Nat, original : Names \cup {None}, connection : Connection,
          password : Password, working : BOOLEAN]
Probe == [no : Nat, connection : Connection, password : Password,
          draft : Draft \cup {None}, answer : {None, "reachable", "unreachable"}]
Explain == [no : Nat, name : Names]
Wake == [no : Nat, name : Names, at : {"start", "sleep", "fetch"}, polls : 0..MaxPolls]
Rotation == [no : Nat, key : 1..MaxWork, server : Keyed, asked : BOOLEAN, answer : Password]

TypeOK ==
    /\ list \in Seq(Connection) /\ disk \in Seq(Connection)
    /\ keychain \in [Names -> Password]
    /\ cache \in [Names -> {NotCached} \cup {Cached(secret) : secret \in Password}]
    /\ actual \in [Servers -> 0..MaxWork]
    /\ connected \in Connection \cup {None}
    /\ connecting \in Names \cup {None}
    /\ form \in Draft \cup {None}
    /\ probes \subseteq Probe /\ explains \subseteq Explain
    /\ wakes \subseteq Wake /\ rotations \subseteq Rotation
    /\ used \in [work : Nat, faults : 0..MaxFaults]
    /\ spoiled \in BOOLEAN

\* The session belongs to a connection of the list, as it is saved: no save,
\* rename, delete or duplicate leaves a session behind, whatever test, form or
\* wait was under way (persistence.rs:79-94, controller.rs:180-190).
ConnectedIsSaved == connected = None \/ connected \in Range(list)

\* Every Keychain item is under the name of a connection to the server it is a
\* password of: renames, failed saves, deletions and rotations that end after
\* their form leave no item behind and put none under another's name
\* (cloud.rs:999-1051).
SecretsStayHome ==
    \A n \in Names : keychain[n] # None
        => \E i \in DOMAIN list : list[i].name = n /\ list[i].server = keychain[n].of

\* Session, list and Keychain agree, over restarts too, as long as nothing has
\* got under the probe in flight (`connecting` keeps the user out of the way, but
\* not Duplicate nor the wait for a service that another connect has begun) and
\* no failed save or deletion failed to take back what it had done.
NothingIsLeftBehind == spoiled \/ (ConnectedIsSaved /\ SecretsStayHome)

HasSecret(server) ==
    \E i \in DOMAIN list : list[i].server = server /\ keychain[list[i].name] # None

\* With the same exceptions: a save or a delete that fails at any point leaves in
\* the file the list in memory, which is the one a restart shows, and no step but
\* a deletion, a restart included, takes the last password of a server away
\* (persistence.rs:57-77; devlog.md:368 "Config and Keychain updates use rollback
\* paths so a partial rename or delete does not silently leave the app in an
\* inconsistent state").
SavesAreWhole ==
    [][~spoiled' => /\ disk' = list'
                    /\ Len(list') >= Len(list)
                         => \A s \in Servers : HasSecret(s) => HasSecret(s)']_vars

\* The toolbar does not say "Connecting..." for good, which would disable
\* Connect, Save and Delete with it: every probe lands, every wait for a service
\* ends or hands over to a probe (cloud.rs:1201-1310).
ConnectingEnds == []<>(connecting = None)

=============================================================================
