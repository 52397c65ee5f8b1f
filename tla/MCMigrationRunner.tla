-------------------------- MODULE MCMigrationRunner --------------------------
(* Instances of MigrationRunner for TLC. *)
EXTENDS MigrationRunner

\* One database per exclusion situation: "a" and "b" are fleet databases, "x"
\* is frozen.
MCRegistry == <<"a", "b", "x">>
MCNoGroup == <<>>
MCOne == <<"a">>
MCGroup == <<"x">>

MCFleet == {0, 100, 200}
MCPlainRepo == {[chain |-> MCFleet, targeted |-> {}]}

MCClass == [m \in Migrations |-> IF m = 100 THEN "structural" ELSE "clean"]

MCAllowList == [m \in Migrations |-> IF m = 300 THEN {"a"} ELSE {}]

\* Migration 100 has two statements each way, the others one.
MCLength == [f \in Migrations \X {"up", "down"} |-> IF f[1] = 100 THEN 2 ELSE 1]

MCSystemFirst == {<<100, "up", 2>>}

All == [by |-> "all", list |-> <<>>]
OfGroup == [by |-> "group", list |-> <<>>]
On(list) == [by |-> "list", list |-> list]

Plain(kind, targets, number) ==
    [kind |-> kind, targets |-> targets, number |-> number, bounded |-> FALSE,
     ackIrreversible |-> FALSE, ackTargeted |-> FALSE,
     readOnly |-> FALSE, write |-> TRUE, dryRun |-> FALSE]

UpTo(targets, number) == [Plain("upgrade", targets, number) EXCEPT !.bounded = TRUE]

\* One database walked up and down the chain.
MCChainOperations ==
    {Plain("upgrade", All, 0), UpTo(On(<<"a">>), 100),
     Plain("rollback_to", All, 0), Plain("rollback_one", On(<<"a">>), 200),
     Plain("rollback_one", On(<<"a">>), 100), Plain("stamp", On(<<"a">>), 100)}

\* Several databases, one of them frozen, named in every way the command line has.
MCFleetOperations ==
    {Plain("upgrade", All, 0), Plain("upgrade", OfGroup, 0),
     Plain("rollback_to", On(<<"b", "a", "b">>), 0), Plain("rollback_one", On(<<"a", "b">>), 100),
     Plain("stamp", On(<<"b", "x">>), 100), Plain("apply", On(<<"a">>), 300),
     Plain("apply", On(<<"a", "b">>), 300), Plain("import", All, 0)}

\* Every acknowledgement given and withheld, against every rollback class.
MCGateOperations ==
    {Plain("upgrade", All, 0), UpTo(All, 100), Plain("apply", All, 300)}
    \cup {[Plain("rollback_to", All, 0) EXCEPT !.ackIrreversible = ack] : ack \in BOOLEAN}
    \cup {[Plain("rollback_one", All, 300) EXCEPT !.ackTargeted = ack] : ack \in BOOLEAN}
    \cup {[Plain("rollback_one", All, 100) EXCEPT !.ackIrreversible = ack] : ack \in BOOLEAN}
    \cup {Plain("rollback_one", All, 200), Plain("rollback_one", All, 0), Plain("stamp", All, 999)}
    \cup {[Plain("upgrade", All, 0) EXCEPT !.write = FALSE],
          [Plain("stamp", All, 100) EXCEPT !.readOnly = TRUE],
          [Plain("apply", All, 300) EXCEPT !.dryRun = TRUE]}

\* 300 starts as a customisation and may graduate into the chain.
MCGraduatingRepos ==
    {[chain |-> {0, 100, 200, 300}, targeted |-> t] : t \in {{300}, {}}}
MCGateClass == [m \in Migrations |-> CASE m \in {0, 100} -> "irreversible"
                                       [] m = 200       -> "none"
                                       [] OTHER         -> "clean"]

\* The walks of a fleet and the refusals of the gate, mixed in one history.
MCWalkOperations == MCFleetOperations \cup MCGateOperations

\* A fleet taken over from the legacy tool.
MCAncestorRows ==
    {[db |-> "a", migration |-> 0, action |-> "upgrade", status |-> "success", at |-> 0, run |-> 0]}

MCUuid == [r \in 0..MaxRuns |-> MaxRuns - r]
=============================================================================
