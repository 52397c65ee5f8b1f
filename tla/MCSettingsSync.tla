--------------------------- MODULE MCSettingsSync ---------------------------
(* Instances of SettingsSync for TLC. *)
EXTENDS SettingsSync

CONSTANTS a, b

Plain(theme, list) == [theme |-> theme, agents |-> None, connections |-> list]

\* The repository already holds a's settings; b is a fresh machine.
MCInitial == [m \in Machines |-> Plain(IF m = a THEN "dark" ELSE "default", <<>>)]
MCSeeded == {<<[by |-> a, content |-> MCInitial[a]]>>}

\* Each machine has one connection of its own, opened by its user; the
\* repository is empty, or holds the settings of a.
MCStaging == [name |-> "staging", endpoint |-> "http", user |-> "ops", trust |-> "open"]
MCProd == [MCStaging EXCEPT !.name = "prod"]
MCInitialConnections ==
    [m \in Machines |-> Plain("dark", IF m = a THEN <<MCStaging>> ELSE <<MCProd>>)]
MCSeededOrEmpty == {<<>>, <<[by |-> a, content |-> MCInitialConnections[a]]>>}

=============================================================================
