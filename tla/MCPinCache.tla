----------------------------- MODULE MCPinCache -----------------------------
(* An instance of PinCache for TLC: the application runs two checks at once, *)
(* the command line one; a Cloud build stands next to one published release. *)
EXTENDS PinCache

MCOwner == [t \in Tasks |-> IF t = "pin" THEN "cli" ELSE "app"]
MCRank == [v \in Versions |-> IF v = "cloud" THEN 1 ELSE 2]
MCMinor == [v \in Versions |-> 26]

\* "The answer `zedb pin` printed stays true for the replay-backed commands that
\* follow it" (pin.rs:344-345), with no exception but two processes in each other's
\* way.  The code does not keep it: while a call of ensure_binary replaces the note of
\* an earlier one, an offline lookup finds nothing (MCPinCacheNote.cfg).
AnswerIsFound ==
    \A v \in Versions :
        pinned[v] # None /\ disturbed = {} => Offline(v) \in {pinned[v], v}
=============================================================================
