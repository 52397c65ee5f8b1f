---- MODULE MCLiveTail ----
(* Instances of LiveTail for TLC. *)
EXTENDS LiveTail

\* A row in the table of the first node, none in another.
MCRows == [n \in Nodes |-> IF n = Home THEN 1 ELSE 0]
====
