---- MODULE MCFleetView ----
(* Instances of FleetView for TLC. *)
EXTENDS FleetView

\* Each connection has a checkout of its own.
MCSaved == [c \in Connections |-> IF c \in Production THEN "remote" ELSE "local"]
====
