---- MODULE MCAcpConnection ----
(* Instances of AcpConnection for TLC, and mutants of it. *)
EXTENDS AcpConnection
====
