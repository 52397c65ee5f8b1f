-------------------------- MODULE MCConnections --------------------------
(* An instance of Connections for TLC: a saved connection to a Cloud service, *)
(* and a server of one's own to add.                                          *)
EXTENDS Connections

MCInitial == <<[name |-> "prod", server |-> "service", posture |-> "guarded"]>>
=============================================================================
