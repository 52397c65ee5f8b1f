---- MODULE MCAgentPane ----
(* Instances of AgentPane for TLC. *)
EXTENDS AgentPane
====
