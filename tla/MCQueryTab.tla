---- MODULE MCQueryTab ----
(* Instances of QueryTab for TLC. *)
EXTENDS QueryTab

\* One statement; a script whose first statement may fail and be skipped.
MCScripts == {<<"select">>, <<"select", "command">>}
====
