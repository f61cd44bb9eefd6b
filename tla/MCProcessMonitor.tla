---------------------------- MODULE MCProcessMonitor ----------------------------
(* One contributor, dropped after its second contribution: it has the       *)
(* threads of a service and one more.                                      *)
EXTENDS ProcessMonitor

CONSTANT c1

MCContributors == {c1}
MCDropAfter == [c \in {c1} |-> 2]
================================================================================
