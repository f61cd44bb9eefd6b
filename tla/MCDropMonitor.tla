------------------------------ MODULE MCDropMonitor ------------------------------
(* Two contributors, either of which a round may want dropped, a verifier.  *)
EXTENDS DropMonitor

CONSTANTS c1, c2, v1

MCContributors == {c1, c2}
MCVerifiers == {v1}
================================================================================
