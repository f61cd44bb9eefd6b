--------------------------- MODULE MCSetupCoordinator ---------------------------
(* Two rounds, two contributors (the one of the first round is not in the   *)
(* second), one chunk a round.                                             *)
EXTENDS SetupCoordinator

CONSTANTS c1, c2

MCContributors == {c1, c2}
================================================================================
