------------------------------- MODULE MCOneRound -------------------------------
(* One round of one contributor, with a verifier or a state monitor where   *)
(* the configuration says so.                                              *)
EXTENDS IntegrationTest

CONSTANTS coordinator, stateMonitor, v1, c1

OneContributor == {c1}
OneVerifier == {v1}
TheVerifier == <<v1>>
TheStateMonitor == <<stateMonitor>>
NoProcesses == <<>>
StartingC1 == <<<<c1>>>>
JoiningNobody == <<<<>>>>
Nobody == [c \in {} |-> 0]
DropC1 == [c \in {c1} |-> 1]
================================================================================
