------------------------------- MODULE MCMidRound -------------------------------
(* One round of a contributor that starts with it and of another one that   *)
(* starts once there has been a contribution.                              *)
EXTENDS IntegrationTest

CONSTANTS coordinator, c1, m1

TwoContributors == {c1, m1}
NoProcesses == <<>>
StartingC1 == <<<<c1>>>>
JoiningM1 == <<<<m1>>>>
MidM1 == [c \in {m1} |-> 1]
Nobody == [c \in {} |-> 0]
DropC1 == [c \in {c1} |-> 1]
================================================================================
