------------------------------- MODULE MCTwoRounds -------------------------------
(* Two rounds, each of a contributor of its own; the first round's is       *)
(* dropped after its first contribution, and a replacement carries on.      *)
EXTENDS IntegrationTest

CONSTANTS coordinator, c1, c2, r1

ThreeContributors == {c1, c2, r1}
TheReplacement == <<r1>>
NoProcesses == <<>>
StartingOneEach == <<<<c1>>, <<c2>>>>
JoiningNobody == <<<<>>, <<>>>>
Nobody == [c \in {} |-> 0]
DropC1 == [c \in {c1} |-> 1]
================================================================================
