--------------------------- MODULE MCSpecificationRun ---------------------------
(* One or two tests, some of them skipped, of the same id, or with a round  *)
(* that is not valid; two repositories, with three crates.                  *)
EXTENDS SpecificationRun

CONSTANTS a, b

Good == <<TestRound(1, <<1>>, <<>>)>>
Bad == <<TestRound(1, <<1, 1>>, <<>>)>>

SingleTest(id, skip, rounds) == [id |-> id, skip |-> skip, rounds |-> rounds]

Input(tests, only, clean, build) ==
    [tests |-> tests, only |-> only, clean |-> clean, build |-> build, install |-> build]

SomeInputs ==
    {Input(<<>>, {}, FALSE, FALSE),
     Input(<<SingleTest(a, FALSE, Good), SingleTest(b, FALSE, Good)>>, {}, TRUE, TRUE),
     Input(<<SingleTest(a, FALSE, Bad), SingleTest(b, FALSE, Good)>>, {}, FALSE, FALSE),
     Input(<<SingleTest(a, TRUE, Good), SingleTest(b, FALSE, Good)>>, {}, FALSE, TRUE),
     Input(<<SingleTest(a, FALSE, Good)>>, {b}, TRUE, TRUE),
     Input(<<SingleTest(a, TRUE, Good), SingleTest(b, FALSE, Good)>>, {a}, FALSE, TRUE),
     Input(<<SingleTest(a, FALSE, Good), SingleTest(a, FALSE, Good)>>, {}, FALSE, FALSE)}

TwoRepos == <<"aleo-setup-coordinator", "aleo-setup">>
ThreeCrates == <<"aleo-setup-coordinator", "setup1-contributor", "setup1-verifier">>
TheRepo == [c \in ToSet(ThreeCrates) |->
               IF c = "aleo-setup-coordinator" THEN c ELSE "aleo-setup"]
================================================================================
