------------------------------ MODULE AbstractTest ------------------------------
(***************************************************************************)
(* What integration_test (test.rs) promises to Specification::run, which    *)
(* calls it for one test after the other: its rounds are run in order and    *)
(* do not overlap, and it returns Ok only if no error was announced and      *)
(* nothing it has started is still there.  An Err or a panic promises        *)
(* nothing.                                                                *)
(*                                                                         *)
(* IntegrationTest implements this specification; SpecificationRun relies   *)
(* on it.  Of the processes of a test, this one knows the contributors that  *)
(* start with a round, by their round, and the others (helpers): those that  *)
(* start in the middle of a round are not promised anything about.          *)
(***************************************************************************)
EXTENDS Naturals

CONSTANT Rounds

ASSUME RoundsAssumption == Rounds \in Nat

VARIABLES phase,      \* running, or how integration_test is over
          round,      \* the round it is in, or 0
          present,    \* the rounds of which a contributor's process may be there
          helpers,    \* whether another process may be there
          announced   \* whether an error has been announced to the threads

testVars == <<phase, round, present, helpers, announced>>

TestTypeOK == /\ phase \in {"running", "ok", "error", "panicked"}
              /\ round \in 0 .. Rounds
              /\ present \subseteq 1 .. Rounds
              /\ helpers \in BOOLEAN /\ announced \in BOOLEAN

TestInit == /\ phase = "running" /\ round = 0
            /\ present = {} /\ helpers = FALSE /\ announced = FALSE

(* Processes of the test come and go, but of the rounds only those of the   *)
(* current one come.  What is announced stays so.                          *)
ProcessesChange ==
    /\ phase = "running"
    /\ present' \in SUBSET (present \cup ({round} \ {0}))
    /\ helpers' \in BOOLEAN
    /\ announced' \in {announced, TRUE}
    /\ UNCHANGED <<phase, round>>

NextRound == /\ phase = "running" /\ round < Rounds /\ present = {}
             /\ round' = round + 1
             /\ UNCHANGED <<phase, present, helpers, announced>>

(* Mutation: the processes that serve all rounds are not joined.            *)
TestPassesUnjoined == /\ phase = "running" /\ round = Rounds
                      /\ present = {} /\ ~ announced
                      /\ phase' = "ok"
                      /\ UNCHANGED <<round, present, helpers, announced>>

(* Ok: all the rounds were run, nothing is left and nothing was announced.  *)
TestPasses == /\ phase = "running" /\ round = Rounds
              /\ present = {} /\ ~ helpers /\ ~ announced
              /\ phase' = "ok"
              /\ UNCHANGED <<round, present, helpers, announced>>

TestFails == /\ phase = "running"
             /\ phase' \in {"error", "panicked"}
             /\ UNCHANGED <<round, present, helpers, announced>>

TestNext == ProcessesChange \/ NextRound \/ TestPasses \/ TestFails

TestSpec == TestInit /\ [][TestNext]_testVars

(* Whether a process of the test may still be there.                       *)
SomethingLeft == present # {} \/ helpers
================================================================================
