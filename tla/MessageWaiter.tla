------------------------------ MODULE MessageWaiter ------------------------------
(***************************************************************************)
(* The two waiters built on MessageWaiter::spawn (waiter.rs):              *)
(*   - spawn_expected, of which integration_test and test_round create     *)
(*     five, each for one message, and join each at a certain point;       *)
(*   - spawn_contribution_waiter (ceremony_waiter.rs), which starts a       *)
(*     contributor in the middle of a round, and the JoinLater (join.rs) by *)
(*     which test_round is to join that contributor.                       *)
(*                                                                         *)
(* The first have no effect but their result, and it is a function of the  *)
(* log and of the place their receiver started from: WaiterResult.         *)
(***************************************************************************)
EXTENDS CeremonyBus, FiniteSets

CONSTANT StartAfter   \* for the contributors that start in the middle of a
                      \* round, after how many contributions to it

VARIABLES waiter,     \* the thread of each of them; once "started" the join
                      \* of the contributor is registered
          waiterRx    \* where its receiver started

waiterVars == <<waiter, waiterRx>>

MidRound == DOMAIN StartAfter

WaiterTypeOK ==
    /\ waiter \in [MidRound -> {"none", "waiting", "started", "failed"}]
    /\ waiterRx \in [MidRound -> Nat]

WaiterInit == /\ waiter = [c \in MidRound |-> "none"]
              /\ waiterRx = [c \in MidRound |-> 0]

--------------------------------------------------------------------------------
(* vec_waiter for one expected message: the first of it and of a Shutdown.  *)
Settles(rx, m) ==
    {k \in Unread(rx) : log[k] = m \/ IsShutdownMessage(log[k])}

WaiterResult(rx, m) ==
    IF Settles(rx, m) = {} THEN "waiting"
    ELSE LET first == CHOOSE k \in Settles(rx, m) : \A j \in Settles(rx, m) : k <= j
         IN  IF IsShutdownMessage(log[first]) THEN "Shutdown" ELSE "MessagesReceived"

--------------------------------------------------------------------------------
SpawnContributionWaiters(contributors) ==
    /\ waiter' = [c \in MidRound |-> IF c \in contributors THEN "waiting" ELSE waiter[c]]
    /\ waiterRx' = [c \in MidRound |-> IF c \in contributors THEN LogEnd ELSE waiterRx[c]]

(* The count is looked at on every message, of whatever kind; a Shutdown is *)
(* a message like another.                                                 *)
ContributionsReceived(c) ==
    \E k \in Unread(waiterRx[c]) :
        Cardinality({j \in (waiterRx[c] + 1) .. k : log[j].type = "SuccessfulContribution"})
            >= StartAfter[c]

(* on_messages_received: run_contributor, whose join is registered.  It can *)
(* fail to open the process.                                               *)
WaiterJoins(c, outcome) == /\ waiter[c] = "waiting"
                           /\ ContributionsReceived(c)
                           /\ waiter' = [waiter EXCEPT ![c] = outcome]
                           /\ UNCHANGED waiterRx
================================================================================
