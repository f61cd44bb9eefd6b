--------------------------- MODULE RoundConfiguration ---------------------------
(***************************************************************************)
(* How integration_test (test.rs) turns a TestRound of the specification     *)
(* file into the RoundConfig that test_round uses: the i-th entry of the     *)
(* list of drops and of the list of starts is for the i-th contributor.     *)
(* What test_round makes of it is here too: who starts when (Starting and    *)
(* Joining of IntegrationTest), and the two places a drop is kept in, the    *)
(* map of the drop monitor and the contributor's own configuration           *)
(* (DropAfter of IntegrationTest).                                          *)
(*                                                                         *)
(* A contributor is its index: ids contributor{round}-{i} and generated      *)
(* addresses tell them apart.                                              *)
(***************************************************************************)
EXTENDS Naturals, Sequences, FiniteSets

CONSTANT NoDrop   \* None, for the drop of a contributor

ASSUME NoDropAssumption == NoDrop \notin Nat

(* ContributorStartConfig, and a drop as its after_contributions.           *)
CeremonyStart == [type |-> "CeremonyStart", after |-> 0]
RoundStart == [type |-> "RoundStart", after |-> 0]
AfterRoundContributions(n) == [type |-> "AfterRoundContributions", after |-> n]

TestRound(contributors, drops, starts) ==
    [contributors |-> contributors, contributor_drops |-> drops,
     contributor_starts |-> starts]

Contributors(round) == 1 .. round.contributors

(* Vec::get, with a default.                                               *)
Get(list, i, default) == IF i \in 1 .. Len(list) THEN list[i] ELSE default

--------------------------------------------------------------------------------
TooMany(round) == \/ Len(round.contributor_starts) > round.contributors
                  \/ Len(round.contributor_drops) > round.contributors

(* contributor_drops, the map.                                             *)
ContributorDrops(round) ==
    [i \in 1 .. Len(round.contributor_drops) |-> round.contributor_drops[i]]

(* Mutation: the drops are given out from the last contributor on.          *)
DropOfLast(round, i) ==
    Get(round.contributor_drops, round.contributors + 1 - i, NoDrop)

(* ContributorConfig::drop, looked up in the map.                           *)
DropOf(round, i) ==
    IF i \in DOMAIN ContributorDrops(round) THEN ContributorDrops(round)[i] ELSE NoDrop

(* Mutation: a contributor that is not configured is not started.           *)
StartOfNone(round, i) == Get(round.contributor_starts, i, CeremonyStart)

(* ContributorConfig::start.                                               *)
StartOf(round, i) == Get(round.contributor_starts, i, RoundStart)

(* The errors of the configuration.                                        *)
InvalidRound(round) ==
    \/ TooMany(round)
    \/ \E k \in 1 .. Len(round.contributor_starts) :
          round.contributor_starts[k] = CeremonyStart

--------------------------------------------------------------------------------
(* What test_round does with it.                                           *)

(* The contributors it starts itself, and those it makes a waiter for.      *)
StartingContributors(round) == {i \in Contributors(round) : StartOf(round, i).type = "RoundStart"}

MidRoundContributors(round) ==
    {i \in Contributors(round) : StartOf(round, i).type = "AfterRoundContributions"}

(* Whom the drop monitor expects to be dropped, and whom a thread of the     *)
(* program kills (run_contributor).                                        *)
DropsExpected(round) == DOMAIN ContributorDrops(round)

DropsCaused(round) == {i \in Contributors(round) : DropOf(round, i) # NoDrop}

--------------------------------------------------------------------------------
(* All rounds of at most so many contributors, and lists that are up to one *)
(* too long.                                                               *)
BoundedLists(S, n) == UNION {[1 .. k -> S] : k \in 0 .. n}

BoundedRounds(n) ==
    {TestRound(c, drops, starts) :
        c \in 0 .. n, drops \in BoundedLists({0, 1}, n + 1),
        starts \in BoundedLists({CeremonyStart, RoundStart, AfterRoundContributions(1)}, n + 1)}

(* In a round that is accepted, the contributors the drop monitor expects to *)
(* be dropped are those that are killed, each after the contributions asked  *)
(* for: were one in one place only, the test would wait for a drop that      *)
(* nobody causes, or fail for one that was asked for.                       *)
DropsAgreeIn(round) ==
    /\ DropsExpected(round) = DropsCaused(round)
    /\ \A i \in DropsExpected(round) : ContributorDrops(round)[i] = DropOf(round, i)
    /\ Cardinality(DropsCaused(round)) = Len(round.contributor_drops)

(* In a round that is accepted every contributor is started, and by one of   *)
(* the two: at the start of the round as is said for those without a start   *)
(* ("will be started with the start of the round", TestRound), or when the   *)
(* list says so.                                                           *)
EachStartsOnceIn(round) ==
    /\ StartingContributors(round) \cup MidRoundContributors(round) = Contributors(round)
    /\ StartingContributors(round) \cap MidRoundContributors(round) = {}
    /\ MidRoundContributors(round) \subseteq 1 .. Len(round.contributor_starts)
================================================================================
