------------------------ MODULE RoundConfigurationProofs ------------------------
(***************************************************************************)
(* What RoundConfiguration promises of every round of a specification file,  *)
(* with any number of contributors, drops and starts, and after any number  *)
(* of contributions: in a round that is accepted the two places a drop is    *)
(* kept in agree, and every contributor is started in one way.              *)
(*                                                                         *)
(* The hypothesis is what serde makes sure of when it reads the file.        *)
(***************************************************************************)
EXTENDS RoundConfiguration, FiniteSetTheorems, TLAPS

(* ContributorStartConfig.                                                 *)
Starts == {CeremonyStart, RoundStart} \cup {AfterRoundContributions(n) : n \in Nat}

(* The rounds that serde reads from a specification file.                    *)
TestRounds == [contributors : Nat, contributor_drops : Seq(Nat),
               contributor_starts : Seq(Starts)]

--------------------------------------------------------------------------------
(* The drop of a contributor is the one that the list has for it, and None   *)
(* for those beyond its end.                                               *)
LEMMA DropOfListed ==
    ASSUME NEW r \in TestRounds, NEW i
    PROVE  /\ i \in 1 .. Len(r.contributor_drops) =>
                  /\ DropOf(r, i) = r.contributor_drops[i]
                  /\ DropOf(r, i) # NoDrop
           /\ i \notin 1 .. Len(r.contributor_drops) => DropOf(r, i) = NoDrop
BY NoDropAssumption DEF TestRounds, DropOf, ContributorDrops

(* The start of a contributor is the one that the list has for it, and       *)
(* RoundStart for those beyond its end.                                     *)
LEMMA StartOfListed ==
    ASSUME NEW r \in TestRounds, NEW i
    PROVE  /\ i \in 1 .. Len(r.contributor_starts) => StartOf(r, i) = r.contributor_starts[i]
           /\ i \notin 1 .. Len(r.contributor_starts) => StartOf(r, i) = RoundStart
           /\ StartOf(r, i) \in Starts
BY DEF TestRounds, StartOf, Get, Starts

(* A start is of one of the three types, and CeremonyStart is the only one   *)
(* of its own.                                                             *)
LEMMA StartTypes ==
    ASSUME NEW start \in Starts
    PROVE  /\ start.type \in {"CeremonyStart", "RoundStart", "AfterRoundContributions"}
           /\ start.type = "CeremonyStart" <=> start = CeremonyStart
           /\ start.type = "RoundStart" <=> start = RoundStart
BY DEF Starts, CeremonyStart, RoundStart, AfterRoundContributions

(* In a round that is accepted, whoever the drop monitor expects to be       *)
(* dropped is killed by a thread of the program and the other way round,    *)
(* after the same number of contributions, and there are as many as the     *)
(* list of the round has drops.                                            *)
THEOREM DropsAgreeAlways ==
    \A r \in TestRounds : ~ InvalidRound(r) => DropsAgreeIn(r)
<1> SUFFICES ASSUME NEW r \in TestRounds, ~ InvalidRound(r) PROVE DropsAgreeIn(r)
  OBVIOUS
<1> DEFINE n == Len(r.contributor_drops)
<1>1. n \in Nat /\ r.contributors \in Nat
  BY DEF TestRounds
<1>2. n <= r.contributors
  BY <1>1 DEF InvalidRound, TooMany
<1>3. DropsExpected(r) = 1 .. n
  BY DEF DropsExpected, ContributorDrops
<1>4. 1 .. n \subseteq Contributors(r)
  BY <1>1, <1>2 DEF Contributors
<1>5. DropsCaused(r) = 1 .. n
  BY <1>4, DropOfListed DEF DropsCaused
<1>6. Cardinality(1 .. n) = n
  <2> HIDE DEF n
  <2>1. n \in Int /\ 1 \in Int
    BY <1>1
  <2>2. Cardinality(1 .. n) = IF 1 > n THEN 0 ELSE n - 1 + 1
    BY <2>1, FS_Interval
  <2> QED
    BY <1>1, <2>2
<1>7. \A i \in DropsExpected(r) : ContributorDrops(r)[i] = DropOf(r, i)
  BY DEF DropsExpected, DropOf
<1> QED
  BY <1>3, <1>5, <1>6, <1>7 DEF DropsAgreeIn

(* In a round that is accepted every contributor is started either with the  *)
(* round or in the middle of it, never in both ways, and in the middle of it *)
(* only where the list of the round says so.                                *)
THEOREM EachStartsOnceAlways ==
    \A r \in TestRounds : ~ InvalidRound(r) => EachStartsOnceIn(r)
<1> SUFFICES ASSUME NEW r \in TestRounds, ~ InvalidRound(r) PROVE EachStartsOnceIn(r)
  OBVIOUS
<1>1. ASSUME NEW i \in Contributors(r)
      PROVE  StartOf(r, i) # CeremonyStart
  <2>1. CASE i \in 1 .. Len(r.contributor_starts)
    BY <2>1, StartOfListed DEF InvalidRound
  <2>2. CASE i \notin 1 .. Len(r.contributor_starts)
    BY <2>2, StartOfListed DEF CeremonyStart, RoundStart
  <2> QED
    BY <2>1, <2>2
<1>2. ASSUME NEW i \in Contributors(r)
      PROVE  StartOf(r, i).type \in {"RoundStart", "AfterRoundContributions"}
  BY <1>1, StartOfListed, StartTypes
<1>3. ASSUME NEW i \in Contributors(r), StartOf(r, i).type = "AfterRoundContributions"
      PROVE  i \in 1 .. Len(r.contributor_starts)
  BY <1>3, StartOfListed DEF RoundStart
<1> QED
  BY <1>2, <1>3 DEF EachStartsOnceIn, StartingContributors, MidRoundContributors

================================================================================
