---------------------------- MODULE SpecificationRun ----------------------------
(***************************************************************************)
(* Specification::run (specification.rs): the tests of the specification    *)
(* file one after the other, in one process.  Of integration_test (test.rs) *)
(* this is the setting up, before the ceremony; the ceremony is AbstractTest, *)
(* which IntegrationTest implements.  The log of all this goes through       *)
(* LogFileWriter.                                                          *)
(*                                                                         *)
(* The tests share the directory, the repositories and their binaries, the   *)
(* log writer and the port, so that what one test leaves is there for the    *)
(* next.                                                                   *)
(***************************************************************************)
EXTENDS LogFileWriter, AbstractTest, RoundConfiguration, SequencesExt

CONSTANTS Inputs,     \* the specifications, command lines and configurations
          RepoOrder,  \* the repositories in the order they are cloned
          CrateOrder, \* the crates in the order they are built
          RepoOf,     \* the repository each of them is in
          Needed,     \* the crates without whose binaries no ceremony begins
          MaxLines,   \* bound: entries logged
          MaxFaults   \* bound: the things that go wrong by themselves

Repos == ToSet(RepoOrder)
Crates == ToSet(CrateOrder)

ASSUME RunAssumption == /\ RepoOrder \in Seq(Repos) /\ CrateOrder \in Seq(Crates)
                        /\ RepoOf \in [Crates -> Repos]
                        /\ Needed \subseteq Crates
                        /\ MaxLines \in Nat /\ MaxFaults \in Nat

VARIABLES input,     \* what is asked for: see Asked
          run,       \* where Specification::run is: pc, and test, the index of the test
          results,   \* the results of the tests so far
          marks,     \* how many entries had been logged when each test began
          repos,     \* the state of each repository's directory
          bins,      \* the state of each crate's binary
          leftover,  \* whether a process of an earlier test may be there, other than
                     \* a contributor that started in the middle of a round
          faults

runVars == <<input, run, results, marks>>
diskVars == <<repos, bins>>
vars == <<logVars, testVars, runVars, diskVars, leftover, faults>>

--------------------------------------------------------------------------------
(* The tests that are run: those on the command line, skipped ones too, or   *)
(* if there are none, those that are not skipped.                           *)
AskedOf(in) == SelectSeq(in.tests,
                         LAMBDA t : IF in.only # {} THEN t.id \in in.only ELSE ~ t.skip)

Asked == AskedOf(input)

Test == Asked[run.test]

(* Mutation: whether a test is the first is looked at before they are        *)
(* filtered.                                                               *)
OptionsUnfiltered == [build   |-> input.build /\ Test = input.tests[1],
                      install |-> input.install /\ Test = input.tests[1]]

(* TestOptions: only the first of the tests that are run builds and installs. *)
(* clean is FALSE for all, so that keep_repos is never looked at.            *)
Options == [build   |-> input.build /\ run.test = 1,
            install |-> input.install /\ run.test = 1]

Outcomes == [outcome : {"ok", "error"}, built : BOOLEAN, alone : BOOLEAN]

RunPoints == {"begin", "next", "open", "clone", "build", "configure", "ceremony",
              "ok", "error", "panicked"}

TypeOK ==
    /\ LogTypeOK /\ TestTypeOK
    /\ input \in Inputs
    /\ run.pc \in RunPoints /\ run.test \in 0 .. Len(Asked) + 1
    /\ run.built \in BOOLEAN /\ run.alone \in BOOLEAN
    /\ results \in Seq(Outcomes) /\ Len(results) <= run.test
    /\ marks \in Seq(0 .. MaxLines)
    /\ repos \in [Repos -> {"absent", "partial", "whole"}]
    /\ bins \in [Crates -> {"absent", "old", "fresh"}]
    /\ leftover \in BOOLEAN /\ faults \in 0 .. MaxFaults

(* Repositories and binaries are there from an earlier program, or not.      *)
Init == /\ LogInit /\ TestInit
        /\ input \in Inputs
        /\ run = [pc |-> "begin", test |-> 0, built |-> FALSE, alone |-> FALSE]
        /\ results = <<>> /\ marks = <<>>
        /\ \/ repos = [r \in Repos |-> "absent"] /\ bins = [c \in Crates |-> "absent"]
           \/ repos = [r \in Repos |-> "whole"] /\ bins = [c \in Crates |-> "old"]
        /\ leftover = FALSE
        /\ faults = 0

--------------------------------------------------------------------------------
At(pc) == run.pc = pc
Goto(pc) == run' = [run EXCEPT !.pc = pc]

Fault == faults < MaxFaults /\ faults' = faults + 1

(* Whether it goes wrong because it must, or by itself.                     *)
FaultUnless(condition) == IF condition THEN UNCHANGED faults ELSE Fault

(* Mutation: the first error ends the run (as if the results were collected  *)
(* into one).                                                              *)
ReturnsOrStops(outcome) ==
    /\ results' = Append(results, [outcome |-> outcome, built |-> run.built, alone |-> run.alone])
    /\ run' = [pc |-> IF outcome = "error" THEN "error" ELSE "next",
               test |-> run.test + 1, built |-> FALSE, alone |-> FALSE]
    /\ UNCHANGED <<input, marks>>

(* A result of integration_test is kept, and the next test has its turn.     *)
Returns(outcome) ==
    /\ results' = Append(results, [outcome |-> outcome, built |-> run.built, alone |-> run.alone])
    /\ run' = [pc |-> "next", test |-> run.test + 1, built |-> FALSE, alone |-> FALSE]
    /\ UNCHANGED <<input, marks>>

(* No test is an error; the out directory is removed if it is to be.         *)
RunBegins ==
    /\ At("begin")
    /\ IF input.tests = <<>> THEN Goto("error") ELSE run' = [run EXCEPT !.pc = "next", !.test = 1]
    /\ IF input.tests # <<>> /\ input.clean THEN OutDirRemoved ELSE UNCHANGED logVars
    /\ UNCHANGED <<testVars, input, results, marks, diskVars, leftover, faults>>

(* The configuration or the specification cannot be read (main), or the out  *)
(* directory not be removed or made.                                       *)
RunFails ==
    /\ At("begin")
    /\ Fault
    /\ Goto("error")
    /\ UNCHANGED <<logVars, testVars, input, results, marks, diskVars, leftover>>

(* Mutation: the log of a test goes to the file of the one before it until   *)
(* its own is there.                                                       *)
TestBeginsLogging ==
    /\ At("next") /\ run.test <= Len(Asked)
    /\ marks' = Append(marks, emitted)
    /\ Goto("open")
    /\ UNCHANGED <<logVars, testVars, input, results, diskVars, leftover, faults>>

TestBegins ==
    /\ At("next") /\ run.test <= Len(Asked)
    /\ SetNoOutFile
    /\ marks' = Append(marks, emitted)
    /\ Goto("open")
    /\ UNCHANGED <<testVars, input, results, diskVars, leftover, faults>>

(* The directory of the test, its log, its configuration, and its keys.      *)
TestOpens ==
    /\ At("open")
    /\ SetOutFile(Test.id)
    /\ Goto("clone")
    /\ UNCHANGED <<testVars, input, results, marks, diskVars, leftover, faults>>

(* Mutation: a test without a log goes on.                                 *)
TestOpensAnyway ==
    /\ At("open")
    /\ Fault
    /\ OpenFails
    /\ Goto("clone")
    /\ UNCHANGED <<testVars, input, results, marks, diskVars, leftover>>

(* Mutation: a test that could not be opened is tried again, its error kept. *)
TestOpeningRetried ==
    /\ At("open")
    /\ Fault
    /\ OpenFails
    /\ results' = Append(results, [outcome |-> "error", built |-> FALSE, alone |-> FALSE])
    /\ UNCHANGED <<testVars, input, run, marks, diskVars, leftover>>

(* One of them fails.                                                      *)
TestOpeningFails ==
    /\ At("open")
    /\ Fault
    /\ OpenFails \/ CopyFails(Test.id) \/ SetOutFile(Test.id)
    /\ Returns("error")
    /\ UNCHANGED <<testVars, diskVars, leftover>>

--------------------------------------------------------------------------------
(* The first n repositories are cloned: clone_git_repository leaves alone    *)
(* a directory that is there, whatever is in it (as is a local repository).  *)
Cloned(n) == [r \in Repos |-> IF r \in ToSet(SubSeq(RepoOrder, 1, n)) /\ repos[r] = "absent"
                              THEN "whole" ELSE repos[r]]

ClonesRepos ==
    /\ At("clone")
    /\ repos' = Cloned(Len(RepoOrder))
    /\ Goto("build")
    /\ UNCHANGED <<logVars, testVars, input, results, marks, bins, leftover, faults>>

(* A clone that fails may leave part of the repository behind.              *)
CloneFails ==
    /\ At("clone")
    /\ Fault
    /\ \E n \in 1 .. Len(RepoOrder), state \in {"absent", "partial"} :
          /\ repos[RepoOrder[n]] = "absent"
          /\ repos' = [Cloned(n - 1) EXCEPT ![RepoOrder[n]] = state]
    /\ Returns("error")
    /\ UNCHANGED <<logVars, testVars, bins, leftover>>

Buildable(n) == \A k \in 1 .. n : repos[RepoOf[CrateOrder[k]]] = "whole"

(* The first n crates are built.                                           *)
Built(n) == [c \in Crates |-> IF c \in ToSet(SubSeq(CrateOrder, 1, n)) THEN "fresh" ELSE bins[c]]

Builds ==
    /\ At("build")
    /\ IF Options.build THEN /\ Buildable(Len(CrateOrder))
                             /\ bins' = Built(Len(CrateOrder))
                        ELSE UNCHANGED bins
    /\ Goto("configure")
    /\ UNCHANGED <<logVars, testVars, input, results, marks, repos, leftover, faults>>

(* One crate fails: those before it are built.                             *)
BuildFails ==
    /\ At("build")
    /\ Options.build
    /\ \E n \in 1 .. Len(CrateOrder) :
          /\ Buildable(n - 1)
          /\ FaultUnless(~ Buildable(n))
          /\ bins' = Built(n - 1)
    /\ Returns("error")
    /\ UNCHANGED <<logVars, testVars, repos, leftover>>

(* rustup fails, before anything is built.                                 *)
InstallFails ==
    /\ At("build")
    /\ Options.install
    /\ Fault
    /\ Returns("error")
    /\ UNCHANGED <<logVars, testVars, diskVars, leftover>>

--------------------------------------------------------------------------------
Present(crates) == \A c \in crates : bins[c] # "absent"

Invalid == \E k \in 1 .. Len(Test.rounds) : InvalidRound(Test.rounds[k])

(* The keys are generated, with the binaries, and the rounds configured;     *)
(* then the ceremony begins with nothing of this test running.              *)
Configures ==
    /\ At("configure")
    /\ Present(Needed) /\ ~ Invalid
    /\ run' = [run EXCEPT !.pc = "ceremony", !.built = \A c \in Crates : bins[c] = "fresh",
                          !.alone = ~ leftover]
    /\ UNCHANGED <<logVars, testVars, input, results, marks, diskVars, leftover, faults>>

ConfigureFails ==
    /\ At("configure")
    /\ FaultUnless(~ Present(Needed) \/ Invalid)
    /\ Returns("error")
    /\ UNCHANGED <<logVars, testVars, diskVars, leftover>>

(* The assertion on the view key, which is a panic of the whole program.     *)
ConfigurePanics ==
    /\ At("configure")
    /\ Present(Needed)
    /\ Fault
    /\ Goto("panicked")
    /\ UNCHANGED <<logVars, testVars, input, results, marks, diskVars, leftover>>

(* integration_test from the creation of its bus on.  A process whose binary *)
(* is missing cannot be started: the test is not Ok.                        *)
CeremonyGoesOn ==
    /\ At("ceremony")
    /\ TestNext
    /\ phase' = "ok" => Present(Crates)
    /\ UNCHANGED <<logVars, runVars, diskVars, leftover, faults>>

(* The next test is another one.                                           *)
AnotherTest == /\ phase' = "running" /\ round' = 0
               /\ present' = {} /\ helpers' = FALSE /\ announced' = FALSE

(* What an error leaves running goes on running.                           *)
CeremonyReturns ==
    /\ At("ceremony")
    /\ phase \in {"ok", "error"}
    /\ leftover' = (leftover \/ SomethingLeft)
    /\ Returns(phase)
    /\ AnotherTest
    /\ UNCHANGED <<logVars, diskVars, faults>>

CeremonyPanics ==
    /\ At("ceremony")
    /\ phase = "panicked"
    /\ Goto("panicked")
    /\ UNCHANGED <<logVars, testVars, input, results, marks, diskVars, leftover, faults>>

(* It may come to its own end.                                             *)
LeftoverEnds == /\ leftover
                /\ leftover' = FALSE
                /\ UNCHANGED <<logVars, testVars, runVars, diskVars, faults>>

(* The last error is returned, or Ok.                                       *)
RunReturns ==
    /\ At("next") /\ run.test > Len(Asked)
    /\ Goto(IF \E k \in 1 .. Len(results) : results[k].outcome = "error" THEN "error" ELSE "ok")
    /\ UNCHANGED <<logVars, testVars, input, results, marks, diskVars, leftover, faults>>

(* Every thread logs, those of an earlier test too, and main when it is over. *)
SomebodyLogs == /\ emitted < MaxLines
                /\ Logs
                /\ UNCHANGED <<testVars, runVars, diskVars, leftover, faults>>

(* The thread of the non-blocking writer.                                   *)
LogWorkerStep ==
    /\ \/ Write /\ UNCHANGED faults
       \/ Flush /\ UNCHANGED faults
       \/ WriteFails /\ Fault
    /\ UNCHANGED <<testVars, runVars, diskVars, leftover>>

Next == \/ RunBegins \/ RunFails \/ TestBegins \/ TestOpens \/ TestOpeningFails
        \/ ClonesRepos \/ CloneFails \/ InstallFails \/ Builds \/ BuildFails
        \/ Configures \/ ConfigureFails \/ ConfigurePanics
        \/ CeremonyGoesOn \/ CeremonyReturns \/ CeremonyPanics
        \/ LeftoverEnds \/ RunReturns \/ SomebodyLogs \/ LogWorkerStep

Spec == Init /\ [][Next]_vars

--------------------------------------------------------------------------------
(* "Stop logging to file, buffer log output in memory until set_out_file is   *)
(* called again": nothing that is logged after a test has begun goes to the  *)
(* log of a test before it, however far behind the worker is and whichever   *)
(* tests could not make a log of their own.                                 *)
LinesStayForward ==
    \A k \in 1 .. Len(marks) : \A f \in Files : \A n \in Entries :
        n > marks[k] /\ Has(content[f], n) => \E j \in k .. Len(marks) : Asked[j].id = f

(* An Ok leaves no line of the log behind in memory: it is in a file, or the *)
(* worker has yet to write it to one, unless its writing was an error.       *)
LogReachesDisk ==
    At("ok") /\ results # <<>> =>
        \A n \in Entries : \/ Has(queue, n) \/ n \in lost
                           \/ \E f \in Files : Has(content[f], n)

(* Every test that is asked for has its turn, whatever became of those before *)
(* it, but for a panic; and one error among them is an error of the program.  *)
EveryTestHasItsTurn ==
    (At("ok") \/ At("error")) /\ run.test > 0 =>
        /\ Len(results) = Len(Asked)
        /\ At("ok") <=> \A k \in 1 .. Len(results) : results[k].outcome = "ok"

(* If the components are to be built, an Ok says that every test ran on       *)
(* binaries built by this program: the build that only the first test does,  *)
(* which may be broken off half way, has to count for all.                   *)
OkMeansBuilt ==
    At("ok") /\ input.build => \A k \in 1 .. Len(results) : results[k].built

(* A ceremony shares its port and its repositories with no coordinator,       *)
(* verifier, state monitor, replacement or contributor that starts with a     *)
(* round of an earlier test, unless one of those tests has failed.            *)
(* Contributors that start in the middle of a round are left out: a test that *)
(* returns Ok may leave one running (OkLeavesNobody of IntegrationTest).      *)
AloneUnlessFailed ==
    At("ceremony") /\ ~ run.alone => \E k \in 1 .. Len(results) : results[k].outcome = "error"

(* The two places a drop is kept in agree, in all valid rounds of at most two *)
(* contributors and two replacements (BoundedRounds): that does not depend    *)
(* on the state, and is looked at where a run begins.                        *)
DropsAgree ==
    At("begin") => \A r \in BoundedRounds(2) : ~ InvalidRound(r) => DropsAgreeIn(r)

(* Every contributor is started once, in all rounds of that size.             *)
EachStartsOnce ==
    At("begin") => \A r \in BoundedRounds(2) : ~ InvalidRound(r) => EachStartsOnceIn(r)
================================================================================
