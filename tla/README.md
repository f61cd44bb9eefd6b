# A TLA+ model of aleo-setup-integration-test

The program runs a whole Aleo setup ceremony on one machine: it starts a
coordinator, verifiers, contributors and perhaps a state monitor as child
processes, reads what the coordinator prints, waits for the stages of each
round, kills the contributors that are configured to be dropped, and says
whether the ceremony went as configured. What makes it hard is that all of this
is threads around one broadcast channel: every promise of a test ("it ends", "an
error makes it fail", "nothing is left running") is kept by several threads
that must each see the right message at the right time. A specification file
holds several tests, which are run one after the other in the same process, with
one log writer, one set of repositories and one port: what a test leaves behind is
there for the next.

Contents: [inventory](#inventory) ·
[modules](#modules-and-how-they-correspond-to-the-code) ·
[runs](#runs) · [fairness](#fairness) · [proofs](#proofs) ·
[where code and documentation disagree](#where-code-and-documentation-disagree) ·
[what the model assumes](#what-the-model-assumes) ·
[plan](#plan) · [how to run](#how-to-run)

Paths are relative to `src/src/` of the repository.

## Inventory

| component | state | operations | talks to |
|---|---|---|---|
| ceremony bus (`lib.rs`, `mpmc_bus`) | messages broadcast, one position per receiver | broadcast, recv, try_recv, subscribe, clone | everybody |
| coordinator reporter (`coordinator.rs` 254-485) | `current_state`: phase and round | one arm of `parse_output_line` per phase | reads the coordinator's output, broadcasts |
| process supervision (`process.rs`, `contributor.rs`, `verifier.rs`, `state_monitor.rs`) | child, monitor thread, messages thread, `terminate_process`, a contributor's ceremony thread and its count | start, poll, SIGTERM, join | ceremony bus, a monitor bus per process |
| drop monitor (`drop_participant.rs`) | the drops yet to come | RoundFinished, Shutdown, ParticipantDropped | ceremony bus; joined by `test_round` |
| waiters (`waiter.rs`, `ceremony_waiter.rs`) | messages yet to come, or contributions counted | receive, start a contributor | ceremony bus; joined by the main thread |
| joins (`join.rs`) | the join a `JoinLater` holds | register, join | main thread, contribution waiter |
| time limit (`time_limit.rs`) | elapsed time | expire, stop on Shutdown | ceremony bus; joined last |
| main thread (`test.rs` 226-859) | where it is, the joins it holds, `round_errors` | the steps of `integration_test` and `test_round` | all of the above |
| coordinator, contributors, verifiers, state monitor | - | external programs | standard output, signals, exit status |
| round configuration (`test.rs` 341-517) | - | the drops and starts of a `TestRound`, contributor by contributor | used by `test_round` |
| specification (`specification.rs`, `main.rs`) | the test it is at, the results so far | filter, clean, one test after the other, the result | calls `integration_test`, `set_no_out_file` |
| setting up a test (`test.rs` 226-517, `git.rs`, `rust.rs`) | repositories and binaries on the disk | log file, clone, install, build, keys, configuration | external programs, the log writer |
| log file (`reporting.rs`) | buffer, file, lock; the channel of the non-blocking writer | write, flush, `set_no_out_file`, `set_out_file` | written to by every thread, switched by the main thread |
| parsing (`config.rs`, `options.rs`), `npm.rs`, `util.rs` | - | sequential | not modelled (see [below](#not-modelled)) |

What makes each correct:

- **reporter**: messages in the order of the ceremony, no stage left out, no
  drop of a round that waits or runs lost, never more than one step from the
  coordinator although it never reads a round number;
- **process supervision**: kills only with cause, hears every Shutdown, announces
  every failure of a child it has not told to stop, and its threads can then be joined;
- **drop monitor**: its verdict is right both ways, and it ends;
- **waiters**: in time for their message;
- **main thread**: `Ok` hides no error, leaves nothing running, and means the
  rounds were finished and the drops occurred; with a time limit it ends;
- **round configuration**: a contributor's drop is the same in the two places it is
  kept in, and every contributor is started once;
- **specification**: every test has its turn, `Ok` means all were `Ok` on binaries that
  were built if they were to be, and a test does not meet what another has left
  unless that one failed;
- **log file**: nothing is lost or written twice when files are switched, each file is
  in order, and what a test logs does not go to an earlier test's file.

The behaviours that are hard to test, each at its line, are the `hazards` of
`PROJECT.json`. The ones that shaped the model: receivers that are cloned after
the message they wait for; a Shutdown in the middle of the starting sequence; a
child that fails while it is being terminated; a join that returns because there
is nothing to join yet; the second round's threads among the first round's
messages.

## Modules and how they correspond to the code

```
CeremonyBus
 |- CoordinatorReporter -- SetupCoordinator      coordinator.rs, and the coordinator
 |- ProcessMonitor                               process.rs, contributor.rs, ...
 |- DropMonitor                                  drop_participant.rs
 |- MessageWaiter                                waiter.rs, ceremony_waiter.rs
 `- IntegrationTest  (INSTANCEs of the four)     test.rs 519-859, join.rs, time_limit.rs
        | implements
    AbstractTest        what a test promises to the one after it
        | used by
    SpecificationRun                             specification.rs, main.rs, test.rs 226-517
     |- LogFileWriter                            reporting.rs
     `- RoundConfiguration                       test.rs 341-517
```

**CeremonyBus.** The channel is the sequence `log` of all that was broadcast and
a receiver is a position in it. A receiver that is made by `subscribe` or `clone`
starts at the end of the log. This is the reading under which the code can work
at all: round 2 is given clones of a receiver that never read round 1, and would
otherwise be told of the first round's end at once. A thread that ignores a
message takes no step for it: it goes, in one step, to the next message that
concerns it.

**CoordinatorReporter.** `reporter` is `CoordinatorStateReporter::current_state`,
`pipe` the lines not read yet, `reporting` whether the thread still reads. One
action per arm of `parse_output_line` (`ReportBooted` .. `ReportRestart`),
`IgnoreLine` for lines that match nothing, `RejectLine` and `LogFileFails` for the
errors that `fallible_monitor` turns into a Shutdown and a panic. Alone
(`ReporterSpec`) it is composed with a coordinator that writes any line at any
moment.

**SetupCoordinator.** The coordinator: `phase`, `round` (the number it gives its round), `waits`
(how often it has waited for participants), what `state.json` lists for each round (`rosters`), the
contributors it has had (`taken`) and dropped. One line per event of the ceremony, and
besides those, in every phase, a line that matches nothing (it runs with `RUST_LOG=debug`,
230), a drop of anybody once it has booted, and a spoilt line. When it has given up a round it
may wait for new participants and count from 1 again (`CoordinatorRollsBack`), as the line
matched at 289 says. `Spec` composes it with the reporter. `waits` is the number to which
the reporter's rounds are compared, since that counts the rounds and does not read their numbers.

**ProcessMonitor.** Per process: `child`, `monitor` (thread), `messages` (thread),
`messagesRx`, `terminate` (a Terminate it has been sent, or `terminate_process`),
and for a contributor `ceremony` (thread), `ceremonyRx`, `contributions`. The loop
of the messages thread is `MessagesSubscribe`, then `ProcessExited`, `ProcessFailed`, or
`FindsRunning` and `TerminateProcess`, which are two steps: the child is polled (156) before it is
sent the SIGTERM (175), and what it does in between nobody looks at; the `match` of the ceremony thread is
`CeremonyShutdown`, `CeremonyRoundFinished`, `CeremonyDrops`, `CeremonyCounts`.
`JoinReturns` and `JoinFails` say when a join of the process returns and with what.

**DropMonitor.** `drops` is the thread: its status, where its receiver started,
how far it has read, the drops configured and those missing.

**MessageWaiter.** `spawn_expected` waiters have no effect but their result, which
is a function of the log (`WaiterResult`); the contribution waiters are threads
(`waiter`), and `"started"` says that the contributor's join is registered.

**IntegrationTest.** `main` is the main thread: `pc`, `round`, `todo` (what it has yet
to start or join), `rx` (where the round's receivers started), `errors`
(`round_errors`). Every `?`, every join and every loop of `integration_test` and
`test_round` from the creation of the bus on is a step of `MainStep` or
`ReturnsError` (what cannot be started, and results that cannot be written, 853-856). The other threads are the actions of the other modules.

**AbstractTest.** What the run of a specification may count on in a test: rounds in order
that do not overlap, `Ok` only with no error announced and nothing left, and
a result that is final. `Promise` in `IntegrationTest` is the refinement mapping (the
states of the children become `present` and `helpers`, the log becomes `announced`), and
`KeepsPromise` says that `IntegrationTest` implements it. Of the processes it knows
those that a round starts with, and those of all rounds; a contributor that
starts in the middle of a round is not promised anything about, which is what
`mid_round_orphan` shows to be necessary.

**LogFileWriter.** `buffer` and `file` are the fields of `LogFileWriterInternal`, `queue` is the
channel of the non-blocking writer, `content` the files. Every method holds the lock from
its beginning to its end, so a call is a step: `Write`, `Flush` (worker), `SetNoOutFile`,
`SetOutFile` (main thread), and their failures: `WriteFails`, `OpenFails`, `CopyFails`, which
differ in what has been done when the error returns. `halfway` and `lost` remember what
failed, for the properties.

**RoundConfiguration.** Operators: `InvalidRound` for the errors, `DropOf` and `StartOf` for a
contributor's entry in the lists, `StartingContributors`, `MidRoundContributors`,
`DropsExpected` and `DropsCaused` for what `test_round`, `monitor_drops` and
`run_contributor` make of it. The constants `Starting`, `Joining`, `StartAfter` and
`DropAfter` of `IntegrationTest` are results of these.

**SpecificationRun.** `run` is where `Specification::run` and, within a test,
`integration_test` are: `begin`, `next` (between tests), `open`, `clone`, `build`, `configure`,
`ceremony`. One action for each of these stages ending well and one for each way
it returns an error; a ceremony is the steps of `AbstractTest`
(`CeremonyGoesOn`, `CeremonyReturns`, `CeremonyPanics`). `repos` and `bins` are the disk, `leftover` is
whether a process of an earlier test may still run, `marks` how much had been logged
when each test began.

The modules `MC...` give TLC the small instances; the modules `...Proofs` hold the
theorems. An operator under a comment `Mutation:` is a plausible bug: the operator
after it is the code, and the mutant is what TLC must be able to tell from it.

## Runs

| run | instance | checks | states |
|---|---|---|---|
| `reporter` | 2 rounds (or 1 and a roll-back), 2 contributors, 1 chunk a round, pipe of 2 | `TypeOK`, `RoundMessagesInOrder`, `NoStageSkipped`, `ReporterInSync`, `DropsReachTheBus`, `FinishReported` | 245 000 |
| `process` | 1 contributor with a drop, 4 messages | `TypeOK`, `KilledWithCause`, `ShutdownLetsJoin`, `RoundEndStopsContributor`, `FailureIsAnnounced` | 81 000 |
| `drops` | 2 contributors, 1 verifier, 4 messages, any configuration, round after round | `TypeOK`, `VerdictSound`, `FailureJustified`, `RoundEndEndsThread` | 112 000 |
| `one_round` | coordinator, 1 contributor with a drop, 2 faults | `TypeOK`, `NoErrorHidden`, `OkLeavesNothing`, `OkMeansFinished`, `OkMeansDropped`, `KeepsPromise` | 410 000 |
| `time_limit` | coordinator that waits twice, 1 contributor, time limit | `EndsUnlessDeaf` | 109 000 |
| `two_rounds` | 2 rounds of a contributor each, 1 drop, 1 replacement, coordinator that waits 3 times | `WaitersInTime`, `RoundsDoNotOverlap`, `KeepsPromise` | 191 000 |
| `mid_round` | 1 contributor with a drop, 1 that joins after a contribution, 2 chunks | `KeepsPromise` | 332 000 |
| `specification` | 7 specifications and command lines of up to 2 tests, 2 repositories, 3 crates, 3 log entries, 2 faults | `TypeOK`, `NothingLost`, `FilesInOrder`, `InOneFile`, `LinesStayForward`, `LogReachesDisk`, `EveryTestHasItsTurn`, `OkMeansBuilt`, `AloneUnlessFailed`, `DropsAgree`, `EachStartsOnce` | 952 000 |

The other four runs are expected to find a violation; see
[below](#where-code-and-documentation-disagree).

Why the bounds are enough. The interesting cases are orders of a few events, and
each instance holds one more of the thing that matters than a single case needs:

- `reporter`: a second round is where a stale round number would show, two
  contributors let one be dropped and the other go on, a pipe of two lines lets
  the reporter lag behind the coordinator.
- `process`: four messages are a Shutdown, a RoundFinished, a contribution and a
  further one in every order; a contributor has every thread a service has and one
  more, so that services need no instance of their own here. The processes do not
  share state but the log, so one is enough.
- `drops`: with four messages there can be two rounds of two messages, or one with
  two drops, a repetition and an end.
- `one_round`: two faults are enough for an error that meets another one on its
  way (a child that fails while the log file of another cannot be written).
- `two_rounds`, `mid_round`: the smallest instances with a boundary between rounds
  and with a contributor that starts late. In `two_rounds` the coordinator may wait once
  more than there are rounds (`MaxWaits`), so that it can roll back in either of them, or
  go on to a round the test has no contributors for.
- `time_limit`: a state monitor or a verifier is one more process like the coordinator
  that hears a Shutdown or is made too late for it; `time_limit_ends` has both.
- `specification`: the inputs are the cases the code tells apart: no test, a skipped one that
  is first, a test asked for that is skipped or not the first, two tests of one id (which
  share a log), a round that is not valid, building or not, cleaning or not. Two
  faults let a test fail after another has, or the writing of the log fail in a test
  that fails; three entries are one in a file, one in memory and one in the channel. A
  build of three crates of two repositories can break off between crates of one
  repository. `DropsAgree` and `EachStartsOnce` are about all rounds of up to two contributors
  with lists of up to three entries.

`CHECK_DEADLOCK FALSE` is set in every run because every one may rightly stop:
the main thread ends, messages are bounded, and a test without a time limit may
wait for a coordinator that says nothing.

## Fairness

Only where a property is a liveness property, and only for threads of the
program and for one thing of the operating system:

- every thread that has a step to take takes it in the end (weak fairness of
  `MessagesStep`, `CeremonyStep`, `ReporterStep`, `DropStep`, `MainStep`, and
  `WaiterStarts`): they are operating-system threads that are blocked or polling in a
  loop with a sleep, and nothing they wait for is withdrawn from them;
- the time limit strikes if nothing stops it (`TimeLimitExpires`);
- a child that has been sent a SIGTERM ends (`ChildTerminated`). This is the one
  assumption about programs that are not the code's; without it nothing would
  end the child, since the code sends one SIGTERM and looks no further
  (`process.rs` 170-179).

No fairness is assumed of the coordinator, of contributors, or of a child's ending by
itself. Nothing obliges the test to make progress but its threads.

## Proofs

Checked by TLAPS, for every number of participants, rounds, faults and Shutdowns, every
configuration and every length of the log, from the named assumptions on the
constants alone (`ParticipantsAssumption`, `GarbledAssumption`, `CoordinatorAssumption`,
`ProcessesAssumption`, `DropBoundAssumption`, `LogFilesAssumption`, `RunAssumption`,
`TestAssumption`, `KindsAssumption`, `RoundsAssumption`, `NoDropAssumption`). TLC evaluates each
of these on the instances of the runs.

| module | theorem | of |
|---|---|---|
| `CoordinatorReporterProofs` | `OrderCorrect` (the inductive invariant), `RoundMessagesInOrderCorrect`, `NoStageSkippedCorrect`, `ReporterTypeCorrect` | `ReporterSpec` |
| `SetupCoordinatorProofs` | `SetupRefinesReporter`, `SetupInOrder`, `SetupTypeCorrect`; `SyncCorrect` (inductive), `ReporterInSyncCorrect`, `DropsReachTheBusCorrect`, `AnnouncedCorrect` | `SetupCoordinator!Spec`, `OpenSpec` |
| `DropMonitorProofs` | `VerdictInvariant` (inductive), `VerdictSoundCorrect`, `FailureJustifiedCorrect`, `DropTypeCorrect` | `DropMonitor!Spec` |
| `ProcessMonitorProofs` | `CauseInvariant` (inductive), `KilledWithCauseCorrect`, `ProcessTypeCorrect` | `ProcessMonitor!Spec` |
| `IntegrationTestProofs` | the invariants `IntegrationTypeCorrect`, `JoinedCorrect`, `ErrorCorrect`, `FaultCorrect`, `DropsCorrect`, `FinishCorrect`, `FutureCorrect`, `RosterCorrect`; `RoundsApart`, `NothingLeft`, `ErrorReaches`, `ErrorsShow`, `DropsHappened`, `RoundsFinished`, `WaitersAlwaysInTime`, `WaitersInTimeInQuiet`; `OpenRun`, `CeremonyReported`, `BegunWhenAnnounced`; `PromiseKept` | `IntegrationTest!Spec` |
| `LogFileWriterProofs` | `LogTypeCorrect`, `NothingLostCorrect`, `OrderCorrect` (the inductive invariant), `FilesInOrderCorrect`, `InOneFileCorrect` | `LogSpec` |
| `RoundConfigurationProofs` | `DropsAgreeAlways`, `EachStartsOnceAlways` | every round |
| `SpecificationRunProofs` | `RunImplementsLog`, `RunTypeCorrect`, `RunInvCorrect` (the inductive invariant), `EveryTestHasItsTurnCorrect`, `LinesStayForwardCorrect`, `LogReachesDiskCorrect`, `OkMeansBuiltCorrect`, `AloneUnlessFailedCorrect`, `CeremonyConfigured` | `SpecificationRun!Spec` |

**The order of round messages.** That each round message has a higher rank than the
ones before it is not inductive: nothing in it ties the log to the state the
reporter is in. `OrderInv` adds that tie: the reporter's phase and round stand for a
rank (`Height`), no round message is above it, and while a round is on one message is
exactly at it. So the next announcement is above all others, and has the one it
follows in the log. After a round that is rolled back (`ReportRestart`) there may be
nothing at that rank, but the next round then begins with a message that needs no
predecessor. The theorem is about
a coordinator that writes anything, and `SetupRefinesReporter` carries it over to
the coordinator of `SetupCoordinator`: every step of the composition is a step or
a stutter of `ReporterSpec`.

**In step with the coordinator.** After `RoundFinished` the reporter takes any line for the next
round's beginning, and the coordinator may print one at any moment: so the reporter may be one
step early, waiting for the next round while the coordinator still is at the end of this
one. `InSync` allows that and no more. It is enough for the stages that follow, because the
reporter then passes over everything but the start of a round, and for the drops of a
round, because a reporter that waits looks for them. `ReporterInSync` and `DropsReachTheBus` speak of
an empty pipe only, so they say nothing about what the lines still in it will do. `SyncInv` has
the whole way: a sequence of states, one for each line in the pipe, from the state of the
reporter to one that is in step with the coordinator (`Foresees`, `InSync`); every drop made while a
round waits or runs is on the bus or is a line that will be read in a state that looks for drops
(`SeesEveryDrop`); and in no state on the way has a round started that the coordinator has not
(`NeverAhead`), from which `AnnouncedInv` follows: no stage of an r-th round but the wait for
it is announced before the coordinator has started a round for the r-th time. All of this holds
with roll-backs, where the number the coordinator gives its round is another. These are
proved of `OpenSpec`, which is `SetupCoordinator!Spec` without the bound that TLC needs on the
Shutdowns of other threads.

**The verdict on the drops.** The invariant says that while the thread listens, what is
missing is what is expected less what has been dropped within what it has read, and
that all of the latter was expected. A verdict is a fact about a part of the log
that is read and will not change, so it survives later messages; the lemmas are
about that part.

**Killed with cause.** `KilledWithCause` speaks of children and messages, but the SIGTERM goes
by the flag `terminate` and the flag by the thread's own count. `CauseInv` adds a
link for each: a flag that is set has a cause in the log (`FlagHasCause`), the count
is at most the contributions in the part of the log the thread has handled
(`CountSound`), that part is within the log (`InTheLog`), and a contributor that is
yet to start has counted nothing (`NotStarted`), without which its first position
could be before what it has counted; and a thread that is about to terminate its child has a cause
to (`SigtermHasCause`). The lemmas `CountGrows`, `CountNext` and
`CountStays` are the arithmetic of counting in a growing log.

**A whole test.** What a step may do to the whole state, whoever takes it, is said once
(`Effects`) and proved thread by thread (`StepEffects`); every invariant after it is proved
from `Effects` and from what the main thread does at one point.

- `MainInv` is the shape of the main thread: its point, and the list that goes with it. With
  the types it is the base of all the others.
- `JoinedInv`: what the main thread has taken off its list without an error is over, with all
  its threads, and what is over stays so (`EndsLast`). At the end of the list that is everybody
  (`NothingLeft`), and at the next round all who began the last one (`RoundsApart`).
- `ErrorInv`: of an error that was announced something remains for the main thread to
  find: a thread that has panicked, a time limit that expired, a bad verdict, or an error it keeps
  itself. That an error is in the log alone would not be inductive, since the main thread
  does not look at the log when it returns. `ErrorReaches` then holds with no hypothesis:
  an error that `Ok` hides is one of a contributor started in the middle of a round.
- `DropsInv` and `FinishInv` are the same argument for the drops and for the ends of rounds:
  what was waited for did happen, or there was an error, or the coordinator has rolled back
  (`GaveUp`), which remains so if it begins again at round 1 (`coord.round < coord.waits`).
- `FaultInv`, `FutureInv`: nothing fails before something goes wrong; nobody is there before
  the round he belongs to.

`ErrorsShow`, `DropsHappened`, `RoundsFinished` and `PromiseKept` have the hypothesis
`DOMAIN StartAfter = {} \/ MaxFaults = 0`: no contributor starts in the middle of a round, or nothing
goes wrong by itself. It is not there for the proof: with such a contributor and a fault
the statements are false, by the disagreement of `mid_round_orphan` below. `RoundsApart`,
`NothingLeft` and `ErrorReaches` have no hypothesis.

**The coordinator in its test.** `OpenRun`: every test, seen from its coordinator and reporter, is a
run of `OpenSpec`, since all others leave them alone and may at most say Shutdown. So
all that is proved there holds in a test (`CeremonyReported`, `BegunWhenAnnounced`).

**The waiters in time.** `WaitersInTime` relates the receivers of a round to what the coordinator
did before they were made, and the coordinator goes its own way. `RosterInv` ties the two: the
coordinator starts a round, whatever number it gives it, with contributors of the round of the main
thread, since those of earlier rounds are over (`JoinedInv`) and those of later ones not yet there
(`FutureInv`), and it cannot start one more without others (`taken`). With several contributors it
may: it starts a round with some, and another with the rest, ahead of the main thread. `RosterInv` says what
is then the case: the main thread is still before the check of the participants, and that check
will fail. So when the main thread is ready for the next round, the coordinator has not started it, no stage
that a waiter waits for is announced (`BegunWhenAnnounced`), and the round's receivers are in
time (`TimelyInv`).
A Shutdown undoes the argument, because a waiter ends at one and the check is then not made. Hence the
two theorems: `WaitersAlwaysInTime`, for one contributor that starts with each round, whatever is
broadcast; `WaitersInTimeInQuiet`, for any number of them, unless a Shutdown was broadcast before the
receivers were made. Both are for tests in which nobody joins in the middle of a round; otherwise it is
false (see the last of the observations [below](#where-code-and-documentation-disagree)).

**The log.** `FilesInOrder` is kept only because of what is on its way to the file:
`OrderInv` adds that the channel and the buffer are in order, that all the buffer holds is
earlier than what the channel holds, that no entry is numbered above what was
logged, and that the buffer is empty while a file is set. The last is what makes
it right that the worker writes to the file without looking at the buffer, and it
holds because `set_out_file` clears the buffer in the same critical section. The lemmas
turn the order of sequences into facts about what they hold (`Has`), so that appending,
concatenating and taking the head can each be argued once. `InOneFile` follows
since an entry leaves the channel or the buffer for one file, and the entries of any
other are earlier.

**The configuration of a round.** `DropsAgreeAlways` and `EachStartsOnceAlways` are about every list of
drops and starts, of any length, that `InvalidRound` lets pass; the run looks at lists of
up to three. `CeremonyConfigured` is what they are for: no ceremony begins with a round for which they
fail.

**The run of a specification.** `RunImplementsLog`: each step is a step of `LogFileWriter` or leaves it
alone, so that its theorems hold of the whole program (`RunLosesNothing`,
`RunLogsInOrder`, `RunLogsOnce`). `RunInv` counts: one result for each test before this one,
one mark for each that has begun, and at the end as many as there are tests.
On it rest four invariants: `FileInv` (the file that is set is that of the last test that has
begun, and is set once that test has opened it), with `OrderInv` for what is logged
but not yet written; `BuiltInv` (what the first test built stays built, and what a ceremony
runs on is recorded as it begins); `AloneInv` (what is left over is left by an error; a
contributor that started in the middle of a round is not counted in `leftover`, since an `Ok` test
may leave one, as `mid_round_orphan` shows).
These use of a ceremony what `AbstractTest` promises, and `PromiseKept` is the proof that
`IntegrationTest` keeps it.

Only model-checked: the liveness properties (`FinishReported`, `ShutdownLetsJoin`,
`RoundEndStopsContributor`, `FailureIsAnnounced`, `RoundEndEndsThread`, `EndsUnlessDeaf`), since fairness
and ENABLED are beyond the prover. Of the invariants and action properties of the runs that pass,
`DropsAgree` and `EachStartsOnce` are bounded instances of `DropsAgreeAlways` and
`EachStartsOnceAlways`; each of the others is stated by a theorem, some of them under the
hypotheses above.

## Where code and documentation disagree

Each of these is a run that is expected to fail, of one property that states what
the documentation says.

| run, property | the documentation | what the run shows |
|---|---|---|
| `time_limit_ends`, `TimeLimitEndsTest` | `test.rs` 150-152: "If this time is exceeded, the test will fail." | The limit strikes while the coordinator boots: `coordinator_ready.join()` returns for the Shutdown as for the message (564-567), the verifier and the round's threads clone their receivers after it, and the test goes on for ever. |
| `waiter_shutdown`, `WaiterHeedsShutdown` | `lib.rs` 104: "Tell all the recievers to shut down."; `test.rs` 820: "Wait for threads to close after being told to shut down." | The contribution waiter passes over a Shutdown (`ceremony_waiter.rs` 25-40); `test_round` waits for it at 822. |
| `mid_round_orphan`, `OkLeavesNobody` | `test.rs` 613-617: "Tell the other threads to shutdown, safely terminating their child processes." | A `JoinLater` is joined before the waiter that registers into it (`join.rs` 20, 67-71, 90), so the contributor is not waited for. |
| `replacements`, `HelpersRunning` | `test.rs` 650-652: "It is expected that the coordinator, verifiers and replacement contributors are already running before this function is called." | A replacement is terminated at the first RoundFinished (`contributor.rs` 201-210). |

`EndsUnlessDeaf` is what remains true of the first: a test with a time limit ends unless
some Shutdown was broadcast before a receiver of the round, of the drop monitor or of a
process was made, or found a contribution waiter waiting.

Disagreements that need no run to be seen, and what else was observed:

- `drop_participant.rs` 25-27: `monitor_drops` "Returns an error if an unexpected drop occurs". It
  hears of drops through the reporter, and the arms of `parse_output_line` for a round that is
  aggregated or finished do not look for them (`coordinator.rs` 418-439): such a drop, expected or
  not, is swallowed. `DropsReachTheBus` is therefore about drops made while a round waits or runs.
- `coordinator.rs` 270-271: `RoundFinished` is "Waiting to confirm that the next round is awaiting
  participants". Any line confirms it (434-438), whatever it says, and the coordinator runs with
  `RUST_LOG=debug` (230): the wait for the next round may be announced while the coordinator is
  still at the end of this one, or has rolled back. Nothing in the program waits for that
  message but `coordinator_ready`, for round 1, so the next round is not disturbed:
  `ReporterInSync` says how far the reporter may be ahead, and the properties of whole tests hold with it.
- After a roll-back (289) the coordinator counts its rounds from 1 again and the reporter goes on
  counting (the TODO at 340): a round the coordinator calls 1 is announced as `RoundStarted(2)`, and
  `check_participants_in_round` then looks for a state file of a round there may not be.
- `process.rs` 118-121: the messages thread "also monitors the exit status of the process, and
  if there was an error it will request a `Shutdown` and panic with the error". Not if the child
  fails between the poll (156) and the SIGTERM (175): the thread then ends gracefully (179). Nor if it
  fails after the SIGTERM. `FailureIsAnnounced` says that every failure is announced unless
  the thread had been told to terminate the child.
- `process.rs` 170-172: "This will send SIGTERM until the shutdown is detected in
  process.poll()". One SIGTERM is sent, and the loop is left (179).
- `config.rs` 29-34 and `default-config.ron`: `keep_repos` is to keep `clean` from deleting
  the repositories. `Specification::run` gives every test `clean: false` (`specification.rs` 129,
  145) and itself removes the out directory only (93-100), so that nothing ever deletes a
  repository, and lines 236-262 of `test.rs` are not reached.
- `main.rs` 66-69 reports the error "to tracing and log file". If the last test failed before
  it had a log file, or the run before any test, no file is set: the report is in
  memory and ends with the program. `LogReachesDisk` is therefore about `Ok`.
- With a contributor that starts in the middle of the first of two rounds, `WaitersInTime`
  fails: that contributor may be started late enough to be nobody's to join (as in
  `mid_round_orphan`), and it lets the coordinator begin the second round before its
  waiters exist; the test then waits for ever. `two_rounds` has no such contributor.

## What the model assumes

- A receiver made by `subscribe` or `clone` starts at the end of the log. The
  channel is unbounded and never disconnected: `integration_test` keeps a sender
  and a receiver to its end. Its capacity of 1000 is not modelled.
- Sending on a monitor bus whose messages thread is over may or may not be an error
  (`SendTerminate`).
- The coordinator prints one line per event, and any other line at any moment; when it
  begins to wait for a round after the first it prints some line, which may be one that matches
  nothing. No line matches two of the regular expressions. It starts
  a round with contributors that have come, that were not dropped, and that have not
  been in a round before; contributors come if they were started and are not
  replacements. It gives up a round only when no replacement stands by, and may then wait
  for participants again, for a round it numbers 1. It waits at most `MaxWaits` times.
- In `SetupCoordinator` alone it may drop anybody at any moment once it has booted. In a whole
  test it is for it to drop a participant that is gone while a round waits or runs; any other drop
  (of one that runs, or while a round is aggregated or over) counts as a fault, of which an
  instance has `MaxFaults`.
- In a whole test a line that matches nothing is of interest only when a round is over, and only
  until the reporter has gone ahead because of one: in all its other states the reporter passes
  over it (`IgnoreLine`, which changes nothing), so it is left out there. Its state file may or may not still list a
  contributor it has dropped, and may be unreadable (a fault).
- A child may end by itself, well or badly, at any moment (a fault in
  `IntegrationTest`); it ends after a SIGTERM. That a child dies of a closed pipe
  after its monitor thread has panicked is not modelled beyond that.
- A monitor thread's log file may fail while its child runs or is being stopped. That it fails
  on what is left in the pipe after the child has ended is left out: it would be one more error of
  a thread that is still to be joined.
- `run_contributor` and the registering of its join by a contribution waiter (`test.rs` 731-736)
  are one step (`WaiterStarts`). A `JoinLater` that is joined between the two returns with
  nothing to join, like one joined before the first.
- The drop monitor and the four waiters of a round are made in one step, and the last three of
  the waiters joined in one step: the main thread does nothing else in between, and the
  receivers are clones taken one after the other, before any process of the round exists. A message
  that comes between two of the clones is to the model as if it came before or after all of them:
  that some of the five hear a Shutdown and others do not is left out.
- The channel of the non-blocking log writer loses nothing; an entry is what one call of
  `write` takes. `WriteFails` stands for an error of the standard output or of the file.
- Local repositories are there. A repository directory that is there is whole when the program
  starts. A build leaves a crate's binary as it was or makes it anew, and nothing but a build
  changes binaries.
- Generated keys give distinct addresses, so a contributor is its index.
- A ceremony cannot be `Ok` if a binary is missing (the process cannot be started), and cannot begin
  without those that generate the keys.
- An error in cleaning or making the out directory (`RunFails`) leaves the logs as they were.
- A process that is left over by a failed test may end by itself at any moment, or never.
- A test is over when `integration_test` returns or panics: what its threads do after
  that is not modelled.
- What a `Shutdown`'s reason prints (`ShutdownReason`'s `Display` has a `todo!`) is
  not modelled: nothing displays it.

## Not modelled

- Parsing and default values (`config.rs`, `options.rs`): what comes out of them is `Inputs`.
- The configuration file written for the coordinator (`coordinator.rs` 29-207), key files, command
  lines and directories of the processes: data that this program does not read again.
- `npm.rs`: called by nothing. `util.rs`: a helper for directories, part of the steps that use it.
- What is in a result but whether it is `Ok` (durations, `RoundResults`), spans, and what is printed.
- The cleaning within a test (`test.rs` 236-262), which is not reached.

## Plan

Done: every component that keeps state, from the command line to the threads of a
round; theorems for the invariants and action properties that the runs check, and for the
promise of a test. In order of importance, what is left:

1. An abstract supervised process (started, told, ended, announced) that `ProcessMonitor`
   implements, with the refinement proved; and that in a test every process is one of
   these, as its coordinator and reporter are those of `SetupCoordinator` (`OpenRun`). Then
   `KilledWithCause` and `VerdictSound` hold within a test by the theorems there are.
2. The safety half of the liveness properties: what a thread that has not ended still has
   to read (a Shutdown that was broadcast after it subscribed is always ahead of it).
3. `WaitersInTime` with contributors that join in the middle of a round, if the code comes to
   join them.

## How to run

```
tlc -workers 2 -config one_round.cfg MCOneRound.tla
tlapm ProcessMonitorProofs.tla
```

The pairs of module and configuration are in `PROJECT.json` under `runs`.
