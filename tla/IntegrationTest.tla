---------------------------- MODULE IntegrationTest ----------------------------
(***************************************************************************)
(* integration_test and test_round of test.rs: the main thread, the time   *)
(* limit thread (time_limit.rs), and everything they start, which is the   *)
(* other modules: the processes and their threads (ProcessMonitor), the    *)
(* coordinator and the reading of its output (SetupCoordinator), the drop  *)
(* monitor of the round (DropMonitor) and the waiters (MessageWaiter).     *)
(*                                                                         *)
(* The main thread's state is main: pc, the point it has reached; round;    *)
(* todo, the processes it has yet to start or to join in the loop it is in; *)
(* rx, where the receivers of the round's waiters started; errors, whether  *)
(* round_errors holds something.                                           *)
(***************************************************************************)
EXTENDS CeremonyBus, FiniteSets, SequencesExt

CONSTANTS Coordinator,       \* the coordinator process
          StateMonitors,     \* <<the state monitor process>>, or <<>> if not configured
          VerifierOrder,     \* the verifiers in the order they are started
          Replacements,      \* the replacement contributors, in that order
          Starting,          \* for each round, its contributors that start with it
          Joining,           \* for each round, its contributors that start later
          StartAfter,        \* see MessageWaiter
          DropAfter,         \* see ProcessMonitor
          TimeLimit,         \* whether a time limit is configured
          MaxWaits,          \* bound: how often the coordinator waits for participants
          Chunks, PipeBound, \* see SetupCoordinator
          MaxFaults          \* bound: the things that go wrong by themselves

Rounds == Len(Starting)

(* The generated ids and addresses tell all processes apart, and every       *)
(* contributor is of one kind: a replacement, one that starts with a round,  *)
(* or one that starts in the middle of a round.                            *)
ASSUME TestAssumption ==
    /\ Coordinator \notin Contributors /\ ToSet(StateMonitors) \cap Contributors = {}
    /\ "garbled" \notin Participants
    /\ StateMonitors \in Seq(ToSet(StateMonitors))
    /\ VerifierOrder \in Seq(Verifiers) /\ ToSet(VerifierOrder) = Verifiers
    /\ Replacements \in Seq(Contributors)
    /\ Starting \in Seq(Seq(Contributors)) /\ Joining \in Seq(Seq(DOMAIN StartAfter))
    /\ Len(Joining) = Rounds
    /\ \A c \in DOMAIN StartAfter : StartAfter[c] \in Nat
    /\ DOMAIN DropAfter \subseteq Contributors
    /\ \A c \in DOMAIN DropAfter : DropAfter[c] \in Nat
    /\ TimeLimit \in BOOLEAN
    /\ MaxWaits \in Nat \ {0} /\ MaxWaits >= Rounds
    /\ Chunks \in Nat /\ PipeBound \in Nat /\ MaxFaults \in Nat

ASSUME KindsAssumption ==
    /\ Contributors = ToSet(Replacements) \cup DOMAIN StartAfter
                          \cup UNION {ToSet(Starting[r]) : r \in 1 .. Rounds}
    /\ ToSet(Replacements) \cap DOMAIN StartAfter = {}
    /\ \A r \in 1 .. Rounds :
          /\ ToSet(Starting[r]) \cap (ToSet(Replacements) \cup DOMAIN StartAfter) = {}
          /\ \A q \in 1 .. Rounds : q # r => ToSet(Starting[q]) \cap ToSet(Starting[r]) = {}

VARIABLES main, timeLimit, faults,
          child, monitor, messages, messagesRx, terminate,
          ceremony, ceremonyRx, contributions,
          coord, pipe, reporter, drops, waiter, waiterRx

Processes == INSTANCE ProcessMonitor
    WITH Services <- {Coordinator} \cup ToSet(StateMonitors) \cup Verifiers, MaxLog <- 0

Setup == INSTANCE SetupCoordinator
    WITH reporting <- monitor[Coordinator] = "reading", MaxRound <- MaxWaits,
         Garbled <- "garbled"

Drops == INSTANCE DropMonitor WITH MaxLog <- 0

Waiters == INSTANCE MessageWaiter

(* What a test promises to the program that runs it (AbstractTest).          *)
ProcessesOf(S) == {p \in S : child[p] \in {"running", "stopping"}}

Promise == INSTANCE AbstractTest
    WITH phase <- IF main.pc \in {"ok", "error", "panicked"} THEN main.pc ELSE "running",
         round <- main.round,
         present <- {r \in 1 .. Rounds : ProcessesOf(ToSet(Starting[r])) # {}},
         helpers <- ProcessesOf({Coordinator} \cup ToSet(StateMonitors) \cup Verifiers
                                    \cup ToSet(Replacements)) # {},
         announced <- Sent(Shutdown("Error"))

mainVars == <<main, timeLimit>>
processVars == <<child, monitor, messages, messagesRx, terminate,
                 ceremony, ceremonyRx, contributions>>
coordinatorVars == <<coord, pipe, reporter>>
waiterVars == <<waiter, waiterRx>>
vars == <<log, main, timeLimit, faults, processVars, coordinatorVars, drops, waiterVars>>

--------------------------------------------------------------------------------
MainPoints == {"begin", "services", "ready", "helpers", "round", "contributors",
               "waiters", "await_start", "await_end", "join_contributors", "join_later",
               "join_waiter", "join_processes", "join_limit", "ok", "error", "panicked"}

(* The processes integration_test starts itself, in order, and the services *)
(* among them.                                                             *)
Helpers == Replacements \o VerifierOrder
Started == <<Coordinator>> \o StateMonitors \o Helpers

TypeOK ==
    /\ log \in Seq(CeremonyMessage)
    /\ main.pc \in MainPoints /\ main.round \in 0 .. Rounds /\ main.rx \in 0 .. Len(log)
    /\ main.todo \in Seq(Processes!Processes) /\ main.errors \in BOOLEAN
    /\ timeLimit \in {"off", "running", "done", "expired"}
    /\ faults \in 0 .. MaxFaults
    /\ Processes!ProcessTypeOK /\ Setup!TypeOK /\ Drops!DropTypeOK /\ Waiters!WaiterTypeOK

Init == /\ log = <<>>
        /\ main = [pc |-> "begin", round |-> 0, todo |-> <<>>, rx |-> 0, errors |-> FALSE]
        /\ timeLimit = "off"
        /\ faults = 0
        /\ Processes!ProcessInit
        /\ Setup!CoordinatorInit
        /\ pipe = <<>>
        /\ reporter = [phase |-> "ProcessStarted", round |-> 0]
        /\ Drops!DropInit
        /\ Waiters!WaiterInit

--------------------------------------------------------------------------------
(* The main thread.                                                        *)
At(pc) == main.pc = pc
Goto(pc) == main' = [main EXCEPT !.pc = pc]
GotoWith(pc, todo) == main' = [main EXCEPT !.pc = pc, !.todo = todo]

(* The test is over when integration_test returns or panics.  Run by itself *)
(* it is then the end of the program and of its threads.                   *)
Over == main.pc \in {"ok", "error", "panicked"}
Alive == ~ Over

Fault == faults < MaxFaults /\ faults' = faults + 1

StartingPoints == {"services", "helpers", "contributors"}

(* Where the main thread is once it has started all of todo at pc.          *)
AfterStarting(pc, todo) ==
    IF todo # <<>> THEN pc
    ELSE CASE pc = "services"     -> "ready"
           [] pc = "helpers"      -> "round"
           [] pc = "contributors" -> "waiters"

(* The time limit thread, the coordinator_ready waiter, whose receiver is   *)
(* at the start of the log, and the coordinator.                           *)
StartsCoordinator ==
    /\ At("begin")
    /\ Processes!RunService(Coordinator)
    /\ timeLimit' = IF TimeLimit THEN "running" ELSE "off"
    /\ GotoWith(AfterStarting("services", StateMonitors), StateMonitors)
    /\ UNCHANGED <<log, faults, coordinatorVars, drops, waiterVars>>

StartsProcess ==
    /\ main.pc \in StartingPoints
    /\ LET p == Head(main.todo)
           rest == Tail(main.todo)
       IN  /\ Processes!RunService(p) \/ Processes!RunContributor(p, LogEnd)
           /\ GotoWith(AfterStarting(main.pc, rest), rest)
    /\ UNCHANGED <<log, timeLimit, faults, coordinatorVars, drops, waiterVars>>

(* The binary, a key file or the configuration of the process is not there,  *)
(* or popen fails; or the results of the round cannot be written: the error *)
(* is returned at once, to nobody on the bus.                              *)
ReturnsError ==
    /\ \/ main.pc \in StartingPoints \cup {"begin"}
       \/ /\ At("join_later") /\ main.todo = <<>>
          /\ drops.status = "ok" /\ ~ main.errors
    /\ Goto("error")
    /\ UNCHANGED <<log, timeLimit, faults, processVars, coordinatorVars, drops, waiterVars>>

(* coordinator_ready.join(): what ended the waiter is not looked at.       *)
CoordinatorReady ==
    /\ At("ready")
    /\ Waiters!WaiterResult(0, RoundMessage("RoundWaitingForParticipants", 1)) # "waiting"
    /\ GotoWith(AfterStarting("helpers", Helpers), Helpers)
    /\ UNCHANGED <<log, timeLimit, faults, processVars, coordinatorVars, drops, waiterVars>>

(* contributor_drops of a round's configuration.                           *)
RoundDrops(r) == (ToSet(Starting[r]) \cup ToSet(Joining[r])) \cap DOMAIN DropAfter

(* test_round: the drop monitor and the four waiters.                      *)
RoundBegins ==
    /\ At("round")
    /\ main.round < Rounds
    /\ LET r == main.round + 1
       IN  /\ main' = [main EXCEPT !.pc = AfterStarting("contributors", Starting[r]),
                                   !.round = r, !.rx = LogEnd, !.todo = Starting[r]]
           /\ Drops!MonitorDrops(RoundDrops(r))
    /\ UNCHANGED <<log, timeLimit, faults, processVars, coordinatorVars, waiterVars>>

(* Mutation: the waiters of the round are made after its contributors.      *)
SpawnsWaitersLate ==
    /\ At("waiters")
    /\ Waiters!SpawnContributionWaiters(ToSet(Joining[main.round]))
    /\ main' = [main EXCEPT !.pc = "await_start", !.rx = LogEnd]
    /\ UNCHANGED <<log, timeLimit, faults, processVars, coordinatorVars, drops>>

SpawnsWaiters ==
    /\ At("waiters")
    /\ Waiters!SpawnContributionWaiters(ToSet(Joining[main.round]))
    /\ Goto("await_start")
    /\ UNCHANGED <<log, timeLimit, faults, processVars, coordinatorVars, drops>>

(* A waiter of the round, for the message of type t.                       *)
RoundWaiter(t) == Waiters!WaiterResult(main.rx, RoundMessage(t, main.round))

(* check_participants_in_round looks for the contributors in the state file  *)
(* of the round, which the coordinator goes on writing: one that has been     *)
(* dropped may be in it no more, and it may not be readable (a fault).  There *)
(* is none if the coordinator has rolled back before it got to that number. *)
Roster == coord.rosters[main.round]

StateFiles == IF Roster = {} THEN {} ELSE {Roster, Roster \ coord.dropped}

CheckPasses == \E listed \in StateFiles : ToSet(Starting[main.round]) \subseteq listed

CheckFails ==
    \/ /\ Roster = {} \/ \E listed \in StateFiles :
                           ~ (ToSet(Starting[main.round]) \subseteq listed)
       /\ UNCHANGED faults
    \/ Fault

RoundStarts ==
    /\ At("await_start")
    /\ \/ RoundWaiter("RoundStarted") = "Shutdown"
       \/ RoundWaiter("RoundStarted") = "MessagesReceived" /\ CheckPasses
    /\ Goto("await_end")
    /\ UNCHANGED <<log, timeLimit, faults, processVars, coordinatorVars, drops, waiterVars>>

(* Mutation: the error is not kept.                                        *)
RoundStartsRegardless ==
    /\ At("await_start")
    /\ RoundWaiter("RoundStarted") = "MessagesReceived"
    /\ CheckFails
    /\ Broadcast(Shutdown("Error"))
    /\ Goto("await_end")
    /\ UNCHANGED <<timeLimit, processVars, coordinatorVars, drops, waiterVars>>

RoundStartsWithout ==
    /\ At("await_start")
    /\ RoundWaiter("RoundStarted") = "MessagesReceived"
    /\ CheckFails
    /\ Broadcast(Shutdown("Error"))
    /\ main' = [main EXCEPT !.pc = "await_end", !.errors = TRUE]
    /\ UNCHANGED <<timeLimit, processVars, coordinatorVars, drops, waiterVars>>

(* Mutation: the contributors of the round are not joined.                  *)
RoundEndsUnjoined ==
    /\ At("await_end")
    /\ \A t \in {"RoundStartedAggregation", "RoundAggregated", "RoundFinished"} :
          RoundWaiter(t) # "waiting"
    /\ GotoWith("join_later", Joining[main.round])
    /\ UNCHANGED <<log, timeLimit, faults, processVars, coordinatorVars, drops, waiterVars>>

(* The other three waiters are joined one after the other; then the joins   *)
(* of the contributors, the last one first.                                *)
RoundEnds ==
    /\ At("await_end")
    /\ \A t \in {"RoundStartedAggregation", "RoundAggregated", "RoundFinished"} :
          RoundWaiter(t) # "waiting"
    /\ IF Starting[main.round] = <<>> THEN GotoWith("join_later", Joining[main.round])
                                      ELSE GotoWith("join_contributors", Starting[main.round])
    /\ UNCHANGED <<log, timeLimit, faults, processVars, coordinatorVars, drops, waiterVars>>

(* join_multiple: the last process first; an error is a panic of the main   *)
(* thread (expect).  The coordinator's monitor thread has its output to     *)
(* read to the end.                                                        *)
JoinReturns(p) == /\ Processes!JoinReturns(p)
                  /\ p = Coordinator /\ monitor[p] = "reading" => pipe = <<>>

JoiningPoints == {"join_contributors", "join_processes"}

AfterJoining(pc, todo) ==
    IF todo # <<>> THEN pc
    ELSE CASE pc = "join_contributors" -> "join_later"
           [] pc = "join_processes"    -> "join_limit"

JoinsProcess ==
    /\ main.pc \in JoiningPoints
    /\ JoinReturns(Last(main.todo))
    /\ IF Processes!JoinFails(Last(main.todo))
       THEN Goto("panicked")
       ELSE LET rest == Front(main.todo)
                next == AfterJoining(main.pc, rest)
            IN  GotoWith(next, IF next = "join_later" THEN Joining[main.round] ELSE rest)
    /\ UNCHANGED <<log, timeLimit, faults, processVars, coordinatorVars, drops, waiterVars>>

(* JoinMultiple of a waiter and its JoinLater, the JoinLater first: it has  *)
(* nothing to join, and returns, if the contributor is not registered yet. *)
JoinsLater ==
    /\ At("join_later")
    /\ main.todo # <<>>
    /\ LET c == Last(main.todo)
       IN  IF waiter[c] = "started"
           THEN /\ JoinReturns(c)
                /\ Goto(IF Processes!JoinFails(c) THEN "panicked" ELSE "join_waiter")
           ELSE Goto("join_waiter")
    /\ UNCHANGED <<log, timeLimit, faults, processVars, coordinatorVars, drops, waiterVars>>

JoinsWaiter ==
    /\ At("join_waiter")
    /\ LET c == Last(main.todo)
       IN  \/ waiter[c] = "started" /\ GotoWith("join_later", Front(main.todo))
           \/ waiter[c] = "failed" /\ Goto("panicked")
    /\ UNCHANGED <<log, timeLimit, faults, processVars, coordinatorVars, drops, waiterVars>>

(* Mutation: the verdict is not looked at.                                 *)
JoinsDropsUnchecked ==
    /\ At("join_later")
    /\ main.todo = <<>>
    /\ drops.status \in {"ok", "failed"}
    /\ Goto(IF main.errors THEN "error" ELSE "round")
    /\ UNCHANGED <<log, timeLimit, faults, processVars, coordinatorVars, drops, waiterVars>>

(* monitor_drops_join.join()?, then round_errors.                          *)
JoinsDrops ==
    /\ At("join_later")
    /\ main.todo = <<>>
    /\ drops.status \in {"ok", "failed"}
    /\ Goto(IF drops.status = "failed" \/ main.errors THEN "error" ELSE "round")
    /\ UNCHANGED <<log, timeLimit, faults, processVars, coordinatorVars, drops, waiterVars>>

(* After the last round everybody is told to stop, and joined.             *)
ShutsDown ==
    /\ At("round")
    /\ main.round = Rounds
    /\ Broadcast(Shutdown("TestFinished"))
    /\ GotoWith("join_processes", Started)
    /\ UNCHANGED <<timeLimit, faults, processVars, coordinatorVars, drops, waiterVars>>

JoinsTimeLimit ==
    /\ At("join_limit")
    /\ timeLimit # "running"
    /\ Goto(IF timeLimit = "expired" THEN "error" ELSE "ok")
    /\ UNCHANGED <<log, timeLimit, faults, processVars, coordinatorVars, drops, waiterVars>>

MainStep == \/ StartsCoordinator \/ StartsProcess \/ CoordinatorReady
            \/ RoundBegins \/ SpawnsWaiters \/ RoundStarts \/ RoundStartsWithout
            \/ RoundEnds \/ JoinsProcess \/ JoinsLater
            \/ JoinsWaiter \/ JoinsDrops \/ ShutsDown \/ JoinsTimeLimit

--------------------------------------------------------------------------------
(* Mutation: nobody is told.                                               *)
TimeLimitExpiresQuietly ==
    /\ timeLimit = "running"
    /\ timeLimit' = "expired"
    /\ UNCHANGED <<log, main, faults, processVars, coordinatorVars, drops, waiterVars>>

(* ceremony_time_limit: the elapsed time is looked at before the bus.      *)
TimeLimitExpires ==
    /\ timeLimit = "running"
    /\ Broadcast(Shutdown("Error"))
    /\ timeLimit' = "expired"
    /\ UNCHANGED <<main, faults, processVars, coordinatorVars, drops, waiterVars>>

TimeLimitStops ==
    /\ timeLimit = "running"
    /\ ShutdownUnread(0)
    /\ timeLimit' = "done"
    /\ UNCHANGED <<log, main, faults, processVars, coordinatorVars, drops, waiterVars>>

TimeLimitStep == TimeLimitExpires \/ TimeLimitStops

--------------------------------------------------------------------------------
(* The steps of the other threads.                                         *)
ProcessStep(p) ==
    /\ Processes!MessagesStep(p) \/ Processes!ChildTerminated(p)
    /\ UNCHANGED <<mainVars, faults, coordinatorVars, drops, waiterVars>>

ContributorStep(c) ==
    /\ Processes!CeremonyStep(c)
    /\ UNCHANGED <<mainVars, faults, coordinatorVars, drops, waiterVars>>

ReporterStep ==
    /\ UNCHANGED <<mainVars, faults, processVars, coord, drops, waiterVars>>
    /\ Setup!ReadsALine

DropStep ==
    /\ Drops!DropStep
    /\ UNCHANGED <<mainVars, faults, processVars, coordinatorVars, waiterVars>>

WaiterStarts(c) ==
    /\ Waiters!WaiterJoins(c, "started")
    /\ Processes!RunContributor(c, waiterRx[c])
    /\ UNCHANGED <<log, mainVars, faults, coordinatorVars, drops>>

WaiterFails(c) == /\ Waiters!WaiterJoins(c, "failed")
                  /\ UNCHANGED <<log, mainVars, faults, processVars, coordinatorVars, drops>>

(* What goes wrong by itself: a child ends, a log file cannot be written.   *)
ChildFault == /\ Fault
              /\ \/ \E p \in Processes!Processes, status \in {"exited", "failed"} :
                        Processes!ChildExits(p, status)
                 \/ \E p \in Processes!Processes : Processes!MonitorFails(p)
              /\ UNCHANGED <<mainVars, coordinatorVars, drops, waiterVars>>

(* The coordinator goes its way while it runs.  Contributors come for a     *)
(* round unless they are replacements, which it was told of beforehand.  It *)
(* is for it to drop a participant that is gone while a round waits or runs; *)
(* any other drop is a fault.  Lines that match nothing are of interest      *)
(* when a round is over, and until the reporter has gone on to the next one *)
(* because of such a line: it passes over others.                          *)
Up(p) == child[p] = "running"

CoordinatorStep ==
    /\ Up(Coordinator)
    /\ UNCHANGED <<mainVars, faults, processVars, drops, waiterVars>>
    /\ LET up == {c \in Contributors : Up(c)}
           gone == {p \in Participants : ~ Up(p) /\ child[p] # "none"}
       IN  Setup!CoordinatorNext(up \ ToSet(Replacements), up, up \cap ToSet(Replacements),
                                 IF Setup!InRound THEN gone ELSE {},
                                 IF reporter.round > coord.waits THEN {} ELSE Setup!OverPhases)

CoordinatorDropsFaulty ==
    /\ Up(Coordinator)
    /\ UNCHANGED <<mainVars, processVars, drops, waiterVars>>
    /\ Fault
    /\ \E p \in Participants : child[p] # "none" /\ Setup!CoordinatorDrops(p)

Next ==
    /\ Alive
    /\ \/ MainStep \/ ReturnsError \/ TimeLimitStep \/ ReporterStep \/ DropStep
       \/ \E p \in Processes!Processes : ProcessStep(p)
       \/ \E c \in Contributors : ContributorStep(c)
       \/ \E c \in DOMAIN StartAfter : WaiterStarts(c) \/ WaiterFails(c)
       \/ ChildFault \/ CoordinatorStep \/ CoordinatorDropsFaulty

Spec == Init /\ [][Next]_vars

(* The threads of the program run, and a child ends once it has a SIGTERM.  *)
(* The coordinator and the other children owe nothing: it is for the time   *)
(* limit to end a test in which nothing happens.                           *)
Fairness ==
    /\ WF_vars(Alive /\ MainStep) /\ WF_vars(Alive /\ TimeLimitExpires)
    /\ WF_vars(Alive /\ ReporterStep) /\ WF_vars(Alive /\ DropStep)
    /\ \A p \in Processes!Processes : WF_vars(Alive /\ ProcessStep(p))
    /\ \A c \in Contributors : WF_vars(Alive /\ ContributorStep(c))
    /\ \A c \in DOMAIN StartAfter : WF_vars(Alive /\ WaiterStarts(c))

FairSpec == Spec /\ Fairness

--------------------------------------------------------------------------------
(* What Specification::run counts on when it goes on to the next test: rounds *)
(* in order, each after the processes of the one before it are gone; Ok only  *)
(* when no error was announced to the threads and no process is left; and a   *)
(* result that is final.                                                   *)
KeepsPromise == Promise!TestSpec

(* A test that returns Ok hides no error: whatever was announced as one     *)
(* reached the main thread by the join of the thread that announced it.    *)
NoErrorHidden == At("ok") => ~ Sent(Shutdown("Error"))

(* Nothing is left behind by a test that returns Ok, the contributors that  *)
(* start in the middle of a round excepted: the next test runs on the same   *)
(* port and in the same directories.                                       *)
OkLeavesNothing ==
    At("ok") => \A p \in Processes!Processes \ DOMAIN StartAfter : Processes!Ended(p)

(* "Tell the other threads to shutdown, safely terminating their child      *)
(* processes", and "Wait for threads to close after being told to shut       *)
(* down" (integration_test): of all of them.                               *)
OkLeavesNobody ==
    At("ok") => \A p \in Processes!Processes : child[p] \in {"none", "exited", "failed"}

(* Ok says that every round was finished, or that the coordinator ran out   *)
(* of contributors and rolled back: integration_test itself does not check  *)
(* (its TODO), and returns the results of a round that was shut down.       *)
OkMeansFinished ==
    At("ok") => \/ \A r \in 1 .. Rounds : Sent(RoundMessage("RoundFinished", r))
                \/ Setup!RolledBack

(* Ok says that the drops asked for did occur.                             *)
OkMeansDropped ==
    At("ok") => \A r \in 1 .. Rounds : \A c \in RoundDrops(r) : Sent(ParticipantDropped(c))

(* The waiters of a round are in time for its messages.                    *)
WaitersInTime ==
    At("await_start") \/ At("await_end") =>
        \A t \in {"RoundStarted", "RoundStartedAggregation", "RoundAggregated",
                  "RoundFinished"} :
            \A k \in 1 .. main.rx : log[k] # RoundMessage(t, main.round)

(* A contributor of one round is gone when the next one begins.            *)
RoundsDoNotOverlap ==
    [][main'.round # main.round =>
          \A r \in 1 .. main.round : \A c \in ToSet(Starting[r]) : Processes!Ended(c)]_vars

(* A Shutdown some receiver was made too late for, or that finds a          *)
(* contribution waiter, which takes no notice of it.                       *)
SomebodyDeaf ==
    \E k \in Unread(0) :
        /\ IsShutdownMessage(log[k])
        /\ \/ k <= main.rx \/ k <= drops.since
           \/ \E p \in Processes!Processes : k <= messagesRx[p]
           \/ \E c \in DOMAIN StartAfter : waiter[c] = "waiting"

(* With a time limit every test comes to an end, but for the two ways in    *)
(* which somebody does not hear that it is to end.                         *)
EndsUnlessDeaf == <>(Over \/ SomebodyDeaf)

(* The doc of TestOptions::timout: "If this time is exceeded, the test will *)
(* fail."                                                                  *)
TimeLimitEndsTest == <>Over

(* CeremonyMessage::Shutdown: "Tell all the recievers to shut down", and in *)
(* test_round: "Wait for threads to close after being told to shut down".   *)
WaiterHeedsShutdown ==
    \A c \in DOMAIN StartAfter :
        waiter[c] = "waiting" /\ ShutdownUnread(waiterRx[c]) ~> waiter[c] # "waiting"

(* The doc of test_round: "It is expected that the coordinator, verifiers   *)
(* and replacement contributors are already running before this function    *)
(* is called."                                                             *)
HelpersRunning ==
    [][main'.round # main.round =>
          \A k \in 1 .. Len(Replacements) : child[Replacements[k]] = "running"]_vars
================================================================================
