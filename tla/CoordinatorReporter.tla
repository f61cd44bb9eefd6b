-------------------------- MODULE CoordinatorReporter --------------------------
(***************************************************************************)
(* CoordinatorStateReporter and monitor_coordinator of coordinator.rs: the *)
(* thread that reads the output of the coordinator process line by line,   *)
(* recognises a few of the lines, and tells the ceremony.  One action per  *)
(* arm of parse_output_line.                                               *)
(*                                                                         *)
(* The coordinator may write any line at any moment (WriteLine), and the   *)
(* other threads of the test may broadcast a Shutdown at any moment.       *)
(***************************************************************************)
EXTENDS CeremonyBus

CONSTANT Garbled      \* an address or a chunk number that does not parse

VARIABLES pipe,       \* the lines written by the coordinator and not yet read
          reporter,   \* CoordinatorStateReporter::current_state
          reporting   \* the monitor thread is still reading

ASSUME GarbledAssumption == Garbled \notin Participants

reporterVars == <<pipe, reporter, reporting, log>>

--------------------------------------------------------------------------------
(* Lines, by the regular expression they match; "other" matches none, and  *)
(* "unreadable" is a line whose reading is an error, logged and skipped.   *)
LineKinds == {"booted", "advanced", "dropping", "contribution", "aggregating",
              "restart", "aggregated", "finished", "other", "unreadable"}

PlainLine(k) == [kind |-> k]
ParticipantLine(k, p) == [kind |-> k, participant |-> p]

Line ==      [kind : LineKinds \ {"dropping", "contribution"}]
        \cup [kind : {"dropping"}, participant : Participants \cup {Garbled}]
        \cup [kind : {"contribution"}, participant : Contributors \cup {Garbled}]

CoordinatorStates == {"ProcessStarted", "RoundWaitingForParticipants", "RoundRunning",
                      "RoundAggregating", "RoundWaitingForFinish", "RoundFinished"}

(* Mutation: drops are not looked for before the round starts.             *)
LooksForNoDropsWaiting(phase) ==
    CASE phase = "ProcessStarted"              -> {"booted"}
      [] phase = "RoundWaitingForParticipants" -> {"advanced"}
      [] phase = "RoundRunning"                -> {"dropping", "aggregating", "restart",
                                                   "contribution"}
      [] phase = "RoundAggregating"            -> {"aggregated"}
      [] phase = "RoundWaitingForFinish"       -> {"finished"}
      [] phase = "RoundFinished"               -> LineKinds \ {"unreadable"}

(* The lines each arm of parse_output_line looks at.  In RoundFinished the *)
(* line is not looked at: every line that can be read will do.             *)
LooksFor(phase) ==
    CASE phase = "ProcessStarted"              -> {"booted"}
      [] phase = "RoundWaitingForParticipants" -> {"dropping", "advanced"}
      [] phase = "RoundRunning"                -> {"dropping", "aggregating", "restart",
                                                   "contribution"}
      [] phase = "RoundAggregating"            -> {"aggregated"}
      [] phase = "RoundWaitingForFinish"       -> {"finished"}
      [] phase = "RoundFinished"               -> LineKinds \ {"unreadable"}

ReporterTypeOK ==
    /\ log \in Seq(CeremonyMessage)
    /\ pipe \in Seq(Line)
    /\ reporter \in [phase : CoordinatorStates, round : Nat]
    /\ reporting \in BOOLEAN

(* process_started *)
ReporterInit ==
    /\ pipe = <<>>
    /\ reporter = [phase |-> "ProcessStarted", round |-> 0]
    /\ reporting = TRUE

--------------------------------------------------------------------------------
Reads(k) == /\ reporting
            /\ pipe # <<>>
            /\ Head(pipe).kind = k
            /\ pipe' = Tail(pipe)
            /\ UNCHANGED reporting

(* The round number in the line is never compared with the round the        *)
(* reporter believes in, which is the one it announces.                    *)
Announces(phase, k, message, next) ==
    /\ reporter.phase = phase
    /\ Reads(k)
    /\ Broadcast(RoundMessage(message, reporter.round))
    /\ reporter' = [reporter EXCEPT !.phase = next]

AwaitsRound(r) ==
    /\ Broadcast(RoundMessage("RoundWaitingForParticipants", r))
    /\ reporter' = [phase |-> "RoundWaitingForParticipants", round |-> r]

(* Mutation: the first round is round 0.                                   *)
ReportBootedZero == /\ reporter.phase = "ProcessStarted"
                    /\ Reads("booted")
                    /\ AwaitsRound(0)

ReportBooted == /\ reporter.phase = "ProcessStarted"
                /\ Reads("booted")
                /\ AwaitsRound(1)

(* Mutation: the running state is left out.                                *)
ReportStartedAggregating ==
    Announces("RoundWaitingForParticipants", "advanced", "RoundStarted", "RoundAggregating")

ReportStarted ==
    Announces("RoundWaitingForParticipants", "advanced", "RoundStarted", "RoundRunning")

ReportAggregation ==
    Announces("RoundRunning", "aggregating", "RoundStartedAggregation", "RoundAggregating")

(* Mutation: the final report is not waited for.                           *)
ReportAggregatedFinished ==
    Announces("RoundAggregating", "aggregated", "RoundAggregated", "RoundFinished")

ReportAggregated ==
    Announces("RoundAggregating", "aggregated", "RoundAggregated", "RoundWaitingForFinish")

ReportFinished ==
    Announces("RoundWaitingForFinish", "finished", "RoundFinished", "RoundFinished")

(* Mutation: the round number is not increased.                            *)
ReportNextRoundSame == /\ reporter.phase = "RoundFinished"
                       /\ \E k \in LooksFor("RoundFinished") : Reads(k)
                       /\ AwaitsRound(reporter.round)

(* Whatever the line says, the next round is announced as waiting.         *)
ReportNextRound == /\ reporter.phase = "RoundFinished"
                   /\ \E k \in LooksFor("RoundFinished") : Reads(k)
                   /\ AwaitsRound(reporter.round + 1)

(* Mutation: the address is not parsed.                                    *)
ReportDroppedUnparsed ==
    /\ reporter.phase \in {"RoundWaitingForParticipants", "RoundRunning"}
    /\ Reads("dropping")
    /\ Broadcast(ParticipantDropped(Head(pipe).participant))
    /\ UNCHANGED reporter

(* check_participant_dropped, called while waiting and while running.      *)
ReportDropped ==
    /\ reporter.phase \in {"RoundWaitingForParticipants", "RoundRunning"}
    /\ Reads("dropping")
    /\ Head(pipe).participant \in Participants
    /\ Broadcast(ParticipantDropped(Head(pipe).participant))
    /\ UNCHANGED reporter

ReportContribution ==
    /\ reporter.phase = "RoundRunning"
    /\ Reads("contribution")
    /\ Head(pipe).participant \in Contributors
    /\ Broadcast(SuccessfulContribution(Head(pipe).participant))
    /\ UNCHANGED reporter

(* No contributor is left: the round is rolled back, and the test is over.  *)
ReportRestart ==
    /\ reporter.phase = "RoundRunning"
    /\ Reads("restart")
    /\ Broadcast(Shutdown("TestFinished"))
    /\ reporter' = [reporter EXCEPT !.phase = "RoundFinished"]

IgnoreLine == /\ \E k \in LineKinds \ LooksFor(reporter.phase) : Reads(k)
              /\ UNCHANGED <<reporter, log>>

(* fallible_monitor: an error of monitor_coordinator asks the ceremony to  *)
(* shut down, and the thread panics.                                       *)
ReporterFails == /\ reporting
                 /\ reporting' = FALSE
                 /\ Broadcast(Shutdown("Error"))
                 /\ UNCHANGED reporter

(* A line with an address or a chunk that does not parse is an error.      *)
RejectLine == /\ reporter.phase # "RoundFinished"
              /\ pipe # <<>>
              /\ Head(pipe).kind \in LooksFor(reporter.phase) \cap {"dropping", "contribution"}
              /\ Head(pipe).participant = Garbled
              /\ ReporterFails
              /\ pipe' = Tail(pipe)

(* The log file cannot be opened or written.                               *)
LogFileFails == ReporterFails /\ UNCHANGED pipe

ReadsALine ==
    \/ ReportBooted \/ ReportStarted \/ ReportAggregation \/ ReportAggregated
    \/ ReportFinished \/ ReportNextRound \/ ReportDropped \/ ReportContribution
    \/ ReportRestart \/ IgnoreLine \/ RejectLine

--------------------------------------------------------------------------------
WriteLine(line) == /\ pipe' = Append(pipe, line)
                   /\ UNCHANGED <<reporter, reporting, log>>

OthersBroadcast(reason) == /\ Broadcast(Shutdown(reason))
                           /\ UNCHANGED <<pipe, reporter, reporting>>

ReporterNext == \/ ReadsALine
                \/ LogFileFails
                \/ \E line \in Line : WriteLine(line)
                \/ \E reason \in ShutdownReasons : OthersBroadcast(reason)

ReporterSpec == log = <<>> /\ ReporterInit /\ [][ReporterNext]_reporterVars

--------------------------------------------------------------------------------
IsRoundMessage(m) == m.type \in RoundMessageTypes

(* The place of a message in the life of the ceremony: five per round.     *)
Stage(t) == CASE t = "RoundWaitingForParticipants" -> 0
              [] t = "RoundStarted"                -> 1
              [] t = "RoundStartedAggregation"     -> 2
              [] t = "RoundAggregated"             -> 3
              [] t = "RoundFinished"               -> 4

Rank(m) == 5 * m.round + Stage(m.type)

(* The round messages are broadcast in the order of the ceremony and none   *)
(* twice, whatever the coordinator writes: the waiters of a round            *)
(* (spawn_expected) count on a message they have not been given still       *)
(* being to come.                                                          *)
RoundMessagesInOrder ==
    \A i, j \in 1 .. Len(log) :
        i < j /\ IsRoundMessage(log[i]) /\ IsRoundMessage(log[j])
            => Rank(log[i]) < Rank(log[j])

(* No stage of a round is announced without the one before it: test_round  *)
(* joins its four waiters one after the other, and a stage left out would   *)
(* leave it waiting for ever.                                              *)
NoStageSkipped ==
    \A j \in 1 .. Len(log) :
        IsRoundMessage(log[j]) /\ Stage(log[j].type) > 0
            => \E i \in 1 .. (j - 1) :
                  /\ IsRoundMessage(log[i])
                  /\ Rank(log[i]) + 1 = Rank(log[j])
================================================================================
