------------------------- MODULE SetupCoordinatorProofs -------------------------
(***************************************************************************)
(* A coordinator that behaves as SetupCoordinator assumes is one of those  *)
(* CoordinatorReporter is proved for: a step of it writes a line, or       *)
(* changes nothing the reporter sees.  What is proved of the reporter      *)
(* holds in its company, for every number of participants, rounds and      *)
(* chunks and every size of the pipe.                                      *)
(*                                                                         *)
(* That the reporter keeps up with the coordinator says nothing while there *)
(* is something left to read, and is not inductive: SyncInv has the states *)
(* that the reporter will go through as it reads what is in the pipe, which *)
(* end where the coordinator is (or, when a round is over, one step early), *)
(* and in which no drop made while a round waited or ran is read in a state *)
(* that does not look for drops.  Drops, spoilt lines and lines that match   *)
(* nothing may come in every phase, and the coordinator may roll back.      *)
(***************************************************************************)
EXTENDS SetupCoordinator, CoordinatorReporterProofs

(* What the coordinator says is a line.                                    *)
LEMMA LinesTyped ==
    /\ \A k \in LineKinds \ {"dropping", "contribution"} : PlainLine(k) \in Line
    /\ \A p \in Participants \cup {Garbled} : ParticipantLine("dropping", p) \in Line
    /\ \A c \in Contributors \cup {Garbled} : ParticipantLine("contribution", c) \in Line
BY DEF Line, PlainLine, ParticipantLine, LineKinds

(* To say one is to write it.                                              *)
LEMMA SaysWrites ==
    ASSUME NEW line \in Line, Says(line)
    PROVE  ReporterNext
BY DEF Says, ReporterNext

(* A step of a coordinator that nobody keeps from anything.                *)
AnyCoordinatorStep ==
    CoordinatorNext(Contributors, Contributors, {}, Participants, CoordinatorPhases)

(* Every step of the coordinator is a line written.                        *)
LEMMA CoordinatorWrites ==
    ASSUME AnyCoordinatorStep
    PROVE  ReporterNext
<1> USE LinesTyped, SaysWrites DEF LineKinds
<1>1. CASE CoordinatorBoots
  BY <1>1 DEF CoordinatorBoots
<1>2. CASE \E contributors \in SUBSET Contributors : CoordinatorStarts(contributors)
  BY <1>2 DEF CoordinatorStarts
<1>3. CASE \E c \in Contributors : CoordinatorTakesChunk(c)
  BY <1>3 DEF CoordinatorTakesChunk
<1>4. CASE \E p \in Participants : CoordinatorDrops(p)
  BY <1>4 DEF CoordinatorDrops
<1>5. CASE CoordinatorRestarts({})
  BY <1>5 DEF CoordinatorRestarts, Moves
<1>6. CASE CoordinatorAggregates
  BY <1>6 DEF CoordinatorAggregates, Moves
<1>7. CASE CoordinatorAggregated
  BY <1>7 DEF CoordinatorAggregated, Moves
<1>8. CASE CoordinatorFinishes
  BY <1>8 DEF CoordinatorFinishes, Moves
<1>9. CASE CoordinatorNextRound \/ CoordinatorRollsBack
  BY <1>9 DEF CoordinatorNextRound, CoordinatorRollsBack, WaitsAgain
<1>10. CASE CoordinatorChats
  BY <1>10 DEF CoordinatorChats
<1> QED
  BY <1>1, <1>2, <1>3, <1>4, <1>5, <1>6, <1>7, <1>8, <1>9, <1>10
     DEF AnyCoordinatorStep, CoordinatorNext

(* With fewer contributors and participants, a replacement or two, and a    *)
(* log that is not always of interest, it does nothing that it might not do *)
(* with all of them.                                                       *)
LEMMA FewerChoices ==
    ASSUME CoordinatorTypeOK,
           NEW came \in SUBSET Contributors, NEW present \in SUBSET Contributors, NEW standby,
           NEW droppable \in SUBSET Participants, NEW chatty,
           CoordinatorNext(came, present, standby, droppable, chatty)
    PROVE  AnyCoordinatorStep
<1>1. CoordinatorRestarts(standby) => CoordinatorRestarts({})
  BY DEF CoordinatorRestarts
<1>2. coord.phase \in CoordinatorPhases
  BY DEF CoordinatorTypeOK
<1> QED
  BY <1>1, <1>2, Zenon DEF AnyCoordinatorStep, CoordinatorNext

(* Next without its bound, which is for TLC: the others broadcast a Shutdown *)
(* as often as they please.                                                *)
OpenNext ==
    \/ (ReadsALine \/ LogFileFails) /\ UNCHANGED coord
    \/ AnyCoordinatorStep
    \/ CoordinatorGarbles
    \/ \E reason \in ShutdownReasons : OthersBroadcast(reason) /\ UNCHANGED coord

OpenSpec == Init /\ [][OpenNext]_coordinatorVars

(* What is proved without the bound holds with it.                         *)
LEMMA BoundedIsOpen == Spec => OpenSpec
<1>1. [Next]_coordinatorVars => [OpenNext]_coordinatorVars
  BY DEF Next, OpenNext, AnyCoordinatorStep, ShutdownReasons
<1> QED
  BY <1>1, PTL DEF Spec, OpenSpec

(* The coordinator and its reporter are a reporter, to which something is  *)
(* written.                                                                *)
THEOREM OpenRefinesReporter == OpenSpec => ReporterSpec
<1>1. Init => log = <<>> /\ ReporterInit
  BY DEF Init
<1>2. [OpenNext]_coordinatorVars => [ReporterNext]_reporterVars
  <2> SUFFICES ASSUME [OpenNext]_coordinatorVars PROVE [ReporterNext]_reporterVars
    OBVIOUS
  <2>1. CASE UNCHANGED coordinatorVars
    BY <2>1 DEF coordinatorVars, reporterVars
  <2>2. CASE ReadsALine \/ LogFileFails
    BY <2>2 DEF ReporterNext
  <2>3. CASE AnyCoordinatorStep
    BY <2>3, CoordinatorWrites
  <2>4. CASE CoordinatorGarbles
    BY <2>4, LinesTyped, SaysWrites DEF CoordinatorGarbles
  <2>5. CASE \E reason \in ShutdownReasons : OthersBroadcast(reason)
    BY <2>5 DEF ReporterNext
  <2> QED
    BY <2>1, <2>2, <2>3, <2>4, <2>5 DEF OpenNext
<1> QED
  BY <1>1, <1>2, PTL DEF OpenSpec, ReporterSpec

(* The same with TLC's bound on the Shutdowns of others.                   *)
THEOREM SetupRefinesReporter == Spec => ReporterSpec
BY BoundedIsOpen, OpenRefinesReporter, PTL

(* In every run of the coordinator the round messages are in order, and no *)
(* stage is left out.                                                      *)
THEOREM SetupInOrder == Spec => [](RoundMessagesInOrder /\ NoStageSkipped)
BY SetupRefinesReporter, RoundMessagesInOrderCorrect, NoStageSkippedCorrect, PTL

(* The types of the coordinator and its reporter.                          *)
THEOREM OpenTypeCorrect == OpenSpec => []TypeOK
<1>1. Init => CoordinatorTypeOK
  BY CoordinatorAssumption DEF Init, CoordinatorInit, CoordinatorTypeOK, CoordinatorPhases
<1>2. CoordinatorTypeOK /\ [OpenNext]_coordinatorVars => CoordinatorTypeOK'
  <2> SUFFICES ASSUME CoordinatorTypeOK, [OpenNext]_coordinatorVars PROVE CoordinatorTypeOK'
    OBVIOUS
  <2> USE CoordinatorAssumption DEF CoordinatorTypeOK, CoordinatorPhases
  <2>1. CASE UNCHANGED coord
    BY <2>1
  <2>2. CASE CoordinatorBoots
    <3>1. coord' = [coord EXCEPT !.phase = "waiting", !.round = 1, !.waits = 1]
      BY <2>2 DEF CoordinatorBoots
    <3>2. 1 \in 0 .. MaxRound /\ 1 \in Nat
      OBVIOUS
    <3>3. coord'.phase = "waiting" /\ coord'.round = 1 /\ coord'.waits = 1
      BY <3>1
    <3>4. coord' \in [phase : CoordinatorPhases, round : Nat, waits : 0 .. MaxRound,
                      chunks : 0 .. Chunks, rosters : [1 .. MaxRound -> SUBSET Contributors],
                      taken : SUBSET Contributors,
                      dropped : SUBSET Participants, late : SUBSET Participants]
      BY <3>1, <3>2
    <3> QED
      BY <3>3, <3>4
  <2>3. CASE \E contributors \in SUBSET Contributors : CoordinatorStarts(contributors)
    <3>1. PICK contributors \in SUBSET Contributors : CoordinatorStarts(contributors)
      BY <2>3
    <3> DEFINE files == [coord.rosters EXCEPT ![coord.round] = contributors]
    <3>2. files \in [1 .. MaxRound -> SUBSET Contributors]
      <4>1. coord.rosters \in [1 .. MaxRound -> SUBSET Contributors]
        OBVIOUS
      <4> QED
        BY <4>1, Zenon
    <3>5. 0 \in 0 .. Chunks
      OBVIOUS
    <3>3. coord' = [coord EXCEPT !.phase = "running", !.chunks = 0, !.rosters = files,
                                 !.taken = coord.taken \cup contributors]
      BY <3>1 DEF CoordinatorStarts
    <3>4. coord.phase = "waiting"
      BY <3>1 DEF CoordinatorStarts
    <3> HIDE DEF files
    <3> QED
      BY <3>2, <3>3, <3>4, <3>5
  <2>4. CASE \E c \in Contributors : CoordinatorTakesChunk(c)
    <3>1. coord.chunks \in 0 .. Chunks /\ coord.chunks < Chunks
      BY <2>4 DEF CoordinatorTakesChunk
    <3>2. coord.chunks + 1 \in 0 .. Chunks
      BY <3>1
    <3>3. coord' = [coord EXCEPT !.chunks = coord.chunks + 1]
      BY <2>4 DEF CoordinatorTakesChunk
    <3> QED
      BY <3>2, <3>3
  <2>5. CASE \E p \in Participants : CoordinatorDrops(p)
    <3>1. PICK p \in Participants, late \in SUBSET Participants :
              coord' = [coord EXCEPT !.dropped = coord.dropped \cup {p}, !.late = late]
      BY <2>5 DEF CoordinatorDrops
    <3> QED
      BY <3>1
  <2>6. CASE CoordinatorRestarts({}) \/ CoordinatorAggregates \/ CoordinatorAggregated
             \/ CoordinatorFinishes
    BY <2>6 DEF CoordinatorRestarts, CoordinatorAggregates, CoordinatorAggregated,
                CoordinatorFinishes, Moves
  <2>7. CASE CoordinatorNextRound \/ CoordinatorRollsBack
    <3>1. PICK round \in {1, coord.round + 1} :
              coord' = [coord EXCEPT !.phase = "waiting", !.round = round,
                                     !.waits = coord.waits + 1]
      BY <2>7 DEF CoordinatorNextRound, CoordinatorRollsBack, WaitsAgain
    <3>2. coord.waits < MaxRound
      BY <2>7 DEF CoordinatorNextRound, CoordinatorRollsBack, WaitsAgain
    <3>3. coord.waits + 1 \in 0 .. MaxRound /\ round \in Nat /\ round > 0
          /\ round <= coord.waits + 1
      BY <3>2
    <3> QED
      BY <3>1, <3>3
  <2>8. coord' = coord \/ (AnyCoordinatorStep /\ ~ CoordinatorChats)
    BY DEF OpenNext, coordinatorVars, CoordinatorChats, CoordinatorGarbles
  <2> QED
    BY <2>1, <2>2, <2>3, <2>4, <2>5, <2>6, <2>7, <2>8 DEF AnyCoordinatorStep, CoordinatorNext
<1>3. OpenSpec => []CoordinatorTypeOK
  BY <1>1, <1>2, PTL DEF OpenSpec
<1>4. CoordinatorTypeOK /\ ReporterTypeOK => TypeOK
  BY DEF TypeOK
<1> QED
  BY <1>3, <1>4, OpenRefinesReporter, ReporterTypeCorrect, PTL

(* The same with TLC's bound on the Shutdowns of others.                   *)
THEOREM SetupTypeCorrect == Spec => []TypeOK
BY BoundedIsOpen, OpenTypeCorrect, PTL
--------------------------------------------------------------------------------
(* The phase in which a line leaves the reporter, if it goes on reading.   *)
PhaseAfter(phase, kind) ==
    IF phase = "ProcessStarted" /\ kind = "booted" THEN "RoundWaitingForParticipants"
    ELSE IF phase = "RoundWaitingForParticipants" /\ kind = "advanced" THEN "RoundRunning"
    ELSE IF phase = "RoundRunning" /\ kind = "aggregating" THEN "RoundAggregating"
    ELSE IF phase = "RoundRunning" /\ kind = "restart" THEN "RoundFinished"
    ELSE IF phase = "RoundAggregating" /\ kind = "aggregated" THEN "RoundWaitingForFinish"
    ELSE IF phase = "RoundWaitingForFinish" /\ kind = "finished" THEN "RoundFinished"
    ELSE IF phase = "RoundFinished" /\ kind # "unreadable" THEN "RoundWaitingForParticipants"
    ELSE phase

(* A reporter that begins to wait for participants is in the next round.   *)
After(state, line) ==
    [phase |-> PhaseAfter(state.phase, line.kind),
     round |-> IF PhaseAfter(state.phase, line.kind) = "RoundWaitingForParticipants"
                  /\ state.phase # "RoundWaitingForParticipants"
               THEN state.round + 1 ELSE state.round]

(* parse_output_line looks for drops.                                      *)
SeesDrops(state) == state.phase \in {"RoundWaitingForParticipants", "RoundRunning"}

(* The states s that the reporter will go through, and what is known of them. *)
Foresees(s) == /\ s \in Seq(ReporterState) /\ Len(s) = Len(pipe) + 1
               /\ s[1] = reporter
               /\ \A i \in 1 .. Len(pipe) : s[i + 1] = After(s[i], pipe[i])

(* The reporter in this state has taken round r to have started; and the   *)
(* coordinator has started a round for the r-th time, be it, after a         *)
(* roll-back, one it has started before.                                   *)
HasStarted(state, r) ==
    \/ r < state.round
    \/ r = state.round /\ state.phase \notin {"ProcessStarted", "RoundWaitingForParticipants"}

CoordinatorBegan(r) ==
    coord.waits > r \/ (coord.waits = r /\ coord.phase \notin {"starting", "waiting"})

NeverAhead(s) ==
    \A i \in 1 .. Len(pipe) + 1 : \A r \in Nat : HasStarted(s[i], r) => CoordinatorBegan(r)

(* The drops made while somebody looks for them.                           *)
TimelyDrops == coord.dropped \ coord.late

SeesEveryDrop(s) ==
    \A p \in TimelyDrops :
        \/ Sent(ParticipantDropped(p))
        \/ \E i \in 1 .. Len(pipe) :
              /\ pipe[i] = ParticipantLine("dropping", p)
              /\ SeesDrops(s[i])

SyncInv ==
    reporting => \E s : /\ Foresees(s) /\ InSync(s[Len(pipe) + 1]) /\ NeverAhead(s)
                        /\ SeesEveryDrop(s)

--------------------------------------------------------------------------------
(* The reporter is in one of its states after every line.                  *)
LEMMA AfterTyped ==
    ASSUME NEW state \in ReporterState, NEW line
    PROVE  After(state, line) \in ReporterState
<1>1. PhaseAfter(state.phase, line.kind) \in CoordinatorStates
  BY DEF PhaseAfter, ReporterState, CoordinatorStates
<1>2. state.round \in Nat /\ state.round + 1 \in Nat
  BY DEF ReporterState
<1> QED
  BY <1>1, <1>2 DEF After, ReporterState

(* A line that is not looked for leaves it where it is, and a drop is looked *)
(* for in two of the states.                                               *)
LEMMA LooksForIt ==
    ASSUME NEW phase \in CoordinatorStates
    PROVE  /\ \A k \in LineKinds : k \notin LooksFor(phase) => PhaseAfter(phase, k) = phase
           /\ phase \in {"RoundWaitingForParticipants", "RoundRunning"} =>
                  "dropping" \in LooksFor(phase)
           /\ phase = "RoundFinished" => LooksFor(phase) = LineKinds \ {"unreadable"}
<1>1. CASE phase = "ProcessStarted"
  <2>1. LooksFor(phase) = {"booted"}
    BY <1>1, Zenon DEF LooksFor
  <2> QED
    BY <1>1, <2>1 DEF PhaseAfter
<1>2. CASE phase = "RoundWaitingForParticipants"
  <2>1. LooksFor(phase) = {"dropping", "advanced"}
    BY <1>2, Zenon DEF LooksFor
  <2> QED
    BY <1>2, <2>1 DEF PhaseAfter
<1>3. CASE phase = "RoundRunning"
  <2>1. LooksFor(phase) = {"dropping", "aggregating", "restart", "contribution"}
    BY <1>3, Zenon DEF LooksFor
  <2> QED
    BY <1>3, <2>1 DEF PhaseAfter
<1>4. CASE phase = "RoundAggregating"
  <2>1. LooksFor(phase) = {"aggregated"}
    BY <1>4, Zenon DEF LooksFor
  <2> QED
    BY <1>4, <2>1 DEF PhaseAfter
<1>5. CASE phase = "RoundWaitingForFinish"
  <2>1. LooksFor(phase) = {"finished"}
    BY <1>5, Zenon DEF LooksFor
  <2> QED
    BY <1>5, <2>1 DEF PhaseAfter
<1>6. CASE phase = "RoundFinished"
  <2>1. LooksFor(phase) = LineKinds \ {"unreadable"}
    BY <1>6, Zenon DEF LooksFor
  <2> QED
    BY <1>6, <2>1 DEF PhaseAfter
<1> QED
  BY <1>1, <1>2, <1>3, <1>4, <1>5, <1>6 DEF CoordinatorStates

(* A step takes nothing off the bus, and puts at most one message on it.   *)
LogOnlyGrows == log' = log \/ \E m : log' = Append(log, m)

(* Whatever has been sent has been sent.                                   *)
LEMMA SentStays ==
    ASSUME log \in Seq(CeremonyMessage), log' \in Seq(CeremonyMessage), LogOnlyGrows,
           NEW x, Sent(x)
    PROVE  Sent(x)'
<1>1. PICK k \in 1 .. Len(log) : log[k] = x
  BY DEF Sent
<1>2. k \in 1 .. Len(log') /\ log'[k] = log[k]
  BY DEF LogOnlyGrows
<1> QED
  BY <1>1, <1>2 DEF Sent

(* What a line read does to the reporter, unless it is its end: it takes it *)
(* to the state foreseen, and a drop that is looked for is broadcast.      *)
ReadAsForeseen ==
    /\ reporting /\ pipe # <<>> /\ pipe' = Tail(pipe)
    /\ reporter' = After(reporter, Head(pipe))
    /\ LogOnlyGrows
    /\ \A p \in Participants :
          Head(pipe) = ParticipantLine("dropping", p) /\ SeesDrops(reporter) =>
              log' = Append(log, ParticipantDropped(p))

(* The lines that end a stage of the round.                                *)
LEMMA AnnouncesAsForeseen ==
    ASSUME ReporterTypeOK, NEW phase, NEW k, NEW message, NEW next,
           Announces(phase, k, message, next), k # "dropping",
           PhaseAfter(phase, k) = next, next # "RoundWaitingForParticipants"
    PROVE  ReadAsForeseen
<1>1. reporter \in ReporterState /\ reporter.phase = phase
  BY DEF Announces, ReporterTypeOK, ReporterState
<1>2. reporting /\ pipe # <<>> /\ pipe' = Tail(pipe) /\ Head(pipe).kind = k
  BY DEF Announces, Reads
<1>3. After(reporter, Head(pipe)) = [phase |-> next, round |-> reporter.round]
  BY <1>1, <1>2 DEF After
<1>4. reporter' = [phase |-> next, round |-> reporter.round]
  BY <1>1 DEF Announces, ReporterState
<1>5. LogOnlyGrows
  BY DEF Announces, Broadcast, LogOnlyGrows
<1>6. \A p : Head(pipe) # ParticipantLine("dropping", p)
  BY <1>2 DEF ParticipantLine
<1> QED
  BY <1>2, <1>3, <1>4, <1>5, <1>6 DEF ReadAsForeseen

(* Every arm of parse_output_line does that, unless the thread ends.       *)
LEMMA ReadsAsForeseen ==
    ASSUME ReporterTypeOK, BootedFirst, ReadsALine, reporting'
    PROVE  ReadAsForeseen
<1>1. reporter \in ReporterState /\ reporter.phase \in CoordinatorStates
  BY DEF ReporterTypeOK, ReporterState
<1>2. ASSUME NEW k, Reads(k)
      PROVE  reporting /\ pipe # <<>> /\ pipe' = Tail(pipe) /\ Head(pipe).kind = k
  BY <1>2 DEF Reads
<1>3. ASSUME NEW p, Head(pipe).kind # "dropping"
      PROVE  Head(pipe) # ParticipantLine("dropping", p)
  BY <1>3 DEF ParticipantLine
<1>4. ASSUME UNCHANGED reporter, PhaseAfter(reporter.phase, Head(pipe).kind) = reporter.phase
      PROVE  reporter' = After(reporter, Head(pipe))
  <2>1. After(reporter, Head(pipe)) = [phase |-> reporter.phase, round |-> reporter.round]
    BY <1>4 DEF After
  <2> QED
    BY <1>1, <1>4, <2>1 DEF ReporterState
<1>5. CASE ReportBooted
  <2>1. Head(pipe).kind = "booted" /\ reporter.phase = "ProcessStarted" /\ reporter.round = 0
    BY <1>2, <1>5 DEF ReportBooted, BootedFirst
  <2>2. reporter' = After(reporter, Head(pipe))
    BY <1>5, <2>1 DEF ReportBooted, AwaitsRound, After, PhaseAfter
  <2>3. LogOnlyGrows
    BY <1>5 DEF ReportBooted, AwaitsRound, Broadcast, LogOnlyGrows
  <2> QED
    BY <1>2, <1>3, <1>5, <2>1, <2>2, <2>3 DEF ReportBooted, ReadAsForeseen
<1>6. CASE ReportStarted
  BY <1>6, AnnouncesAsForeseen DEF ReportStarted, PhaseAfter
<1>7. CASE ReportAggregation
  BY <1>7, AnnouncesAsForeseen DEF ReportAggregation, PhaseAfter
<1>8. CASE ReportAggregated
  BY <1>8, AnnouncesAsForeseen DEF ReportAggregated, PhaseAfter
<1>9. CASE ReportFinished
  BY <1>9, AnnouncesAsForeseen DEF ReportFinished, PhaseAfter
<1>10. CASE ReportNextRound
  <2>1. PICK k \in LooksFor("RoundFinished") : Reads(k)
    BY <1>10 DEF ReportNextRound
  <2>2. reporter.phase = "RoundFinished" /\ Head(pipe).kind # "unreadable"
    BY <1>1, <1>2, <1>10, <2>1, LooksForIt DEF ReportNextRound
  <2>3. reporter' = After(reporter, Head(pipe))
    BY <1>10, <2>2 DEF ReportNextRound, AwaitsRound, After, PhaseAfter
  <2>4. LogOnlyGrows /\ ~ SeesDrops(reporter)
    BY <1>10, <2>2 DEF ReportNextRound, AwaitsRound, Broadcast, LogOnlyGrows, SeesDrops
  <2> QED
    BY <1>2, <2>1, <2>3, <2>4 DEF ReadAsForeseen
<1>11. CASE ReportDropped
  <2>1. Head(pipe).kind = "dropping" /\ UNCHANGED reporter
    BY <1>2, <1>11 DEF ReportDropped
  <2>2. reporter' = After(reporter, Head(pipe))
    BY <1>4, <1>11, <2>1 DEF ReportDropped, PhaseAfter
  <2>3. log' = Append(log, ParticipantDropped(Head(pipe).participant))
    BY <1>11 DEF ReportDropped, Broadcast
  <2>4. \A p : ParticipantLine("dropping", p).participant = p
    BY DEF ParticipantLine
  <2> QED
    BY <1>2, <1>11, <2>2, <2>3, <2>4 DEF ReportDropped, ReadAsForeseen, LogOnlyGrows
<1>12. CASE ReportContribution
  <2>1. Head(pipe).kind = "contribution" /\ UNCHANGED reporter /\ reporter.phase = "RoundRunning"
    BY <1>2, <1>12 DEF ReportContribution
  <2>2. reporter' = After(reporter, Head(pipe))
    BY <1>4, <2>1 DEF PhaseAfter
  <2>3. LogOnlyGrows
    BY <1>12 DEF ReportContribution, Broadcast, LogOnlyGrows
  <2> QED
    BY <1>2, <1>3, <1>12, <2>1, <2>2, <2>3 DEF ReportContribution, ReadAsForeseen
<1>13. CASE ReportRestart
  <2>1. Head(pipe).kind = "restart" /\ reporter.phase = "RoundRunning"
    BY <1>2, <1>13 DEF ReportRestart
  <2>2. reporter' = [phase |-> "RoundFinished", round |-> reporter.round]
    BY <1>1, <1>13 DEF ReportRestart, ReporterState
  <2>3. reporter' = After(reporter, Head(pipe))
    BY <2>1, <2>2 DEF After, PhaseAfter
  <2>4. LogOnlyGrows
    BY <1>13 DEF ReportRestart, Broadcast, LogOnlyGrows
  <2> QED
    BY <1>2, <1>3, <1>13, <2>1, <2>3, <2>4 DEF ReportRestart, ReadAsForeseen
<1>14. CASE IgnoreLine
  <2>1. PICK k \in LineKinds \ LooksFor(reporter.phase) : Reads(k)
    BY <1>14 DEF IgnoreLine
  <2>2. Head(pipe).kind = k /\ PhaseAfter(reporter.phase, k) = reporter.phase
    BY <1>1, <1>2, <2>1, LooksForIt
  <2>3. reporter' = After(reporter, Head(pipe))
    BY <1>4, <1>14, <2>2 DEF IgnoreLine
  <2>4. SeesDrops(reporter) => Head(pipe).kind # "dropping"
    BY <1>1, <2>1, <2>2, LooksForIt DEF SeesDrops
  <2>5. LogOnlyGrows
    BY <1>14 DEF IgnoreLine, LogOnlyGrows
  <2> QED
    BY <1>2, <1>3, <2>1, <2>3, <2>4, <2>5 DEF ReadAsForeseen
<1>15. ~ RejectLine
  BY DEF RejectLine, ReporterFails
<1> QED
  BY <1>5, <1>6, <1>7, <1>8, <1>9, <1>10, <1>11, <1>12, <1>13, <1>14, <1>15 DEF ReadsALine

--------------------------------------------------------------------------------
(* The states that go with the phases of the coordinator.                  *)
LEMMA Mirrors ==
    /\ Mirror("starting") = "ProcessStarted"
    /\ Mirror("waiting") = "RoundWaitingForParticipants"
    /\ Mirror("running") = "RoundRunning"
    /\ Mirror("aggregating") = "RoundAggregating"
    /\ Mirror("aggregated") = "RoundWaitingForFinish"
    /\ Mirror("finished") = "RoundFinished" /\ Mirror("restarted") = "RoundFinished"
BY Zenon DEF Mirror, OverPhases

(* A line read is one state less to go through.                            *)
LEMMA ReadKeepsSync ==
    ASSUME TypeOK, ReporterTypeOK', CoordinatorTypeOK, SyncInv, ReadAsForeseen,
           UNCHANGED coord
    PROVE  SyncInv'
<1>1. PICK s : Foresees(s) /\ InSync(s[Len(pipe) + 1]) /\ NeverAhead(s) /\ SeesEveryDrop(s)
  BY DEF SyncInv, ReadAsForeseen
<1> DEFINE t == Tail(s)
<1>2. /\ pipe \in Seq(Line) /\ pipe # <<>>
      /\ s \in Seq(ReporterState) /\ Len(s) = Len(pipe) + 1
  BY <1>1 DEF Foresees, TypeOK, ReporterTypeOK, ReadAsForeseen
<1>3. /\ pipe' = Tail(pipe) /\ Len(pipe') = Len(pipe) - 1 /\ Len(pipe) \in Nat \ {0}
      /\ Head(pipe) = pipe[1]
      /\ \A i \in 1 .. Len(pipe') : pipe'[i] = pipe[i + 1]
  BY <1>2 DEF ReadAsForeseen
<1>4. /\ t \in Seq(ReporterState) /\ Len(t) = Len(pipe)
      /\ \A i \in 1 .. Len(pipe) : t[i] = s[i + 1]
  BY <1>2
<1> HIDE DEF t
<1>5. Foresees(t)'
  <2>1. t[1] = reporter'
    <3>1. s[2] = After(s[1], pipe[1]) /\ s[1] = reporter
      BY <1>1, <1>3 DEF Foresees
    <3> QED
      BY <1>3, <1>4, <3>1 DEF ReadAsForeseen
  <2>2. ASSUME NEW i \in 1 .. Len(pipe')
        PROVE  t[i + 1] = After(t[i], pipe'[i])
    <3>1. i + 1 \in 1 .. Len(pipe) /\ i \in 1 .. Len(pipe)
      BY <1>3
    <3>2. s[i + 1 + 1] = After(s[i + 1], pipe[i + 1])
      BY <1>1, <3>1 DEF Foresees
    <3> QED
      BY <1>3, <1>4, <3>1, <3>2
  <2>3. Len(t) = Len(pipe') + 1
    BY <1>3, <1>4
  <2> QED
    BY <1>4, <2>1, <2>2, <2>3 DEF Foresees
<1>6. InSync(t[Len(pipe) + 1])' /\ NeverAhead(t)'
  <2>1. t[Len(pipe') + 1] = s[Len(pipe) + 1]
    BY <1>3, <1>4
  <2>2. \A i \in 1 .. Len(pipe') + 1 : i + 1 \in 1 .. Len(pipe) + 1 /\ t[i] = s[i + 1]
    BY <1>3, <1>4
  <2>3. InSync(t[Len(pipe) + 1])'
    BY <1>1, <2>1 DEF InSync
  <2>4. NeverAhead(t)'
    BY <1>1, <2>2 DEF NeverAhead, CoordinatorBegan
  <2> QED
    BY <2>3, <2>4
<1>7. SeesEveryDrop(t)'
  <2> SUFFICES ASSUME NEW p \in TimelyDrops,
                      ~ \E i \in 1 .. Len(pipe') :
                            pipe'[i] = ParticipantLine("dropping", p) /\ SeesDrops(t[i])
               PROVE  Sent(ParticipantDropped(p))'
    BY DEF SeesEveryDrop, TimelyDrops
  <2>1. p \in Participants
    BY DEF CoordinatorTypeOK, TimelyDrops
  <2>2. CASE Sent(ParticipantDropped(p))
    BY <2>2, SentStays DEF TypeOK, ReporterTypeOK, ReadAsForeseen
  <2>3. CASE ~ Sent(ParticipantDropped(p))
    <3>1. PICK i \in 1 .. Len(pipe) :
              pipe[i] = ParticipantLine("dropping", p) /\ SeesDrops(s[i])
      BY <1>1, <2>3 DEF SeesEveryDrop
    <3>2. i = 1
      <4>1. SUFFICES ASSUME i # 1 PROVE FALSE
        OBVIOUS
      <4>2. i - 1 \in 1 .. Len(pipe') /\ i - 1 \in 1 .. Len(pipe) /\ i - 1 + 1 = i
        BY <1>3, <4>1
      <4>3. pipe'[i - 1] = pipe[i] /\ t[i - 1] = s[i]
        BY <1>3, <1>4, <4>2
      <4> QED
        BY <3>1, <4>2, <4>3
    <3>3. log' = Append(log, ParticipantDropped(p))
      BY <1>1, <1>3, <2>1, <3>1, <3>2 DEF ReadAsForeseen, Foresees
    <3>4. Len(log) + 1 \in 1 .. Len(log') /\ log'[Len(log) + 1] = ParticipantDropped(p)
      BY <3>3 DEF TypeOK, ReporterTypeOK
    <3> QED
      BY <3>4 DEF Sent
  <2> QED
    BY <2>2, <2>3
<1> QED
  BY <1>5, <1>6, <1>7 DEF SyncInv

(* A reporter that is where the coordinator is takes no round to have started *)
(* that has not.                                                           *)
LEMMA SyncBegan ==
    CoordinatorTypeOK =>
        \A state \in ReporterState : \A r \in Nat :
            InSync(state) /\ HasStarted(state, r) => CoordinatorBegan(r)
<1> SUFFICES ASSUME CoordinatorTypeOK, NEW state \in ReporterState, NEW r \in Nat, InSync(state),
                    HasStarted(state, r)
             PROVE  CoordinatorBegan(r)
  OBVIOUS
<1>1. state.round \in Nat /\ coord.waits \in Nat /\ coord.phase \in CoordinatorPhases
  BY DEF CoordinatorTypeOK, ReporterState
<1>2. CASE state.phase = Mirror(coord.phase) /\ state.round = coord.waits
  <2>1. coord.phase \in {"starting", "waiting"} =>
            state.phase \in {"ProcessStarted", "RoundWaitingForParticipants"}
    BY <1>2, Mirrors
  <2> QED
    BY <1>1, <1>2, <2>1 DEF HasStarted, CoordinatorBegan
<1>3. CASE /\ coord.phase \in OverPhases
           /\ state = [phase |-> "RoundWaitingForParticipants", round |-> coord.waits + 1]
  BY <1>1, <1>3 DEF OverPhases, HasStarted, CoordinatorBegan
<1> QED
  BY <1>2, <1>3 DEF InSync

(* The same of the state the step leads to.                                *)
LEMMA SyncBeganNext ==
    CoordinatorTypeOK' =>
        \A state \in ReporterState : \A r \in Nat :
            InSync(state)' /\ HasStarted(state, r) => CoordinatorBegan(r)'
<1>1. (CoordinatorTypeOK =>
           \A state \in ReporterState : \A r \in Nat :
               InSync(state) /\ HasStarted(state, r) => CoordinatorBegan(r))'
  BY SyncBegan, PTL
<1> QED
  BY <1>1

(* A line written is one state more; the last state was in step with the   *)
(* coordinator, and the new one has to be.                                 *)
LEMMA WriteKeepsSync ==
    ASSUME TypeOK, SyncInv, NEW line, Says(line), pipe' \in Seq(Line),
           \A state \in ReporterState : InSync(state) => InSync(After(state, line))',
           CoordinatorTypeOK', \A r \in Nat : CoordinatorBegan(r) => CoordinatorBegan(r)',
           \A p \in TimelyDrops' \ TimelyDrops :
               line = ParticipantLine("dropping", p) /\ InRound
    PROVE  SyncInv'
<1> SUFFICES ASSUME reporting PROVE SyncInv'
  BY DEF SyncInv, Says, WriteLine
<1>1. PICK s : Foresees(s) /\ InSync(s[Len(pipe) + 1]) /\ NeverAhead(s) /\ SeesEveryDrop(s)
  BY DEF SyncInv
<1> DEFINE n == Len(pipe) + 1
<1>2. /\ pipe \in Seq(Line) /\ Len(pipe) \in Nat /\ n \in Nat
      /\ s \in Seq(ReporterState) /\ Len(s) = n /\ s[n] \in ReporterState
  BY <1>1 DEF Foresees, TypeOK, ReporterTypeOK
<1>3. UNCHANGED <<reporter, reporting, log>>
  BY DEF Says, WriteLine
<1>4. /\ pipe' = Append(pipe, line) /\ Len(pipe') = n
      /\ \A i \in 1 .. Len(pipe) : pipe'[i] = pipe[i]
      /\ pipe'[n] = line
  BY <1>2 DEF Says, WriteLine
<1>5. After(s[n], line) \in ReporterState
  BY <1>2, AfterTyped
<1>6. PICK t \in Seq(ReporterState) : /\ Len(t) = n + 1
                                      /\ \A i \in 1 .. n : t[i] = s[i]
                                      /\ t[n + 1] = After(s[n], line)
  <2> DEFINE t == Append(s, After(s[n], line))
  <2>1. /\ t \in Seq(ReporterState) /\ Len(t) = n + 1
        /\ \A i \in 1 .. n : t[i] = s[i]
        /\ t[n + 1] = After(s[n], line)
    BY <1>2, <1>5
  <2> QED
    BY <2>1
<1>7. Foresees(t)'
  <2>1. t[1] = reporter'
    BY <1>1, <1>2, <1>3, <1>6 DEF Foresees
  <2>2. ASSUME NEW i \in 1 .. Len(pipe')
        PROVE  t[i + 1] = After(t[i], pipe'[i])
    <3>1. CASE i = n
      BY <1>2, <1>4, <1>6, <3>1
    <3>2. CASE i # n
      <4>1. i \in 1 .. Len(pipe) /\ i \in 1 .. n /\ i + 1 \in 1 .. n
        BY <1>2, <1>4, <3>2
      <4>2. s[i + 1] = After(s[i], pipe[i])
        BY <1>1, <4>1 DEF Foresees
      <4> QED
        BY <1>4, <1>6, <4>1, <4>2
    <3> QED
      BY <3>1, <3>2
  <2> QED
    BY <1>4, <1>6, <2>1, <2>2 DEF Foresees
<1>8. InSync(t[Len(pipe) + 1])' /\ NeverAhead(t)'
  <2>1. t[Len(pipe') + 1] = After(s[n], line)
    BY <1>4, <1>6
  <2>2. PICK old \in ReporterState : old = s[n]
    BY <1>2
  <2>3. InSync(After(old, line))'
    BY <1>1, <2>2
  <2>4. InSync(t[Len(pipe) + 1])'
    BY <2>1, <2>2, <2>3 DEF InSync
  <2>5. ASSUME NEW i \in 1 .. Len(pipe') + 1, NEW q \in Nat, HasStarted(t[i], q)
        PROVE  CoordinatorBegan(q)'
    <3>1. CASE i = n + 1
      <4>1. t[i] = After(old, line) /\ After(old, line) \in ReporterState
        BY <1>5, <1>6, <2>2, <3>1
      <4> QED
        BY <2>3, <2>5, <4>1, SyncBeganNext
    <3>2. CASE i # n + 1
      <4>1. i \in 1 .. n
        BY <1>2, <1>4, <3>2
      <4> QED
        BY <1>1, <1>6, <2>5, <4>1 DEF NeverAhead
    <3> QED
      BY <3>1, <3>2
  <2> QED
    BY <2>4, <2>5 DEF NeverAhead
<1>9. SeesEveryDrop(t)'
  <2> SUFFICES ASSUME NEW p \in TimelyDrops'
               PROVE  \/ Sent(ParticipantDropped(p))'
                      \/ \E i \in 1 .. Len(pipe') :
                            pipe'[i] = ParticipantLine("dropping", p) /\ SeesDrops(t[i])
    BY DEF SeesEveryDrop
  <2>1. CASE p \in TimelyDrops /\ Sent(ParticipantDropped(p))
    BY <1>3, <2>1 DEF Sent
  <2>2. CASE p \in TimelyDrops /\ ~ Sent(ParticipantDropped(p))
    <3>1. PICK i \in 1 .. Len(pipe) :
              pipe[i] = ParticipantLine("dropping", p) /\ SeesDrops(s[i])
      BY <1>1, <2>2 DEF SeesEveryDrop
    <3>2. i \in 1 .. Len(pipe') /\ i \in 1 .. n
      BY <1>2, <1>4
    <3> QED
      BY <1>4, <1>6, <3>1, <3>2
  <2>3. CASE p \notin TimelyDrops
    <3>1. line = ParticipantLine("dropping", p) /\ coord.phase \in {"waiting", "running"}
      BY <2>3 DEF InRound
    <3>2. s[n].phase = Mirror(coord.phase)
      BY <1>1, <3>1 DEF InSync, OverPhases
    <3>3. SeesDrops(s[n])
      BY <3>1, <3>2, Mirrors DEF SeesDrops
    <3> QED
      BY <1>2, <1>4, <1>6, <3>1, <3>3
  <2> QED
    BY <2>1, <2>2, <2>3
<1> QED
  BY <1>7, <1>8, <1>9 DEF SyncInv

--------------------------------------------------------------------------------
(* A step of the coordinator begins a round, with contributors that came and *)
(* have not been in a round before, or has no effect on which rounds began.  *)
BeginsRound(came) ==
    /\ coord.phase = "waiting" /\ coord'.phase = "running"
    /\ coord'.round = coord.round /\ coord'.waits = coord.waits
    /\ \E new \in SUBSET came :
          /\ new # {} /\ new \cap coord.taken = {}
          /\ coord'.taken = coord.taken \cup new
          /\ coord'.rosters = [coord.rosters EXCEPT ![coord.round] = new]

BeginsNone ==
    /\ coord'.taken = coord.taken /\ coord'.rosters = coord.rosters
    /\ \A r \in Nat \ {0} : CoordinatorBegan(r)' <=> CoordinatorBegan(r)

(* What began has begun.                                                   *)
NoRoundBack == \A r \in Nat : CoordinatorBegan(r) => CoordinatorBegan(r)'

(* The coordinator waits for participants for the first time when it boots. *)
StartsAtZero == coord.phase = "starting" => coord.waits = 0

(* A line takes the reporter to where the coordinator goes: when a round is  *)
(* over, no line keeps it from taking the next one to be waiting.          *)
Leads(line) ==
    IF coord.phase \in OverPhases
    THEN /\ line.kind \notin {"unreadable", "advanced"}
         /\ \/ coord'.phase = coord.phase /\ coord'.waits = coord.waits
            \/ coord'.phase = "waiting" /\ coord'.waits = coord.waits + 1
    ELSE /\ PhaseAfter(Mirror(coord.phase), line.kind) = Mirror(coord'.phase)
         /\ coord'.waits = IF coord.phase = "starting" /\ coord'.phase # "starting"
                           THEN coord.waits + 1 ELSE coord.waits
         /\ coord.phase # "starting" /\ coord.phase # "waiting" => coord'.phase # "waiting"

(* A line has only to lead where the coordinator goes, and to be one of the *)
(* drop if a drop is made.                                                 *)
LEMMA LeadingLineKeepsSync ==
    ASSUME TypeOK, TypeOK', SyncInv, NEW line, Says(line), NoRoundBack, Leads(line),
           \A p \in TimelyDrops' \ TimelyDrops :
               line = ParticipantLine("dropping", p) /\ InRound
    PROVE  SyncInv'
<1>1. ASSUME NEW state \in ReporterState, InSync(state)
      PROVE  InSync(After(state, line))'
  <2>0. /\ coord.phase \in CoordinatorPhases /\ coord'.phase \in CoordinatorPhases
        /\ coord.waits \in Nat /\ coord'.waits \in Nat
    BY DEF TypeOK, CoordinatorTypeOK
  <2>1. CASE coord.phase \in OverPhases
    <3>1. \/ state.phase = "RoundFinished" /\ state.round = coord.waits
          \/ state.phase = "RoundWaitingForParticipants" /\ state.round = coord.waits + 1
      BY <1>1, <2>1, Mirrors DEF InSync, OverPhases
    <3>2. After(state, line) = [phase |-> "RoundWaitingForParticipants",
                                round |-> coord.waits + 1]
      BY <2>1, <3>1 DEF After, PhaseAfter, Leads
    <3>3. CASE coord'.phase = coord.phase /\ coord'.waits = coord.waits
      BY <2>1, <3>2, <3>3 DEF InSync
    <3>4. CASE coord'.phase = "waiting" /\ coord'.waits = coord.waits + 1
      BY <3>2, <3>4, Mirrors DEF InSync
    <3> QED
      BY <2>1, <3>3, <3>4 DEF Leads
  <2>2. CASE coord.phase \notin OverPhases
    <3>1. state.phase = Mirror(coord.phase) /\ state.round = coord.waits
      BY <1>1, <2>2 DEF InSync
    <3>2. After(state, line).phase = Mirror(coord'.phase)
      BY <2>2, <3>1 DEF After, Leads
    <3>3. After(state, line).round = coord'.waits
      <4>1. Mirror(coord'.phase) = "RoundWaitingForParticipants" <=> coord'.phase = "waiting"
        BY <2>0, Mirrors DEF CoordinatorPhases
      <4>2. Mirror(coord.phase) = "RoundWaitingForParticipants" <=> coord.phase = "waiting"
        BY <2>0, Mirrors DEF CoordinatorPhases
      <4>3. coord.phase = "starting" => coord'.phase \in {"starting", "waiting"}
        BY <2>0, <2>2, Mirrors DEF Leads, PhaseAfter, CoordinatorPhases
      <4> QED
        BY <2>0, <2>2, <3>1, <3>2, <4>1, <4>2, <4>3 DEF After, Leads
    <3> QED
      BY <3>2, <3>3 DEF InSync
  <2> QED
    BY <2>1, <2>2
<1>2. pipe' \in Seq(Line) /\ CoordinatorTypeOK'
  BY DEF TypeOK, ReporterTypeOK
<1> QED
  BY <1>1, <1>2, WriteKeepsSync DEF NoRoundBack

(* A step of the coordinator begins a round, with some of the contributors *)
(* that have come, or none; and a round that has begun stays so.           *)
LEMMA CoordinatorEffects ==
    ASSUME CoordinatorTypeOK, StartsAtZero, NEW came, NEW present, NEW standby, NEW droppable,
           NEW chatty, CoordinatorNext(came, present, standby, droppable, chatty)
    PROVE  NoRoundBack /\ (BeginsRound(came) \/ BeginsNone)
<1> USE DEF NoRoundBack, BeginsNone, CoordinatorBegan
<1>1. /\ coord \in [phase : CoordinatorPhases, round : Nat, waits : 0 .. MaxRound,
                   chunks : 0 .. Chunks, rosters : [1 .. MaxRound -> SUBSET Contributors],
                   taken : SUBSET Contributors,
                   dropped : SUBSET Participants, late : SUBSET Participants]
      /\ coord.waits \in Nat
  BY DEF CoordinatorTypeOK
<1>2. CASE CoordinatorBoots
  <2>1. /\ coord.phase = "starting" /\ coord'.phase = "waiting"
        /\ coord.waits = 0 /\ coord'.waits = 1
        /\ coord'.taken = coord.taken /\ coord'.rosters = coord.rosters
    BY <1>1, <1>2 DEF CoordinatorBoots, StartsAtZero
  <2> QED
    BY <1>1, <2>1
<1>3. CASE \E contributors \in SUBSET came : CoordinatorStarts(contributors)
  <2>1. PICK contributors \in SUBSET came : CoordinatorStarts(contributors)
    BY <1>3
  <2>2. /\ coord.phase = "waiting" /\ coord'.phase = "running"
        /\ coord'.round = coord.round /\ coord'.waits = coord.waits
        /\ contributors # {} /\ contributors \cap coord.taken = {}
        /\ coord'.taken = coord.taken \cup contributors
        /\ coord'.rosters = [coord.rosters EXCEPT ![coord.round] = contributors]
    BY <1>1, <2>1 DEF CoordinatorStarts
  <2>3. BeginsRound(came)
    BY <2>1, <2>2 DEF BeginsRound
  <2> QED
    BY <1>1, <2>2, <2>3
<1>4. CASE \/ \E c \in present : CoordinatorTakesChunk(c)
           \/ \E p \in droppable : CoordinatorDrops(p)
           \/ CoordinatorChats
  <2>1. /\ coord'.phase = coord.phase /\ coord'.waits = coord.waits
        /\ coord'.taken = coord.taken /\ coord'.rosters = coord.rosters
    BY <1>1, <1>4 DEF CoordinatorTakesChunk, CoordinatorDrops, CoordinatorChats
  <2> QED
    BY <1>1, <2>1
<1>5. CASE \/ CoordinatorRestarts(standby) \/ CoordinatorAggregates
           \/ CoordinatorAggregated \/ CoordinatorFinishes
  <2>1. /\ {coord.phase, coord'.phase} \cap {"starting", "waiting"} = {}
        /\ coord'.waits = coord.waits
        /\ coord'.taken = coord.taken /\ coord'.rosters = coord.rosters
    BY <1>1, <1>5 DEF CoordinatorRestarts, CoordinatorAggregates, CoordinatorAggregated,
                      CoordinatorFinishes, Moves
  <2> QED
    BY <1>1, <2>1
<1>6. CASE CoordinatorNextRound \/ CoordinatorRollsBack
  <2>1. /\ coord.phase \in OverPhases /\ coord'.phase = "waiting"
        /\ coord'.waits = coord.waits + 1
        /\ coord'.taken = coord.taken /\ coord'.rosters = coord.rosters
    BY <1>1, <1>6 DEF CoordinatorNextRound, CoordinatorRollsBack, WaitsAgain, OverPhases
  <2> QED
    BY <1>1, <2>1 DEF OverPhases
<1> QED
  BY <1>2, <1>3, <1>4, <1>5, <1>6 DEF CoordinatorNext

(* Each step of the coordinator says what takes the reporter to the phase  *)
(* that the coordinator goes to, and what drops it says it has made.       *)
LEMMA CoordinatorKeepsSync ==
    ASSUME TypeOK, TypeOK', SyncInv, StartsAtZero, AnyCoordinatorStep \/ CoordinatorGarbles
    PROVE  SyncInv'
<1>1. /\ coord.waits \in Nat /\ coord.phase \in CoordinatorPhases
      /\ \A k : PlainLine(k).kind = k
      /\ \A k, p : ParticipantLine(k, p).kind = k
  BY DEF TypeOK, CoordinatorTypeOK, PlainLine, ParticipantLine
<1>2. NoRoundBack
  <2>1. CASE AnyCoordinatorStep
    BY <2>1, CoordinatorEffects DEF TypeOK, AnyCoordinatorStep
  <2>2. CASE coord' = coord
    BY <2>2 DEF NoRoundBack, CoordinatorBegan
  <2> QED
    BY <2>1, <2>2 DEF CoordinatorGarbles
<1>3. ASSUME NEW line, Says(line), Leads(line),
             coord'.dropped = coord.dropped /\ coord'.late = coord.late
      PROVE  SyncInv'
  BY <1>2, <1>3, LeadingLineKeepsSync DEF TimelyDrops
<1>4. CASE CoordinatorBoots
  <2>1. /\ coord.phase = "starting" /\ coord'.phase = "waiting"
        /\ coord.waits = 0 /\ coord'.waits = 1
        /\ coord'.dropped = coord.dropped /\ coord'.late = coord.late
        /\ Says(PlainLine("booted"))
    BY <1>4 DEF CoordinatorBoots, TypeOK, CoordinatorTypeOK, StartsAtZero
  <2>2. Leads(PlainLine("booted"))
    BY <1>1, <2>1, Mirrors DEF Leads, PhaseAfter, OverPhases
  <2> QED
    BY <1>3, <2>1, <2>2
<1>5. CASE \E contributors \in SUBSET Contributors : CoordinatorStarts(contributors)
  <2>1. /\ coord.phase = "waiting" /\ coord'.phase = "running" /\ coord'.waits = coord.waits
        /\ coord'.dropped = coord.dropped /\ coord'.late = coord.late
        /\ Says(PlainLine("advanced"))
    BY <1>5 DEF CoordinatorStarts, TypeOK, CoordinatorTypeOK
  <2>2. Leads(PlainLine("advanced"))
    BY <1>1, <2>1, Mirrors DEF Leads, PhaseAfter, OverPhases
  <2> QED
    BY <1>3, <2>1, <2>2
<1>6. CASE \E c \in Contributors : CoordinatorTakesChunk(c)
  <2>1. PICK c \in Contributors : CoordinatorTakesChunk(c)
    BY <1>6
  <2>2. /\ coord.phase = "running" /\ coord'.phase = "running" /\ coord'.waits = coord.waits
        /\ coord'.dropped = coord.dropped /\ coord'.late = coord.late
        /\ Says(ParticipantLine("contribution", c))
    BY <2>1 DEF CoordinatorTakesChunk, TypeOK, CoordinatorTypeOK
  <2>3. Leads(ParticipantLine("contribution", c))
    BY <1>1, <2>2, Mirrors DEF Leads, PhaseAfter, OverPhases
  <2> QED
    BY <1>3, <2>2, <2>3
<1>7. ASSUME NEW line, Says(line), line.kind \in {"other", "dropping", "contribution"},
             coord'.phase = coord.phase /\ coord'.waits = coord.waits,
             line.kind = "other" \/ coord.phase # "starting"
      PROVE  Leads(line)
  <2>1. CASE coord.phase \in OverPhases
    BY <1>7, <2>1 DEF Leads
  <2>2. CASE coord.phase \notin OverPhases
    <3>1. Mirror(coord.phase) # "RoundFinished"
      BY <1>1, <2>2, Mirrors DEF CoordinatorPhases, OverPhases
    <3>2. PhaseAfter(Mirror(coord.phase), line.kind) = Mirror(coord.phase)
      BY <1>7, <3>1 DEF PhaseAfter
    <3> QED
      BY <1>1, <1>7, <2>2, <3>2 DEF Leads
  <2> QED
    BY <2>1, <2>2
<1>8. CASE \E p \in Participants : CoordinatorDrops(p)
  <2>1. PICK p \in Participants : CoordinatorDrops(p)
    BY <1>8
  <2> DEFINE line == ParticipantLine("dropping", p)
  <2>2. /\ coord.phase # "starting" /\ coord'.phase = coord.phase
        /\ coord'.waits = coord.waits /\ coord'.dropped = coord.dropped \cup {p}
        /\ coord'.late = IF InRound THEN coord.late ELSE coord.late \cup {p}
        /\ Says(line)
    BY <2>1 DEF CoordinatorDrops, TypeOK, CoordinatorTypeOK
  <2>3. line.kind = "dropping"
    BY <1>1
  <2>4. \A q \in TimelyDrops' \ TimelyDrops :
            line = ParticipantLine("dropping", q) /\ InRound
    BY <2>2 DEF TimelyDrops
  <2> HIDE DEF line
  <2>5. Leads(line)
    BY <1>7, <2>2, <2>3
  <2> QED
    BY <1>2, <2>2, <2>4, <2>5, LeadingLineKeepsSync
<1>9. CASE CoordinatorRestarts({})
  <2>1. /\ coord.phase = "running" /\ coord'.phase = "restarted" /\ coord'.waits = coord.waits
        /\ coord'.dropped = coord.dropped /\ coord'.late = coord.late
        /\ Says(PlainLine("restart"))
    BY <1>9 DEF CoordinatorRestarts, Moves, TypeOK, CoordinatorTypeOK
  <2>2. Leads(PlainLine("restart"))
    BY <1>1, <2>1, Mirrors DEF Leads, PhaseAfter, OverPhases
  <2> QED
    BY <1>3, <2>1, <2>2
<1>10. CASE CoordinatorAggregates
  <2>1. /\ coord.phase = "running" /\ coord'.phase = "aggregating" /\ coord'.waits = coord.waits
        /\ coord'.dropped = coord.dropped /\ coord'.late = coord.late
        /\ Says(PlainLine("aggregating"))
    BY <1>10 DEF CoordinatorAggregates, Moves, TypeOK, CoordinatorTypeOK
  <2>2. Leads(PlainLine("aggregating"))
    BY <1>1, <2>1, Mirrors DEF Leads, PhaseAfter, OverPhases
  <2> QED
    BY <1>3, <2>1, <2>2
<1>11. CASE CoordinatorAggregated
  <2>1. /\ coord.phase = "aggregating" /\ coord'.phase = "aggregated"
        /\ coord'.waits = coord.waits
        /\ coord'.dropped = coord.dropped /\ coord'.late = coord.late
        /\ Says(PlainLine("aggregated"))
    BY <1>11 DEF CoordinatorAggregated, Moves, TypeOK, CoordinatorTypeOK
  <2>2. Leads(PlainLine("aggregated"))
    BY <1>1, <2>1, Mirrors DEF Leads, PhaseAfter, OverPhases
  <2> QED
    BY <1>3, <2>1, <2>2
<1>12. CASE CoordinatorFinishes
  <2>1. /\ coord.phase = "aggregated" /\ coord'.phase = "finished" /\ coord'.waits = coord.waits
        /\ coord'.dropped = coord.dropped /\ coord'.late = coord.late
        /\ Says(PlainLine("finished"))
    BY <1>12 DEF CoordinatorFinishes, Moves, TypeOK, CoordinatorTypeOK
  <2>2. Leads(PlainLine("finished"))
    BY <1>1, <2>1, Mirrors DEF Leads, PhaseAfter, OverPhases
  <2> QED
    BY <1>3, <2>1, <2>2
<1>13. CASE CoordinatorNextRound \/ CoordinatorRollsBack
  <2>1. /\ coord.phase \in OverPhases /\ coord'.phase = "waiting"
        /\ coord'.waits = coord.waits + 1
        /\ coord'.dropped = coord.dropped /\ coord'.late = coord.late
        /\ Says(PlainLine("other"))
    BY <1>13 DEF CoordinatorNextRound, CoordinatorRollsBack, WaitsAgain, OverPhases, TypeOK,
                 CoordinatorTypeOK
  <2>2. Leads(PlainLine("other"))
    BY <1>1, <2>1 DEF Leads
  <2> QED
    BY <1>3, <2>1, <2>2
<1>14. CASE CoordinatorChats
  BY <1>1, <1>3, <1>7, <1>14 DEF CoordinatorChats
<1>15. CASE CoordinatorGarbles
  BY <1>1, <1>3, <1>7, <1>15 DEF CoordinatorGarbles
<1> QED
  BY <1>4, <1>5, <1>6, <1>8, <1>9, <1>10, <1>11, <1>12, <1>13, <1>14, <1>15
     DEF AnyCoordinatorStep, CoordinatorNext

(* It has not waited for anybody until it has booted.                      *)
LEMMA StartsAtZeroStep ==
    ASSUME TypeOK, StartsAtZero, [OpenNext]_coordinatorVars
    PROVE  StartsAtZero'
<1>1. CASE coord' = coord
  BY <1>1 DEF StartsAtZero
<1>2. CASE AnyCoordinatorStep
  BY <1>2 DEF AnyCoordinatorStep, CoordinatorNext, CoordinatorBoots, CoordinatorStarts,
              CoordinatorTakesChunk, CoordinatorDrops, CoordinatorRestarts,
              CoordinatorAggregates, CoordinatorAggregated, CoordinatorFinishes,
              CoordinatorNextRound, CoordinatorRollsBack, WaitsAgain, CoordinatorChats, Moves,
              StartsAtZero, TypeOK, CoordinatorTypeOK
<1> QED
  BY <1>1, <1>2 DEF OpenNext, coordinatorVars, CoordinatorGarbles

(* So it boots once, always.                                               *)
LEMMA StartsAtZeroCorrect == OpenSpec => []StartsAtZero
<1>1. Init => StartsAtZero
  BY DEF Init, CoordinatorInit, StartsAtZero
<1>2. TypeOK /\ StartsAtZero /\ [OpenNext]_coordinatorVars => StartsAtZero'
  BY StartsAtZeroStep
<1> QED
  BY <1>1, <1>2, OpenTypeCorrect, PTL DEF OpenSpec

(* Nobody else touches the pipe, and no message is taken off the bus.      *)
LEMMA SyncStep ==
    ASSUME TypeOK, TypeOK', BootedFirst, StartsAtZero, SyncInv, [OpenNext]_coordinatorVars
    PROVE  SyncInv'
<1>1. CASE ReadsALine /\ UNCHANGED coord
  <2>1. CASE reporting'
    <3>1. ReadAsForeseen
      BY <1>1, <2>1, ReadsAsForeseen DEF TypeOK
    <3> QED
      BY <1>1, <3>1, ReadKeepsSync DEF TypeOK
  <2>2. CASE ~ reporting'
    BY <2>2 DEF SyncInv
  <2> QED
    BY <2>1, <2>2
<1>2. CASE LogFileFails
  BY <1>2 DEF LogFileFails, ReporterFails, SyncInv
<1>3. CASE AnyCoordinatorStep \/ CoordinatorGarbles
  BY <1>3, CoordinatorKeepsSync
<1>4. ASSUME UNCHANGED <<coord, pipe, reporter, reporting>>, LogOnlyGrows
      PROVE  SyncInv'
  <2> SUFFICES ASSUME reporting PROVE SyncInv'
    BY <1>4 DEF SyncInv
  <2>1. PICK s : Foresees(s) /\ InSync(s[Len(pipe) + 1]) /\ NeverAhead(s) /\ SeesEveryDrop(s)
    BY DEF SyncInv
  <2>2. Foresees(s)' /\ InSync(s[Len(pipe) + 1])' /\ NeverAhead(s)'
    BY <1>4, <2>1 DEF Foresees, InSync, NeverAhead, CoordinatorBegan
  <2>3. \A x : Sent(x) => Sent(x)'
    BY <1>4, SentStays DEF TypeOK, ReporterTypeOK
  <2>4. SeesEveryDrop(s)'
    BY <1>4, <2>1, <2>3 DEF SeesEveryDrop, TimelyDrops
  <2> QED
    BY <2>2, <2>4 DEF SyncInv
<1>5. CASE \E reason \in ShutdownReasons : OthersBroadcast(reason) /\ UNCHANGED coord
  BY <1>4, <1>5 DEF OthersBroadcast, Broadcast, LogOnlyGrows
<1>6. CASE UNCHANGED coordinatorVars
  BY <1>4, <1>6 DEF coordinatorVars, LogOnlyGrows
<1> QED
  BY <1>1, <1>2, <1>3, <1>5, <1>6 DEF OpenNext

(* However far the reporter is behind, what it has yet to read takes it to *)
(* where the coordinator is, or when a round is over one step further; and *)
(* it will see every drop it has not told of that was made while a round    *)
(* waited or ran.                                                          *)
THEOREM SyncCorrect == OpenSpec => []SyncInv
<1>1. Init => SyncInv
  <2> SUFFICES ASSUME Init PROVE SyncInv
    OBVIOUS
  <2> DEFINE s == <<[phase |-> "ProcessStarted", round |-> 0]>>
  <2>1. Len(pipe) = 0 /\ reporter = s[1] /\ coord.phase = "starting" /\ coord.waits = 0
        /\ coord.dropped = {}
    BY DEF Init, ReporterInit, CoordinatorInit
  <2>2. s \in Seq(ReporterState) /\ Len(s) = 1
    BY DEF ReporterState, CoordinatorStates
  <2>3. InSync(s[1]) /\ NeverAhead(s)
    BY <2>1, Mirrors DEF InSync, NeverAhead, HasStarted
  <2> HIDE DEF s
  <2>4. Foresees(s) /\ SeesEveryDrop(s)
    BY <2>1, <2>2 DEF Foresees, SeesEveryDrop, TimelyDrops
  <2> QED
    BY <2>1, <2>3, <2>4 DEF SyncInv
<1>2. TypeOK /\ TypeOK' /\ OrderInv /\ StartsAtZero /\ SyncInv /\ [OpenNext]_coordinatorVars
          => SyncInv'
  BY SyncStep DEF OrderInv
<1>3. OpenSpec => []OrderInv
  BY OpenRefinesReporter, OrderCorrect, PTL
<1> QED
  BY <1>1, <1>2, <1>3, StartsAtZeroCorrect, OpenTypeCorrect, PTL DEF OpenSpec

(* With nothing left to read that is where it is.                          *)
LEMMA SyncShows == SyncInv => ReporterInSync /\ DropsReachTheBus
<1>1. SyncInv => ReporterInSync
  BY DEF SyncInv, ReporterInSync, CaughtUp, Foresees
<1>2. SyncInv => DropsReachTheBus
  <2> SUFFICES ASSUME SyncInv, CaughtUp, NEW p \in TimelyDrops
               PROVE  Sent(ParticipantDropped(p))
    BY DEF DropsReachTheBus, TimelyDrops
  <2>1. PICK s : SeesEveryDrop(s)
    BY DEF SyncInv, CaughtUp
  <2>2. Len(pipe) = 0
    BY DEF CaughtUp
  <2> QED
    BY <2>1, <2>2 DEF SeesEveryDrop
<1> QED
  BY <1>1, <1>2

(* A reporter that has read everything is in the phase the coordinator is   *)
(* in, or takes the next round to be waiting when a round is over, and has  *)
(* counted how often the coordinator waited: for every number of            *)
(* participants, rounds, roll-backs and chunks and every size of the pipe,  *)
(* whatever lines come in between.                                         *)
THEOREM ReporterInSyncCorrect == Spec => []ReporterInSync
BY BoundedIsOpen, SyncCorrect, SyncShows, PTL

(* And every drop the coordinator has made while a round waited or ran is   *)
(* on the bus.                                                             *)
THEOREM DropsReachTheBusCorrect == Spec => []DropsReachTheBus
BY BoundedIsOpen, SyncCorrect, SyncShows, PTL

--------------------------------------------------------------------------------
(* The r-th round is announced to have started when the coordinator has     *)
(* started a round for the r-th time.  That is its own round r until it     *)
(* rolls back, and then the number of the message is no longer its own: the *)
(* reporter does not read the one in "Advanced ceremony to round 1".       *)
AnnouncedInv ==
    \A k \in 1 .. Len(log) :
        IsRoundMessage(log[k]) /\ log[k].type # "RoundWaitingForParticipants"
            => CoordinatorBegan(log[k].round)

(* A message that, if it announces a stage of a round, is of one that the  *)
(* reporter, in this state, has taken to have started.                     *)
KnowsOf(state, m) ==
    IsRoundMessage(m) /\ m.type # "RoundWaitingForParticipants"
        => m.round \in Nat /\ HasStarted(state, m.round)

(* What the reporter announces it has taken to have started.               *)
LEMMA ReadsKnowing ==
    ASSUME ReporterTypeOK, ReadsALine
    PROVE  \/ log' = log
           \/ \E m : /\ log' = Append(log, m) /\ KnowsOf(reporter', m)
                     /\ reporting' \/ m.type = "Shutdown"
<1> USE DEF KnowsOf, HasStarted, IsRoundMessage, RoundMessageTypes
<1>1. reporter \in ReporterState /\ reporter.round \in Nat
  BY DEF ReporterTypeOK, ReporterState
<1>2. ASSUME NEW phase, NEW k, NEW message, NEW next,
             Announces(phase, k, message, next),
             next \notin {"ProcessStarted", "RoundWaitingForParticipants"}
      PROVE  /\ log' = Append(log, RoundMessage(message, reporter.round)) /\ reporting'
             /\ KnowsOf(reporter', RoundMessage(message, reporter.round))
  <2>1. reporter' = [phase |-> next, round |-> reporter.round]
    BY <1>1, <1>2 DEF Announces, ReporterState
  <2>2. RoundMessage(message, reporter.round).round = reporter.round
    BY DEF RoundMessage
  <2> QED
    BY <1>1, <1>2, <2>1, <2>2 DEF Announces, Reads, Broadcast
<1>3. CASE ReportStarted \/ ReportAggregation \/ ReportAggregated \/ ReportFinished
  BY <1>2, <1>3 DEF ReportStarted, ReportAggregation, ReportAggregated, ReportFinished
<1>4. CASE ReportBooted \/ ReportNextRound
  BY <1>4 DEF ReportBooted, ReportNextRound, AwaitsRound, Reads, Broadcast, RoundMessage
<1>5. CASE ReportDropped
  BY <1>5 DEF ReportDropped, Reads, Broadcast, ParticipantDropped
<1>6. CASE ReportContribution
  BY <1>6 DEF ReportContribution, Reads, Broadcast, SuccessfulContribution
<1>7. CASE ReportRestart \/ RejectLine
  BY <1>7 DEF ReportRestart, RejectLine, ReporterFails, Broadcast, Shutdown
<1>8. CASE IgnoreLine
  BY <1>8 DEF IgnoreLine
<1> QED
  BY <1>3, <1>4, <1>5, <1>6, <1>7, <1>8 DEF ReadsALine

(* It is in step, so that the coordinator has begun what it announces.     *)
LEMMA AnnouncedStep ==
    ASSUME TypeOK, TypeOK', BootedFirst, StartsAtZero, SyncInv, AnnouncedInv,
           [OpenNext]_coordinatorVars
    PROVE  AnnouncedInv'
<1>1. NoRoundBack
  <2>1. CASE AnyCoordinatorStep
    BY <2>1, CoordinatorEffects DEF TypeOK, AnyCoordinatorStep
  <2>2. CASE coord' = coord
    BY <2>2 DEF NoRoundBack, CoordinatorBegan
  <2> QED
    BY <2>1, <2>2 DEF OpenNext, coordinatorVars, CoordinatorGarbles
<1>2. \A k \in 1 .. Len(log) : \A m :
          /\ m = log[k] /\ IsRoundMessage(m) /\ m.type # "RoundWaitingForParticipants"
          => CoordinatorBegan(m.round)'
  <2> SUFFICES ASSUME NEW k \in 1 .. Len(log), NEW m, m = log[k], IsRoundMessage(m),
                      m.type # "RoundWaitingForParticipants"
               PROVE  CoordinatorBegan(m.round)'
    OBVIOUS
  <2>1. m \in CeremonyMessage
    BY DEF TypeOK, ReporterTypeOK
  <2>2. m \in [type : RoundMessageTypes, round : Nat]
    BY <2>1 DEF CeremonyMessage, IsRoundMessage, RoundMessageTypes
  <2>3. m.round \in Nat
    BY <2>2
  <2>4. CoordinatorBegan(m.round)
    BY DEF AnnouncedInv
  <2> QED
    BY <1>1, <2>3, <2>4 DEF NoRoundBack
<1>3. CASE log' = log
  BY <1>2, <1>3 DEF AnnouncedInv, CoordinatorBegan, IsRoundMessage
<1>4. ASSUME NEW m, log' = Append(log, m),
             IsRoundMessage(m) /\ m.type # "RoundWaitingForParticipants"
                 => CoordinatorBegan(m.round)'
      PROVE  AnnouncedInv'
  <2>1. /\ Len(log') = Len(log) + 1 /\ Len(log) \in Nat /\ log'[Len(log) + 1] = m
        /\ \A k \in 1 .. Len(log) : log'[k] = log[k]
    BY <1>4 DEF TypeOK, ReporterTypeOK
  <2> SUFFICES ASSUME NEW k \in 1 .. Len(log'), IsRoundMessage(log'[k]),
                      log'[k].type # "RoundWaitingForParticipants"
               PROVE  CoordinatorBegan(log[k].round)'
    BY DEF AnnouncedInv, IsRoundMessage
  <2>2. k \in 1 .. Len(log) \/ k = Len(log) + 1
    BY <2>1
  <2>3. PICK n : n = log'[k]
    OBVIOUS
  <2>4. CoordinatorBegan(n.round)'
    BY <1>2, <1>4, <2>1, <2>2, <2>3
  <2> QED
    BY <2>3, <2>4 DEF CoordinatorBegan
<1>5. CASE ReadsALine /\ UNCHANGED coord
  <2>1. ASSUME NEW m, log' = Append(log, m), KnowsOf(reporter', m), reporting'
        PROVE  AnnouncedInv'
    <3>1. ReadAsForeseen
      BY <1>5, <2>1, ReadsAsForeseen DEF TypeOK
    <3>2. PICK s : Foresees(s) /\ NeverAhead(s)
      BY <3>1 DEF SyncInv, ReadAsForeseen
    <3>3. Len(pipe) \in Nat \ {0} /\ Head(pipe) = pipe[1]
      BY <3>1 DEF ReadAsForeseen, TypeOK, ReporterTypeOK
    <3>4. s[2] = reporter'
      BY <3>1, <3>2, <3>3 DEF Foresees, ReadAsForeseen
    <3>5. \A r \in Nat : HasStarted(reporter', r) => CoordinatorBegan(r)
      BY <3>2, <3>3, <3>4 DEF NeverAhead
    <3>6. IsRoundMessage(m) /\ m.type # "RoundWaitingForParticipants"
              => CoordinatorBegan(m.round)'
      BY <1>1, <2>1, <3>5 DEF KnowsOf, NoRoundBack
    <3> QED
      BY <1>4, <2>1, <3>6
  <2>2. ASSUME NEW m, log' = Append(log, m), m.type = "Shutdown"
        PROVE  AnnouncedInv'
    BY <1>4, <2>2 DEF IsRoundMessage, RoundMessageTypes
  <2>3. \/ log' = log
        \/ \E m : /\ log' = Append(log, m) /\ KnowsOf(reporter', m)
                  /\ reporting' \/ m.type = "Shutdown"
    BY <1>5, ReadsKnowing DEF TypeOK
  <2>4. CASE log' = log
    BY <1>3, <2>4
  <2>5. CASE log' # log
    <3>1. PICK m : /\ log' = Append(log, m) /\ KnowsOf(reporter', m)
                   /\ reporting' \/ m.type = "Shutdown"
      BY <2>3, <2>5, Zenon
    <3>2. CASE reporting'
      BY <2>1, <3>1, <3>2
    <3>3. CASE m.type = "Shutdown"
      BY <2>2, <3>1, <3>3
    <3> QED
      BY <3>1, <3>2, <3>3, Zenon
  <2> QED
    BY <2>4, <2>5
<1>6. CASE \/ LogFileFails
           \/ \E reason \in ShutdownReasons : OthersBroadcast(reason)
  <2>1. PICK reason \in ShutdownReasons : log' = Append(log, Shutdown(reason))
    BY <1>6 DEF LogFileFails, ReporterFails, OthersBroadcast, Broadcast, ShutdownReasons
  <2>2. ~ IsRoundMessage(Shutdown(reason))
    BY DEF IsRoundMessage, RoundMessageTypes, Shutdown
  <2> QED
    BY <1>4, <2>1, <2>2
<1>7. CASE AnyCoordinatorStep \/ CoordinatorGarbles
  <2>1. log' = log
    BY <1>7 DEF AnyCoordinatorStep, CoordinatorNext, CoordinatorBoots, CoordinatorStarts,
                CoordinatorTakesChunk, CoordinatorDrops, CoordinatorRestarts,
                CoordinatorAggregates, CoordinatorAggregated, CoordinatorFinishes,
                CoordinatorNextRound, CoordinatorRollsBack, WaitsAgain, Moves,
                CoordinatorChats, CoordinatorGarbles, Says, WriteLine
  <2> QED
    BY <1>3, <2>1
<1> QED
  BY <1>3, <1>5, <1>6, <1>7 DEF OpenNext, coordinatorVars

(* No stage of an r-th round is announced before the coordinator has started *)
(* a round for the r-th time: the reporter counts the rounds for itself,    *)
(* and may take one to be waiting early, but none to have started.         *)
THEOREM AnnouncedCorrect == OpenSpec => []AnnouncedInv
<1>1. Init => AnnouncedInv
  BY DEF Init, CoordinatorInit, AnnouncedInv
<1>2. TypeOK /\ TypeOK' /\ OrderInv /\ StartsAtZero /\ SyncInv /\ AnnouncedInv
          /\ [OpenNext]_coordinatorVars => AnnouncedInv'
  BY AnnouncedStep DEF OrderInv
<1>3. OpenSpec => []OrderInv
  BY OpenRefinesReporter, OrderCorrect, PTL
<1> QED
  BY <1>1, <1>2, <1>3, StartsAtZeroCorrect, SyncCorrect, OpenTypeCorrect, PTL DEF OpenSpec
================================================================================
