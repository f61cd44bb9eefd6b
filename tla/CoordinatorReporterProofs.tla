----------------------- MODULE CoordinatorReporterProofs -----------------------
(***************************************************************************)
(* What the reader of the coordinator's output promises for every number    *)
(* of participants and whatever the coordinator writes (ReporterSpec): the *)
(* round messages are in order, and no stage of a round is left out.        *)
(*                                                                         *)
(* Neither is inductive: what is to come depends on the state of the       *)
(* reporter, which has to agree with the last round message.  Height is    *)
(* the rank that state stands for; no round message is above it, and while  *)
(* a round is on one is at it.                                             *)
(***************************************************************************)
EXTENDS CoordinatorReporter, TLAPS

StageOf(phase) == CASE phase = "ProcessStarted"              -> 4
                    [] phase = "RoundWaitingForParticipants" -> 0
                    [] phase = "RoundRunning"                -> 1
                    [] phase = "RoundAggregating"            -> 2
                    [] phase = "RoundWaitingForFinish"       -> 3
                    [] phase = "RoundFinished"               -> 4

ReporterState == [phase : CoordinatorStates, round : Nat]

Height(state) == 5 * state.round + StageOf(state.phase)

RoundOn(state) == state.phase \in CoordinatorStates \ {"ProcessStarted", "RoundFinished"}

(* On the messages s: none above h, one at h, and the two properties.      *)
NoneAbove(s, h) == \A k \in 1 .. Len(s) : IsRoundMessage(s[k]) => Rank(s[k]) <= h

OneAt(s, h) == \E k \in 1 .. Len(s) : IsRoundMessage(s[k]) /\ Rank(s[k]) = h

InOrder(s) == \A i, j \in 1 .. Len(s) :
                  i < j /\ IsRoundMessage(s[i]) /\ IsRoundMessage(s[j])
                      => Rank(s[i]) < Rank(s[j])

NoneSkipped(s) == \A j \in 1 .. Len(s) :
                      IsRoundMessage(s[j]) /\ Stage(s[j].type) > 0
                          => \E i \in 1 .. (j - 1) :
                                IsRoundMessage(s[i]) /\ Rank(s[i]) + 1 = Rank(s[j])

Ordered(s, state) == /\ NoneAbove(s, Height(state))
                     /\ RoundOn(state) => OneAt(s, Height(state))
                     /\ InOrder(s)
                     /\ NoneSkipped(s)

BootedFirst == reporter.phase = "ProcessStarted" => reporter.round = 0

OrderInv == ReporterTypeOK /\ BootedFirst /\ Ordered(log, reporter)

--------------------------------------------------------------------------------
(* Appending leaves the messages before where they are.                    *)
LEMMA Appending ==
    ASSUME NEW s \in Seq(CeremonyMessage), NEW m \in CeremonyMessage
    PROVE  /\ Append(s, m) \in Seq(CeremonyMessage)
           /\ Len(s) \in Nat
           /\ Len(Append(s, m)) = Len(s) + 1
           /\ Append(s, m)[Len(s) + 1] = m
           /\ \A k \in 1 .. Len(s) : Append(s, m)[k] = s[k] /\ s[k] \in CeremonyMessage
OBVIOUS

(* A round message has a round, a stage and a rank.                        *)
LEMMA RoundMessageRank ==
    ASSUME NEW m \in CeremonyMessage, IsRoundMessage(m)
    PROVE  m.round \in Nat /\ Stage(m.type) \in 0 .. 4 /\ Rank(m) \in Nat
<1>1. m.round \in Nat /\ m.type \in RoundMessageTypes
  BY DEF CeremonyMessage, IsRoundMessage, RoundMessageTypes
<1>2. Stage(m.type) \in 0 .. 4
  BY <1>1 DEF Stage, RoundMessageTypes
<1> QED
  BY <1>1, <1>2 DEF Rank

(* The state of the reporter stands for a rank.                            *)
LEMMA HeightNat ==
    ASSUME NEW state \in ReporterState
    PROVE  Height(state) \in Nat
<1>1. StageOf(state.phase) \in 0 .. 4
  BY DEF StageOf, CoordinatorStates, ReporterState
<1> QED
  BY <1>1 DEF Height, ReporterState

(* The messages the threads make are messages.                             *)
LEMMA MessagesTyped ==
    /\ \A t \in RoundMessageTypes, r \in Nat : RoundMessage(t, r) \in CeremonyMessage
    /\ \A p \in Participants : ParticipantDropped(p) \in CeremonyMessage
    /\ \A c \in Contributors : SuccessfulContribution(c) \in CeremonyMessage
    /\ \A reason \in ShutdownReasons : Shutdown(reason) \in CeremonyMessage
BY DEF CeremonyMessage, RoundMessage, ParticipantDropped, SuccessfulContribution, Shutdown

(* Only round messages are round messages, and their rank is as expected.  *)
LEMMA RoundMessagesOnly ==
    /\ \A t \in RoundMessageTypes, r \in Nat :
          /\ IsRoundMessage(RoundMessage(t, r))
          /\ RoundMessage(t, r).type = t
          /\ Rank(RoundMessage(t, r)) = 5 * r + Stage(t)
    /\ \A p : ~ IsRoundMessage(ParticipantDropped(p))
    /\ \A c : ~ IsRoundMessage(SuccessfulContribution(c))
    /\ \A reason : ~ IsRoundMessage(Shutdown(reason))
BY DEF IsRoundMessage, RoundMessage, ParticipantDropped, SuccessfulContribution,
       Shutdown, RoundMessageTypes, Rank

(* The stages of the messages and of the states, as equations.             *)
LEMMA Stages ==
    /\ Stage("RoundWaitingForParticipants") = 0
    /\ Stage("RoundStarted") = 1
    /\ Stage("RoundStartedAggregation") = 2
    /\ Stage("RoundAggregated") = 3
    /\ Stage("RoundFinished") = 4
    /\ StageOf("ProcessStarted") = 4
    /\ StageOf("RoundWaitingForParticipants") = 0
    /\ StageOf("RoundRunning") = 1
    /\ StageOf("RoundAggregating") = 2
    /\ StageOf("RoundWaitingForFinish") = 3
    /\ StageOf("RoundFinished") = 4
BY DEF Stage, StageOf

--------------------------------------------------------------------------------
(* The two ways in which a step changes the messages.                      *)

(* A message that is not a round message disturbs nothing, as long as the   *)
(* height does not sink, and stays where it is in a round that is on.       *)
LEMMA OtherMessageKeepsOrder ==
    ASSUME NEW s \in Seq(CeremonyMessage), NEW m \in CeremonyMessage,
           NEW old \in ReporterState, NEW new \in ReporterState,
           Ordered(s, old),
           ~ IsRoundMessage(m),
           Height(new) >= Height(old),
           RoundOn(new) => RoundOn(old) /\ Height(new) = Height(old)
    PROVE  Ordered(Append(s, m), new)
<1> DEFINE t == Append(s, m)
<1>1. /\ Len(s) \in Nat
      /\ Len(t) = Len(s) + 1
      /\ \A k \in 1 .. Len(s) : t[k] = s[k] /\ s[k] \in CeremonyMessage
      /\ t[Len(s) + 1] = m
  BY Appending
<1> HIDE DEF t
<1>2. \A k \in 1 .. Len(t) : IsRoundMessage(t[k]) => k \in 1 .. Len(s) /\ t[k] = s[k]
  BY <1>1
<1>3. NoneAbove(t, Height(new))
  <2>1. \A k \in 1 .. Len(s) : IsRoundMessage(s[k]) => Rank(s[k]) \in Nat
    BY <1>1, RoundMessageRank
  <2>2. Height(old) \in Nat /\ Height(new) \in Nat
    BY HeightNat
  <2> QED
    BY <1>2, <2>1, <2>2 DEF Ordered, NoneAbove
<1>4. RoundOn(new) => OneAt(t, Height(new))
  BY <1>1 DEF Ordered, OneAt
<1>5. InOrder(t)
  BY <1>2 DEF Ordered, InOrder
<1>6. NoneSkipped(t)
  <2> SUFFICES ASSUME NEW j \in 1 .. Len(t), IsRoundMessage(t[j]), Stage(t[j].type) > 0
               PROVE  \E i \in 1 .. (j - 1) : IsRoundMessage(t[i]) /\ Rank(t[i]) + 1 = Rank(t[j])
    BY DEF NoneSkipped
  <2>1. j \in 1 .. Len(s) /\ t[j] = s[j]
    BY <1>2
  <2>2. PICK i \in 1 .. (j - 1) : IsRoundMessage(s[i]) /\ Rank(s[i]) + 1 = Rank(s[j])
    BY <2>1 DEF Ordered, NoneSkipped
  <2>3. t[i] = s[i]
    BY <1>1, <2>1, <2>2
  <2> QED
    BY <2>1, <2>2, <2>3
<1> QED
  BY <1>3, <1>4, <1>5, <1>6 DEF Ordered, t

(* A round message higher than the state before, to which the height        *)
(* rises, keeps the order, if it opens a round or comes one above the        *)
(* height of a round that is on.                                           *)
LEMMA RoundMessageKeepsOrder ==
    ASSUME NEW s \in Seq(CeremonyMessage), NEW m \in CeremonyMessage,
           NEW old \in ReporterState, NEW new \in ReporterState,
           Ordered(s, old),
           IsRoundMessage(m),
           Rank(m) > Height(old),
           Rank(m) = Height(new),
           Stage(m.type) > 0 => RoundOn(old) /\ Height(old) + 1 = Rank(m)
    PROVE  Ordered(Append(s, m), new)
<1> DEFINE t == Append(s, m)
<1>1. /\ Len(s) \in Nat
      /\ Len(t) = Len(s) + 1
      /\ \A k \in 1 .. Len(s) : t[k] = s[k] /\ s[k] \in CeremonyMessage
      /\ t[Len(s) + 1] = m
  BY Appending
<1> HIDE DEF t
<1>2. \A k \in 1 .. Len(t) : \/ k \in 1 .. Len(s) /\ t[k] = s[k]
                             \/ k = Len(s) + 1 /\ t[k] = m
  BY <1>1
<1>3. \A k \in 1 .. Len(s) : IsRoundMessage(s[k]) => Rank(s[k]) \in Nat
  BY <1>1, RoundMessageRank
<1>4. Height(old) \in Nat /\ Height(new) \in Nat /\ Rank(m) \in Nat
  BY HeightNat, RoundMessageRank
<1>5. \A k \in 1 .. Len(s) : IsRoundMessage(s[k]) => Rank(s[k]) < Rank(m)
  BY <1>3, <1>4 DEF Ordered, NoneAbove
<1>6. NoneAbove(t, Height(new))
  BY <1>2, <1>3, <1>4, <1>5 DEF NoneAbove
<1>7. OneAt(t, Height(new))
  BY <1>1 DEF OneAt
<1>8. InOrder(t)
  <2> SUFFICES ASSUME NEW i \in 1 .. Len(t), NEW j \in 1 .. Len(t),
                      i < j, IsRoundMessage(t[i]), IsRoundMessage(t[j])
               PROVE  Rank(t[i]) < Rank(t[j])
    BY DEF InOrder
  <2>1. i \in 1 .. Len(s) /\ t[i] = s[i]
    BY <1>1
  <2>2. CASE j \in 1 .. Len(s)
    BY <1>1, <2>1, <2>2 DEF Ordered, InOrder
  <2>3. CASE j = Len(s) + 1
    BY <1>1, <1>5, <2>1, <2>3
  <2> QED
    BY <1>1, <2>2, <2>3
<1>9. NoneSkipped(t)
  <2> SUFFICES ASSUME NEW j \in 1 .. Len(t), IsRoundMessage(t[j]), Stage(t[j].type) > 0
               PROVE  \E i \in 1 .. (j - 1) : IsRoundMessage(t[i]) /\ Rank(t[i]) + 1 = Rank(t[j])
    BY DEF NoneSkipped
  <2>1. CASE j \in 1 .. Len(s)
    <3>1. t[j] = s[j]
      BY <1>1, <2>1
    <3>2. PICK i \in 1 .. (j - 1) : IsRoundMessage(s[i]) /\ Rank(s[i]) + 1 = Rank(s[j])
      BY <2>1, <3>1 DEF Ordered, NoneSkipped
    <3>3. t[i] = s[i]
      BY <1>1, <2>1, <3>2
    <3> QED
      BY <3>1, <3>2, <3>3
  <2>2. CASE j = Len(s) + 1
    <3>1. t[j] = m
      BY <1>1, <2>2
    <3>2. OneAt(s, Height(old)) /\ Height(old) + 1 = Rank(m)
      BY <3>1 DEF Ordered
    <3>3. PICK i \in 1 .. Len(s) : IsRoundMessage(s[i]) /\ Rank(s[i]) = Height(old)
      BY <3>2 DEF OneAt
    <3>4. i \in 1 .. (j - 1) /\ t[i] = s[i]
      BY <1>1, <2>2, <3>3
    <3> QED
      BY <3>1, <3>2, <3>3, <3>4
  <2> QED
    BY <1>1, <2>1, <2>2
<1> QED
  BY <1>6, <1>7, <1>8, <1>9 DEF Ordered, t

--------------------------------------------------------------------------------
(* Types.                                                                  *)

(* A broadcast message keeps the log a sequence of messages.               *)
LEMMA BroadcastTyped ==
    ASSUME log \in Seq(CeremonyMessage), NEW m \in CeremonyMessage, Broadcast(m)
    PROVE  log' \in Seq(CeremonyMessage)
BY DEF Broadcast

(* A line that is read was a line, and leaves lines.                       *)
LEMMA ReadsTyped ==
    ASSUME ReporterTypeOK, NEW k, Reads(k)
    PROVE  Head(pipe) \in Line /\ pipe' \in Seq(Line) /\ reporting' \in BOOLEAN
BY DEF ReporterTypeOK, Reads

LEMMA AnnouncesTyped ==
    ASSUME ReporterTypeOK, NEW phase, NEW k,
           NEW message \in RoundMessageTypes, NEW next \in CoordinatorStates,
           Announces(phase, k, message, next)
    PROVE  ReporterTypeOK'
<1>1. RoundMessage(message, reporter.round) \in CeremonyMessage
  BY MessagesTyped DEF ReporterTypeOK
<1>2. log' \in Seq(CeremonyMessage)
  BY <1>1, BroadcastTyped DEF ReporterTypeOK, Announces
<1>3. pipe' \in Seq(Line) /\ reporting' \in BOOLEAN
  BY ReadsTyped DEF Announces
<1>4. reporter' \in [phase : CoordinatorStates, round : Nat]
  BY DEF ReporterTypeOK, Announces
<1> QED
  BY <1>2, <1>3, <1>4 DEF ReporterTypeOK

LEMMA AwaitsRoundTyped ==
    ASSUME ReporterTypeOK, NEW k, Reads(k), NEW r \in Nat, AwaitsRound(r)
    PROVE  ReporterTypeOK'
<1>1. RoundMessage("RoundWaitingForParticipants", r) \in CeremonyMessage
  BY MessagesTyped DEF RoundMessageTypes
<1>2. log' \in Seq(CeremonyMessage)
  BY <1>1, BroadcastTyped DEF ReporterTypeOK, AwaitsRound
<1>3. reporter' \in [phase : CoordinatorStates, round : Nat]
  BY DEF AwaitsRound, CoordinatorStates
<1> QED
  BY <1>2, <1>3, ReadsTyped DEF ReporterTypeOK

(* One step for each action.                                               *)
LEMMA ReporterTypeStep ==
    ASSUME ReporterTypeOK, ReporterNext
    PROVE  ReporterTypeOK'
<1> USE DEF RoundMessageTypes, CoordinatorStates
<1>1. CASE ReportBooted
  BY <1>1, AwaitsRoundTyped DEF ReportBooted
<1>2. CASE ReportStarted
  BY <1>2, AnnouncesTyped DEF ReportStarted
<1>3. CASE ReportAggregation
  BY <1>3, AnnouncesTyped DEF ReportAggregation
<1>4. CASE ReportAggregated
  BY <1>4, AnnouncesTyped DEF ReportAggregated
<1>5. CASE ReportFinished
  BY <1>5, AnnouncesTyped DEF ReportFinished
<1>6. CASE ReportNextRound
  <2>1. reporter.round + 1 \in Nat
    BY DEF ReporterTypeOK
  <2> QED
    BY <1>6, <2>1, AwaitsRoundTyped DEF ReportNextRound
<1>7. CASE ReportDropped
  <2>1. log' \in Seq(CeremonyMessage)
    BY <1>7, MessagesTyped, BroadcastTyped DEF ReportDropped, ReporterTypeOK
  <2> QED
    BY <1>7, <2>1, ReadsTyped DEF ReportDropped, ReporterTypeOK
<1>8. CASE ReportContribution
  <2>1. log' \in Seq(CeremonyMessage)
    BY <1>8, MessagesTyped, BroadcastTyped DEF ReportContribution, ReporterTypeOK
  <2> QED
    BY <1>8, <2>1, ReadsTyped DEF ReportContribution, ReporterTypeOK
<1>9. CASE ReportRestart
  <2>1. log' \in Seq(CeremonyMessage)
    BY <1>9, MessagesTyped, BroadcastTyped DEF ReportRestart, ReporterTypeOK, ShutdownReasons
  <2>2. reporter' \in [phase : CoordinatorStates, round : Nat]
    BY <1>9 DEF ReportRestart, ReporterTypeOK
  <2> QED
    BY <1>9, <2>1, <2>2, ReadsTyped DEF ReportRestart, ReporterTypeOK
<1>10. CASE IgnoreLine
  BY <1>10, ReadsTyped DEF IgnoreLine, ReporterTypeOK
<1>11. ASSUME ReporterFails PROVE log' \in Seq(CeremonyMessage)
  BY <1>11, MessagesTyped, BroadcastTyped DEF ReporterFails, ReporterTypeOK, ShutdownReasons
<1>12. CASE RejectLine
  <2>1. pipe' \in Seq(Line)
    BY <1>12 DEF RejectLine, ReporterTypeOK
  <2> QED
    BY <1>11, <1>12, <2>1 DEF RejectLine, ReporterFails, ReporterTypeOK
<1>13. CASE LogFileFails
  BY <1>11, <1>13 DEF LogFileFails, ReporterFails, ReporterTypeOK
<1>14. CASE \E line \in Line : WriteLine(line)
  BY <1>14 DEF WriteLine, ReporterTypeOK
<1>15. CASE \E reason \in ShutdownReasons : OthersBroadcast(reason)
  <2>1. log' \in Seq(CeremonyMessage)
    BY <1>15, MessagesTyped, BroadcastTyped DEF OthersBroadcast, ReporterTypeOK
  <2> QED
    BY <1>15, <2>1 DEF OthersBroadcast, ReporterTypeOK
<1> QED
  BY <1>1, <1>2, <1>3, <1>4, <1>5, <1>6, <1>7, <1>8, <1>9, <1>10, <1>12, <1>13, <1>14, <1>15
     DEF ReporterNext, ReadsALine

(* Whatever the coordinator writes, the reporter is in one of its states    *)
(* and broadcasts messages.                                                *)
THEOREM ReporterTypeCorrect == ReporterSpec => []ReporterTypeOK
<1>1. log = <<>> /\ ReporterInit => ReporterTypeOK
  BY DEF ReporterInit, ReporterTypeOK, CoordinatorStates
<1>2. ReporterTypeOK /\ [ReporterNext]_reporterVars => ReporterTypeOK'
  <2>1. ASSUME ReporterTypeOK, UNCHANGED reporterVars PROVE ReporterTypeOK'
    BY <2>1 DEF reporterVars, ReporterTypeOK
  <2> QED
    BY <2>1, ReporterTypeStep
<1> QED
  BY <1>1, <1>2, PTL DEF ReporterSpec

--------------------------------------------------------------------------------
(* Order.                                                                  *)

(* Announces moves the reporter one stage up.                              *)
LEMMA AnnouncesKeepsOrder ==
    ASSUME OrderInv, ReporterTypeOK', NEW phase, NEW k,
           NEW message \in RoundMessageTypes, NEW next \in CoordinatorStates,
           Announces(phase, k, message, next),
           phase \in CoordinatorStates \ {"ProcessStarted", "RoundFinished"},
           StageOf(phase) \in 0 .. 3,
           Stage(message) = StageOf(phase) + 1,
           StageOf(next) = Stage(message)
    PROVE  Ordered(log, reporter)'
<1> DEFINE m == RoundMessage(message, reporter.round)
<1>1. log \in Seq(CeremonyMessage) /\ reporter \in ReporterState /\ reporter' \in ReporterState
  BY DEF OrderInv, ReporterTypeOK, ReporterState
<1>2. reporter.round \in Nat /\ m \in CeremonyMessage
  BY <1>1, MessagesTyped DEF ReporterState
<1>3. IsRoundMessage(m) /\ m.type = message /\ Rank(m) = 5 * reporter.round + Stage(message)
  BY <1>2, RoundMessagesOnly
<1>4. /\ reporter.phase = phase
      /\ reporter'.phase = next /\ reporter'.round = reporter.round
      /\ log' = Append(log, m)
  BY <1>1 DEF Announces, Broadcast, ReporterState
<1> HIDE DEF m
<1>5. Rank(m) = Height(reporter) + 1 /\ Rank(m) > Height(reporter)
  BY <1>2, <1>3, <1>4 DEF Height
<1>6. Rank(m) = Height(reporter')
  BY <1>3, <1>4 DEF Height
<1>7. RoundOn(reporter)
  BY <1>4 DEF RoundOn
<1>8. Ordered(Append(log, m), reporter')
  BY <1>1, <1>2, <1>3, <1>5, <1>6, <1>7, RoundMessageKeepsOrder DEF OrderInv
<1> QED
  BY <1>4, <1>8

(* AwaitsRound opens the next round, from a state that is above all of the  *)
(* round before.                                                           *)
LEMMA AwaitsRoundKeepsOrder ==
    ASSUME OrderInv, ReporterTypeOK', NEW r \in Nat, AwaitsRound(r),
           5 * r > Height(reporter)
    PROVE  Ordered(log, reporter)'
<1> DEFINE m == RoundMessage("RoundWaitingForParticipants", r)
<1>1. log \in Seq(CeremonyMessage) /\ reporter \in ReporterState /\ reporter' \in ReporterState
  BY DEF OrderInv, ReporterTypeOK, ReporterState
<1>2. m \in CeremonyMessage
  BY MessagesTyped DEF RoundMessageTypes
<1>3. IsRoundMessage(m) /\ Stage(m.type) = 0 /\ Rank(m) = 5 * r
  <2>1. "RoundWaitingForParticipants" \in RoundMessageTypes
    BY DEF RoundMessageTypes
  <2>2. IsRoundMessage(m) /\ m.type = "RoundWaitingForParticipants"
    BY <2>1, RoundMessagesOnly
  <2>3. Rank(m) = 5 * r + Stage("RoundWaitingForParticipants")
    BY <2>1, RoundMessagesOnly
  <2> QED
    BY <2>2, <2>3, Stages
<1>4. /\ reporter'.phase = "RoundWaitingForParticipants" /\ reporter'.round = r
      /\ log' = Append(log, m)
  BY DEF AwaitsRound, Broadcast
<1> HIDE DEF m
<1>5. Rank(m) = Height(reporter')
  BY <1>3, <1>4, Stages DEF Height
<1>6. Ordered(Append(log, m), reporter')
  BY <1>1, <1>2, <1>3, <1>5, RoundMessageKeepsOrder DEF OrderInv
<1> QED
  BY <1>4, <1>6

(* Any other message leaves the reporter as it is.                         *)
LEMMA OtherBroadcastKeepsOrder ==
    ASSUME OrderInv, ReporterTypeOK', NEW m \in CeremonyMessage, Broadcast(m),
           ~ IsRoundMessage(m), UNCHANGED reporter
    PROVE  Ordered(log, reporter)'
<1>1. log \in Seq(CeremonyMessage) /\ reporter \in ReporterState
  BY DEF OrderInv, ReporterTypeOK, ReporterState
<1>2. Height(reporter) >= Height(reporter)
  BY <1>1, HeightNat
<1>3. Ordered(Append(log, m), reporter)
  BY <1>1, <1>2, OtherMessageKeepsOrder DEF OrderInv
<1> QED
  BY <1>3 DEF Broadcast

LEMMA OrderStep ==
    ASSUME OrderInv, ReporterNext
    PROVE  OrderInv'
<1>0. ReporterTypeOK'
  BY ReporterTypeStep DEF OrderInv
<1>1. reporter \in ReporterState /\ reporter.round \in Nat
  BY DEF OrderInv, ReporterTypeOK, ReporterState
<1>a. BootedFirst'
  BY <1>1 DEF OrderInv, BootedFirst, ReporterNext, ReadsALine, ReporterState,
        ReportBooted, ReportStarted, ReportAggregation, ReportAggregated, ReportFinished,
        Announces, ReportNextRound, AwaitsRound, ReportDropped, ReportContribution,
        ReportRestart, IgnoreLine, RejectLine, LogFileFails, ReporterFails, WriteLine,
        OthersBroadcast
<1> SUFFICES Ordered(log, reporter)'
  BY <1>0, <1>a DEF OrderInv
<1> USE DEF RoundMessageTypes, CoordinatorStates
<1>2. CASE ReportBooted
  <2>1. 5 * 1 > Height(reporter)
    BY <1>2, Stages DEF ReportBooted, Height, OrderInv, BootedFirst
  <2> QED
    BY <1>0, <1>2, <2>1, AwaitsRoundKeepsOrder DEF ReportBooted
<1>3. CASE ReportStarted
  BY <1>0, <1>3, Stages, AnnouncesKeepsOrder DEF ReportStarted
<1>4. CASE ReportAggregation
  BY <1>0, <1>4, Stages, AnnouncesKeepsOrder DEF ReportAggregation
<1>5. CASE ReportAggregated
  BY <1>0, <1>5, Stages, AnnouncesKeepsOrder DEF ReportAggregated
<1>6. CASE ReportFinished
  BY <1>0, <1>6, Stages, AnnouncesKeepsOrder DEF ReportFinished
<1>7. CASE ReportNextRound
  <2>1. reporter.round + 1 \in Nat /\ 5 * (reporter.round + 1) > Height(reporter)
    BY <1>1, <1>7, Stages DEF ReportNextRound, Height
  <2> QED
    BY <1>0, <1>7, <2>1, AwaitsRoundKeepsOrder DEF ReportNextRound
<1>8. CASE ReportDropped
  BY <1>0, <1>8, MessagesTyped, RoundMessagesOnly, OtherBroadcastKeepsOrder DEF ReportDropped
<1>9. CASE ReportContribution
  BY <1>0, <1>9, MessagesTyped, RoundMessagesOnly, OtherBroadcastKeepsOrder
     DEF ReportContribution
<1>10. CASE ReportRestart
  <2>1. Shutdown("TestFinished") \in CeremonyMessage /\ ~ IsRoundMessage(Shutdown("TestFinished"))
    BY MessagesTyped, RoundMessagesOnly DEF ShutdownReasons
  <2>2. log \in Seq(CeremonyMessage) /\ reporter' \in ReporterState
    BY <1>0 DEF OrderInv, ReporterTypeOK, ReporterState
  <2>3. /\ reporter.phase = "RoundRunning"
        /\ reporter'.phase = "RoundFinished" /\ reporter'.round = reporter.round
        /\ log' = Append(log, Shutdown("TestFinished"))
    BY <1>1, <1>10 DEF ReportRestart, ReporterState, Broadcast
  <2>4. Height(reporter') >= Height(reporter) /\ ~ RoundOn(reporter')
    BY <1>1, <2>3, Stages DEF Height, RoundOn
  <2>5. Ordered(Append(log, Shutdown("TestFinished")), reporter')
    BY <1>1, <2>1, <2>2, <2>4, OtherMessageKeepsOrder DEF OrderInv
  <2> QED
    BY <2>3, <2>5
<1>11. CASE IgnoreLine
  BY <1>11 DEF IgnoreLine, OrderInv
<1>12. CASE RejectLine \/ LogFileFails
  <2>1. ReporterFails
    BY <1>12 DEF RejectLine, LogFileFails
  <2> QED
    BY <1>0, <2>1, MessagesTyped, RoundMessagesOnly, OtherBroadcastKeepsOrder
       DEF ReporterFails, ShutdownReasons
<1>13. CASE \E line \in Line : WriteLine(line)
  BY <1>13 DEF WriteLine, OrderInv
<1>14. CASE \E reason \in ShutdownReasons : OthersBroadcast(reason)
  BY <1>0, <1>14, MessagesTyped, RoundMessagesOnly, OtherBroadcastKeepsOrder
     DEF OthersBroadcast
<1> QED
  BY <1>2, <1>3, <1>4, <1>5, <1>6, <1>7, <1>8, <1>9, <1>10, <1>11, <1>12, <1>13, <1>14
     DEF ReporterNext, ReadsALine

(* OrderInv holds throughout: no round message is above the rank the state   *)
(* of the reporter stands for, and while a round is on one is at it.        *)
THEOREM OrderCorrect == ReporterSpec => []OrderInv
<1>1. log = <<>> /\ ReporterInit => OrderInv
  <2> SUFFICES ASSUME log = <<>>, ReporterInit PROVE OrderInv
    OBVIOUS
  <2>1. ReporterTypeOK /\ BootedFirst
    BY DEF ReporterInit, ReporterTypeOK, CoordinatorStates, BootedFirst
  <2>2. Len(log) = 0 /\ ~ RoundOn(reporter)
    BY DEF ReporterInit, RoundOn
  <2>3. Ordered(log, reporter)
    BY <2>2 DEF Ordered, NoneAbove, InOrder, NoneSkipped
  <2> QED
    BY <2>1, <2>3 DEF OrderInv
<1>2. OrderInv /\ [ReporterNext]_reporterVars => OrderInv'
  <2>1. ASSUME OrderInv, UNCHANGED reporterVars PROVE OrderInv'
    BY <2>1 DEF reporterVars, OrderInv, ReporterTypeOK, BootedFirst
  <2> QED
    BY <2>1, OrderStep
<1> QED
  BY <1>1, <1>2, PTL DEF ReporterSpec

(* However the coordinator's output goes on, rolled-back rounds included,   *)
(* the round messages are in order and none is sent twice.                 *)
THEOREM RoundMessagesInOrderCorrect == ReporterSpec => []RoundMessagesInOrder
<1>1. OrderInv => RoundMessagesInOrder
  BY DEF OrderInv, Ordered, InOrder, RoundMessagesInOrder
<1> QED
  BY <1>1, OrderCorrect, PTL

(* And every stage of a round has the one before it behind it.             *)
THEOREM NoStageSkippedCorrect == ReporterSpec => []NoStageSkipped
<1>1. OrderInv => NoStageSkipped
  BY DEF OrderInv, Ordered, NoneSkipped, NoStageSkipped
<1> QED
  BY <1>1, OrderCorrect, PTL
================================================================================
