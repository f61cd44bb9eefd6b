------------------------- MODULE IntegrationTestProofs -------------------------
(***************************************************************************)
(* Proofs about a whole test, for any number of processes, rounds, drops,  *)
(* chunks and faults.                                                      *)
(*                                                                         *)
(* Effects says what a step can do, whoever takes it, and is proved once   *)
(* (StepEffects), thread by thread.  On it rest the inductive invariants,  *)
(* one to a concern:                                                       *)
(*   MainInv    the main thread goes along the edges of its code, with a   *)
(*              list of processes that goes with the point it is at;       *)
(*   JoinedInv  what it has joined is over, with all its threads;          *)
(*   ErrorInv   an error that was announced is still to be found by it;    *)
(*   FaultInv   nothing fails unless something goes wrong by itself;       *)
(*   DropsInv   a drop taken off the list of the drop monitor did occur;   *)
(*   FinishInv  a round is left when it is finished, or shut down;         *)
(*   FutureInv  nobody starts before the round it belongs to;              *)
(*   RosterInv  the coordinator starts no more rounds than the main thread, *)
(*              or else the check of the participants finds out;           *)
(*   TimelyInv  the receivers of a round are older than its messages.      *)
(* The coordinator and its reporter in a test are those of SetupCoordinator *)
(* in company that may say Shutdown at any time (OpenRun), and what is     *)
(* proved there holds here.                                                *)
(* The properties of a test that returns Ok, and that a test keeps its     *)
(* promise to Specification::run, follow from these.                       *)
(***************************************************************************)
EXTENDS IntegrationTest, FiniteSetTheorems, WellFoundedInduction, TLAPS

(* The processes of a test.                                                *)
AllProcesses == Processes!Processes

(* The points of the main thread before the first round, in a round, and   *)
(* after the last one.                                                     *)
BeforeRounds == {"begin", "services", "ready", "helpers"}

InRound == {"contributors", "waiters", "await_start", "await_end",
            "join_contributors", "join_later", "join_waiter"}

AfterRounds == {"join_processes", "join_limit", "ok"}

(* The points at which no drop monitor runs.                               *)
NothingPending == {"begin", "services", "ready", "helpers", "round"} \cup AfterRounds

(* The points at which round_errors may hold something.                    *)
ErrorsKept == {"await_end", "join_contributors", "join_later", "join_waiter",
               "error", "panicked"}

(* The processes the main thread may have yet to start or to join at a point. *)
TodoAt(pc, r) ==
    IF pc = "services" THEN ToSet(StateMonitors)
    ELSE IF pc = "helpers" THEN ToSet(Helpers)
    ELSE IF pc \in {"contributors", "join_contributors"} THEN ToSet(Starting[r])
    ELSE IF pc \in {"join_later", "join_waiter"} THEN ToSet(Joining[r])
    ELSE IF pc = "join_processes" THEN ToSet(Started)
    ELSE AllProcesses

(* The round and the list that go with a point.                            *)
MainShape(pc, r, todo) ==
    /\ pc \in BeforeRounds => r = 0
    /\ pc \in InRound => r > 0
    /\ pc \in AfterRounds => r = Rounds
    /\ pc \in StartingPoints \cup JoiningPoints \cup {"join_waiter"} => todo # <<>>
    /\ ToSet(todo) \subseteq TodoAt(pc, r)

(* The state of the main thread is one its code can be in.                 *)
MainInv ==
    /\ main \in [pc : MainPoints, round : 0 .. Rounds, todo : Seq(AllProcesses),
                 rx : Nat, errors : BOOLEAN]
    /\ MainShape(main.pc, main.round, main.todo)

(* The points the main thread goes between.                                *)
Edges ==
    {<<"begin", "services">>, <<"begin", "ready">>, <<"services", "services">>,
     <<"services", "ready">>, <<"ready", "helpers">>, <<"ready", "round">>,
     <<"helpers", "helpers">>, <<"helpers", "round">>, <<"round", "contributors">>,
     <<"round", "waiters">>, <<"contributors", "contributors">>, <<"contributors", "waiters">>,
     <<"waiters", "await_start">>, <<"await_start", "await_end">>,
     <<"await_end", "join_contributors">>, <<"await_end", "join_later">>,
     <<"join_contributors", "join_contributors">>, <<"join_contributors", "join_later">>,
     <<"join_later", "join_waiter">>, <<"join_waiter", "join_later">>, <<"join_later", "round">>,
     <<"round", "join_processes">>, <<"join_processes", "join_processes">>,
     <<"join_processes", "join_limit">>, <<"join_limit", "ok">>}

(* A step of the main thread is along an edge, or to the end of the test by *)
(* an error; only the begin of a round, the check of its participants and  *)
(* the shutdown change more than the point and the list.                   *)
MainMoves ==
    /\ MainInv'
    /\ <<main.pc, main'.pc>> \in Edges \/ main'.pc \in {"error", "panicked"}
    /\ main'.round = main.round \/ (RoundBegins /\ main'.round = main.round + 1)
    /\ main'.pc \in {"contributors", "waiters"} /\ At("round") => RoundBegins
    /\ main'.errors = main.errors \/ (RoundStartsWithout /\ main'.errors)
    /\ main'.rx \in 0 .. Len(log)

(* A process that has ended, and of which no thread is left or has failed. *)
JoinedWell(p) == /\ Processes!Ended(p)
                 /\ messages[p] = "closed" /\ monitor[p] = "reading"
                 /\ p \in Contributors => ceremony[p] = "closed"

(* The points at which the contributors of the round have been joined.     *)
ContributorsJoined == {"join_later", "join_waiter", "round"} \cup AfterRounds

(* The contributors of round r have been joined.                           *)
RoundJoined(r) == r < main.round \/ (r = main.round /\ main.pc \in ContributorsJoined)

(* What has been joined without an error is over, and the rest is on the   *)
(* list.                                                                   *)
JoinedInv ==
    /\ \A r \in 1 .. Rounds : RoundJoined(r) => \A c \in ToSet(Starting[r]) : JoinedWell(c)
    /\ At("join_contributors") =>
           \A c \in ToSet(Starting[main.round]) : c \in ToSet(main.todo) \/ JoinedWell(c)
    /\ At("join_processes") =>
           \A p \in ToSet(Started) : p \in ToSet(main.todo) \/ JoinedWell(p)
    /\ main.pc \in {"join_limit", "ok"} => \A p \in ToSet(Started) : JoinedWell(p)

(* A thread of a process has panicked.                                     *)
Panicked == \E p \in AllProcesses :
    child[p] # "none" /\ (messages[p] = "panicked" \/ monitor[p] = "panicked")

(* Whoever announced an error has kept it for whoever joins him; and the   *)
(* main thread goes from one round to the next with none.                  *)
ErrorInv ==
    /\ Sent(Shutdown("Error")) =>
           Panicked \/ timeLimit = "expired" \/ main.errors \/ drops.status = "failed"
    /\ main.errors => main.pc \in ErrorsKept
    /\ main.pc \in NothingPending => drops.status \in {"none", "ok"}
    /\ At("begin") => timeLimit = "off"
    /\ At("ok") => timeLimit # "expired"

(* Before anything goes wrong by itself nothing has failed.                *)
FaultInv ==
    faults = 0 => \A p \in AllProcesses :
        child[p] # "failed" /\ monitor[p] = "reading" /\ messages[p] # "panicked"

(* The drops of round r have been checked.                                 *)
RoundChecked(r) == r < main.round \/ (r = main.round /\ main.pc \in {"round"} \cup AfterRounds)

(* What is off the list of the drop monitor was announced; of a round that *)
(* was checked everything was, unless there has been an error.             *)
DropsInv ==
    /\ drops.missing \subseteq drops.expected
    /\ \A c \in drops.expected \ drops.missing : Sent(ParticipantDropped(c))
    /\ drops.status = "ok" => drops.missing = {} \/ Sent(Shutdown("Error"))
    /\ main.round > 0 => drops.expected = RoundDrops(main.round)
    /\ \A r \in 1 .. Rounds : RoundChecked(r) =>
          Sent(Shutdown("Error")) \/ \A c \in RoundDrops(r) : Sent(ParticipantDropped(c))

(* The end of round r has been waited for.                                 *)
RoundAwaited(r) ==
    r < main.round \/ (r = main.round /\ main.pc \in ContributorsJoined \cup {"join_contributors"})

(* The coordinator has given a round up.                                   *)
GaveUp == coord.phase # "starting" /\ Setup!RolledBack

(* A round that was waited for is finished, or there has been an error, or *)
(* a round was rolled back: before the last round nobody else says that the *)
(* test is finished.                                                       *)
FinishInv ==
    /\ \A r \in 1 .. Rounds : RoundAwaited(r) =>
          \/ Sent(RoundMessage("RoundFinished", r)) \/ Sent(Shutdown("Error"))
          \/ GaveUp
    /\ Sent(Shutdown("TestFinished")) =>
          GaveUp \/ main.pc \in AfterRounds \cup {"error", "panicked"}
    /\ \A k \in 1 .. Len(pipe) : pipe[k].kind = "restart" => GaveUp

(* What is over stays as it is, and nothing that was started is started    *)
(* again.                                                                  *)
EndsLast ==
    \A p \in AllProcesses : child[p] # "none" =>
        /\ child'[p] # "none"
        /\ Processes!Ended(p) => child'[p] = child[p] /\ monitor'[p] = monitor[p]
        /\ monitor[p] = "panicked" => monitor'[p] = "panicked"
        /\ messages[p] \in {"closed", "panicked"} => messages'[p] = messages[p]
        /\ p \in Contributors /\ ceremony[p] \in {"closed", "panicked"} =>
               ceremony'[p] = ceremony[p]

(* No process but those of S is started.                                   *)
StartOnly(S) == \A p \in AllProcesses : child[p] = "none" => child'[p] = "none" \/ p \in S

(* Nothing goes wrong that had not gone wrong before.                      *)
NothingFails ==
    \A p \in AllProcesses :
        /\ child'[p] = "failed" => child[p] = "failed"
        /\ monitor'[p] = "panicked" => monitor[p] = "panicked"
        /\ messages'[p] = "panicked" => messages[p] = "panicked" \/ child[p] = "failed"

(* The processes a step of the main thread may start.                      *)
Startable == IF At("begin") THEN {Coordinator}
             ELSE IF main.pc \in StartingPoints THEN TodoAt(main.pc, main.round) ELSE {}

(* A step that says m.                                                     *)
Appended(m) == log' = Append(log, m)

(* The contributors of the rounds to come are not there yet.               *)
FutureInv ==
    \A r \in 1 .. Rounds : r > main.round => \A c \in ToSet(Starting[r]) : child[c] = "none"

(* The test returns Ok, or is about to.                                    *)
Passing == At("ok") \/ (At("join_limit") /\ timeLimit # "expired")

(* An error of which nothing came is one of a contributor that started in  *)
(* the middle of a round.                                                  *)
ErrorReached ==
    Passing /\ Sent(Shutdown("Error")) =>
        \E c \in DOMAIN StartAfter : messages[c] = "panicked" \/ monitor[c] = "panicked"
--------------------------------------------------------------------------------
(* Sequences, and the log, which only grows.                               *)

(* The parts of a sequence that is not empty.                              *)
LEMMA SequenceParts ==
    ASSUME NEW S, NEW s \in Seq(S), s # <<>>
    PROVE  /\ Head(s) \in ToSet(s) /\ Last(s) \in ToSet(s) /\ ToSet(s) \subseteq S
           /\ Tail(s) \in Seq(S) /\ Front(s) \in Seq(S)
           /\ ToSet(Tail(s)) \subseteq ToSet(s) /\ ToSet(Front(s)) \subseteq ToSet(s)
           /\ ToSet(s) \subseteq ToSet(Front(s)) \cup {Last(s)}
<1>1. Len(s) \in Nat /\ Len(s) > 0 /\ DOMAIN s = 1 .. Len(s)
  OBVIOUS
<1>2. \A k \in 1 .. Len(s) : s[k] \in S
  OBVIOUS
<1>3. Head(s) = s[1] /\ Last(s) = s[Len(s)]
  BY DEF Last
<1>4. /\ Tail(s) \in Seq(S) /\ Len(Tail(s)) = Len(s) - 1
      /\ \A k \in 1 .. Len(Tail(s)) : Tail(s)[k] = s[k + 1]
  OBVIOUS
<1>5. /\ Front(s) \in Seq(S) /\ Len(Front(s)) = Len(s) - 1
      /\ \A k \in 1 .. Len(Front(s)) : Front(s)[k] = s[k]
  BY <1>1, <1>2 DEF Front
<1>6. DOMAIN Tail(s) = 1 .. (Len(s) - 1) /\ DOMAIN Front(s) = 1 .. (Len(s) - 1)
  BY <1>4, <1>5
<1>7. ToSet(s) \subseteq ToSet(Front(s)) \cup {Last(s)}
  BY <1>1, <1>3, <1>5, <1>6 DEF ToSet
<1> QED
  BY <1>1, <1>2, <1>3, <1>4, <1>5, <1>6, <1>7 DEF ToSet

(* The elements of two sequences, one after the other.                     *)
LEMMA SequenceConcat ==
    ASSUME NEW S, NEW s \in Seq(S), NEW t \in Seq(S)
    PROVE  s \o t \in Seq(S) /\ ToSet(s \o t) = ToSet(s) \cup ToSet(t)
<1>1. /\ s \o t \in Seq(S) /\ Len(s) \in Nat /\ Len(t) \in Nat
      /\ Len(s \o t) = Len(s) + Len(t)
      /\ \A k \in 1 .. Len(s) : (s \o t)[k] = s[k]
      /\ \A k \in 1 .. Len(t) : (s \o t)[Len(s) + k] = t[k]
  OBVIOUS
<1>2. \A k \in 1 .. (Len(s) + Len(t)) :
          k \in 1 .. Len(s) \/ (k - Len(s) \in 1 .. Len(t) /\ k = Len(s) + (k - Len(s)))
  BY <1>1
<1>3. \A k \in 1 .. Len(s), j \in 1 .. Len(t) :
          k \in 1 .. (Len(s) + Len(t)) /\ Len(s) + j \in 1 .. (Len(s) + Len(t))
  BY <1>1
<1>4. /\ DOMAIN s = 1 .. Len(s) /\ DOMAIN t = 1 .. Len(t)
      /\ DOMAIN (s \o t) = 1 .. (Len(s) + Len(t))
  BY <1>1
<1>5. ToSet(s \o t) \subseteq ToSet(s) \cup ToSet(t)
  <2> SUFFICES ASSUME NEW k \in 1 .. (Len(s) + Len(t))
               PROVE  (s \o t)[k] \in ToSet(s) \cup ToSet(t)
    BY <1>4 DEF ToSet
  <2>1. CASE k \in 1 .. Len(s)
    BY <1>1, <1>4, <2>1 DEF ToSet
  <2>2. CASE k - Len(s) \in 1 .. Len(t)
    <3>1. (s \o t)[Len(s) + (k - Len(s))] = t[k - Len(s)]
      BY <1>1, <2>2
    <3>2. k = Len(s) + (k - Len(s))
      BY <1>1
    <3> QED
      BY <1>4, <2>2, <3>1, <3>2 DEF ToSet
  <2> QED
    BY <1>2, <2>1, <2>2
<1>6. ToSet(s) \cup ToSet(t) \subseteq ToSet(s \o t)
  <2>1. ASSUME NEW k \in 1 .. Len(s) PROVE s[k] \in ToSet(s \o t)
    <3>1. k \in DOMAIN (s \o t) /\ (s \o t)[k] = s[k]
      BY <1>1, <1>4
    <3> QED
      BY <3>1 DEF ToSet
  <2>2. ASSUME NEW k \in 1 .. Len(t) PROVE t[k] \in ToSet(s \o t)
    <3>1. Len(s) + k \in DOMAIN (s \o t) /\ (s \o t)[Len(s) + k] = t[k]
      BY <1>1, <1>4
    <3> QED
      BY <3>1 DEF ToSet
  <2> QED
    BY <1>4, <2>1, <2>2 DEF ToSet
<1> QED
  BY <1>1, <1>5, <1>6
--------------------------------------------------------------------------------
(* What the steps of the processes and of their threads do.                *)

(* The start of a process.                                                 *)
LEMMA StartsOne ==
    ASSUME log \in Seq(CeremonyMessage), Processes!ProcessTypeOK, NEW p \in AllProcesses,
           \/ Processes!RunService(p)
           \/ \E rx \in Nat : Processes!RunContributor(p, rx)
    PROVE  Processes!ProcessTypeOK' /\ EndsLast /\ NothingFails /\ StartOnly({p})
<1> USE DEF AllProcesses, Processes!ProcessTypeOK, Processes!ChildStates,
            Processes!MessagesStates, Processes!CeremonyStates
<1>1. Processes!LogEnd \in Nat
  BY DEF Processes!LogEnd
<1>2. Processes!RunMonitorProcess(p)
  BY DEF Processes!RunService, Processes!RunContributor
<1>3. /\ child[p] = "none" /\ child' = [child EXCEPT ![p] = "running"]
      /\ monitor' = monitor /\ terminate' = terminate
      /\ messages' \in [Processes!Processes -> Processes!MessagesStates]
      /\ \A q \in Processes!Processes : messages'[q] = messages[q]
                                      \/ messages'[q] \in {"polling", "starting"}
      /\ \A q \in Processes!Processes : q # p => messages'[q] = messages[q]
      /\ \A q \in Contributors : q # p => ceremony'[q] = ceremony[q]
      /\ messagesRx' \in [Processes!Processes -> Nat]
  BY <1>1, <1>2 DEF Processes!RunMonitorProcess, Processes!RunService,
                    Processes!RunContributor, Processes!ceremonyVars
<1>4. EndsLast
  BY <1>3 DEF EndsLast, Processes!Ended
<1>5. NothingFails
  BY <1>3 DEF NothingFails
<1>6. StartOnly({p})
  BY <1>3 DEF StartOnly
<1>7. CASE Processes!RunService(p)
  BY <1>3, <1>4, <1>5, <1>6, <1>7 DEF Processes!RunService, Processes!ceremonyVars
<1>8. CASE \E rx \in Nat : Processes!RunContributor(p, rx)
  BY <1>3, <1>4, <1>5, <1>6, <1>8 DEF Processes!RunContributor
<1> QED
  BY <1>7, <1>8

(* The messages thread, the end of a child after a SIGTERM.                *)
LEMMA ProcessMoves ==
    ASSUME log \in Seq(CeremonyMessage), Processes!ProcessTypeOK, NEW p \in AllProcesses,
           ProcessStep(p)
    PROVE  /\ Processes!ProcessTypeOK' /\ EndsLast /\ NothingFails /\ StartOnly({})
           /\ log' = log \/ (Appended(Shutdown("Error")) /\ Panicked')
<1> USE DEF AllProcesses, Processes!ProcessTypeOK, Processes!ChildStates,
            Processes!MessagesStates, EndsLast, NothingFails, StartOnly, Processes!ceremonyVars,
            Processes!Ended
<1>1. CASE Processes!MessagesSubscribe(p)
  BY <1>1 DEF Processes!MessagesSubscribe
<1>2. CASE Processes!FindsRunning(p) \/ Processes!TerminateProcess(p)
  BY <1>2 DEF Processes!FindsRunning, Processes!TerminateProcess
<1>3. CASE Processes!ProcessExited(p)
  BY <1>3 DEF Processes!ProcessExited
<1>4. CASE Processes!ProcessFailed(p)
  <2>1. Appended(Shutdown("Error"))
    BY <1>4 DEF Processes!ProcessFailed, Processes!Broadcast, Processes!Shutdown, Shutdown,
                Appended
  <2>2. Panicked'
    BY <1>4 DEF Processes!ProcessFailed, Panicked
  <2> QED
    BY <1>4, <2>1, <2>2 DEF Processes!ProcessFailed
<1>5. CASE Processes!ChildTerminated(p)
  BY <1>5 DEF Processes!ChildTerminated
<1> QED
  BY <1>1, <1>2, <1>3, <1>4, <1>5 DEF ProcessStep, Processes!MessagesStep

(* The ceremony thread.                                                    *)
LEMMA CeremonyMoves ==
    ASSUME log \in Seq(CeremonyMessage), Processes!ProcessTypeOK, NEW c \in Contributors,
           ContributorStep(c)
    PROVE  /\ Processes!ProcessTypeOK' /\ EndsLast /\ NothingFails /\ StartOnly({})
           /\ log' = log
<1> USE DEF Processes!ProcessTypeOK, Processes!CeremonyStates
<1>1. ceremony[c] = "listening" /\ \E k \in Nat : ceremonyRx' = [ceremonyRx EXCEPT ![c] = k]
  <2>1. ASSUME NEW k, Processes!Receives(c, k)
        PROVE  ceremony[c] = "listening" /\ k \in Nat /\ ceremonyRx' = [ceremonyRx EXCEPT ![c] = k]
    BY <2>1 DEF Processes!Receives, Processes!Unread
  <2> QED
    BY <2>1 DEF ContributorStep, Processes!CeremonyStep, Processes!CeremonyShutdown,
                Processes!CeremonyRoundFinished, Processes!CeremonyDrops,
                Processes!CeremonyCounts
<1>2. /\ UNCHANGED <<log, child, monitor, messages, messagesRx>>
      /\ terminate' \in [Processes!Processes -> BOOLEAN]
      /\ ceremony' = ceremony \/ \E s \in {"closed", "panicked"} :
                                    ceremony' = [ceremony EXCEPT ![c] = s]
  <2>1. CASE Processes!SendTerminate(c)
    BY <2>1 DEF Processes!SendTerminate, Processes!Processes
  <2>2. CASE Processes!CeremonyShutdown(c) \/ Processes!CeremonyCounts(c)
    BY <2>2 DEF Processes!CeremonyShutdown, Processes!CeremonyCounts, Processes!threadVars
  <2> QED
    BY <2>1, <2>2 DEF ContributorStep, Processes!CeremonyStep, Processes!CeremonyRoundFinished,
                      Processes!CeremonyDrops
<1>3. contributions' \in [Contributors -> Nat]
  <2>1. ASSUME NEW m
        PROVE  [contributions EXCEPT ![c] = Processes!Counted(c, m)] \in [Contributors -> Nat]
    BY DEF Processes!Counted
  <2>2. \/ contributions' = contributions
        \/ \E m : contributions' = [contributions EXCEPT ![c] = Processes!Counted(c, m)]
    BY DEF ContributorStep, Processes!CeremonyStep, Processes!CeremonyShutdown,
           Processes!CeremonyRoundFinished, Processes!CeremonyDrops, Processes!CeremonyCounts
  <2>3. CASE \E m : contributions' = [contributions EXCEPT ![c] = Processes!Counted(c, m)]
    <3>1. PICK m : contributions' = [contributions EXCEPT ![c] = Processes!Counted(c, m)]
      BY <2>3
    <3> QED
      BY <2>1, <3>1
  <2> QED
    BY <2>2, <2>3
<1>4. ceremonyRx' \in [Contributors -> Nat] /\ ceremony' \in [Contributors -> Processes!CeremonyStates]
  BY <1>1, <1>2
<1>5. Processes!ProcessTypeOK'
  BY <1>2, <1>3, <1>4
<1>6. \A d \in Contributors : ceremony[d] \in {"closed", "panicked"} => ceremony'[d] = ceremony[d]
  BY <1>1, <1>2
<1>7. EndsLast
  BY <1>2, <1>6 DEF EndsLast
<1> QED
  BY <1>2, <1>5, <1>7 DEF NothingFails, StartOnly

(* What goes wrong by itself.                                              *)
LEMMA FaultMoves ==
    ASSUME log \in Seq(CeremonyMessage), Processes!ProcessTypeOK, ChildFault
    PROVE  /\ Processes!ProcessTypeOK' /\ EndsLast /\ StartOnly({})
           /\ log' = log \/ (Appended(Shutdown("Error")) /\ Panicked')
<1> USE DEF AllProcesses, Processes!ProcessTypeOK, Processes!ChildStates,
            EndsLast, StartOnly, Processes!ceremonyVars, Processes!Ended
<1>1. ASSUME NEW p \in Processes!Processes, NEW status \in {"exited", "failed"},
             Processes!ChildExits(p, status)
      PROVE  Processes!ProcessTypeOK' /\ EndsLast /\ StartOnly({}) /\ log' = log
  BY <1>1 DEF Processes!ChildExits
<1>2. ASSUME NEW p \in Processes!Processes, Processes!MonitorFails(p)
      PROVE  /\ Processes!ProcessTypeOK' /\ EndsLast /\ StartOnly({})
             /\ Appended(Shutdown("Error")) /\ Panicked'
  <2>1. Appended(Shutdown("Error"))
    BY <1>2 DEF Processes!MonitorFails, Processes!Broadcast, Processes!Shutdown, Shutdown,
                Appended
  <2>2. Panicked'
    BY <1>2 DEF Processes!MonitorFails, Panicked
  <2> QED
    BY <1>2, <2>1, <2>2 DEF Processes!MonitorFails
<1> QED
  BY <1>1, <1>2 DEF ChildFault
--------------------------------------------------------------------------------
(* What the reporter and the coordinator do.                               *)

(* The messages of the reporter are messages.                              *)
LEMMA ReporterMessages ==
    /\ \A t \in RoundMessageTypes, r \in Nat : Setup!RoundMessage(t, r) \in CeremonyMessage
    /\ \A p \in Participants : Setup!ParticipantDropped(p) \in CeremonyMessage
    /\ \A c \in Contributors : Setup!SuccessfulContribution(c) \in CeremonyMessage
    /\ Setup!Shutdown("TestFinished") \in CeremonyMessage
    /\ \A t, r : Setup!RoundMessage(t, r) = RoundMessage(t, r)
    /\ \A p : Setup!ParticipantDropped(p) = ParticipantDropped(p)
    /\ \A c : Setup!SuccessfulContribution(c) = SuccessfulContribution(c)
    /\ Setup!Shutdown("TestFinished") = Shutdown("TestFinished")
BY DEF CeremonyMessage, Setup!RoundMessage, Setup!ParticipantDropped, ShutdownReasons,
       Setup!SuccessfulContribution, Setup!Shutdown,
       RoundMessage, ParticipantDropped, SuccessfulContribution, Shutdown

(* A line of the coordinator is read, and what is said of it is no error;  *)
(* that the test is finished is said only of a roll-back.                  *)
ReporterSays(m) == /\ Appended(m) /\ m \in CeremonyMessage
                   /\ m.type = "Shutdown" => m.reason = "TestFinished" /\ Head(pipe).kind = "restart"

(* A step of the reporter takes one line, and says one thing at most.      *)
LEMMA ReporterMoves ==
    ASSUME log \in Seq(CeremonyMessage), Setup!ReporterTypeOK, ReporterStep
    PROVE  /\ pipe # <<>> /\ pipe' = Tail(pipe)
           /\ reporter' \in [phase : Setup!CoordinatorStates, round : Nat]
           /\ log' = log \/ \E m \in CeremonyMessage : ReporterSays(m)
<1> DEFINE Goal == /\ pipe # <<>> /\ pipe' = Tail(pipe)
                   /\ reporter' \in [phase : Setup!CoordinatorStates, round : Nat]
                   /\ log' = log \/ \E m \in CeremonyMessage : ReporterSays(m)
<1>1. /\ reporter \in [phase : Setup!CoordinatorStates, round : Nat]
      /\ Setup!CoordinatorStates = {"ProcessStarted", "RoundWaitingForParticipants",
             "RoundRunning", "RoundAggregating", "RoundWaitingForFinish", "RoundFinished"}
  BY DEF Setup!ReporterTypeOK, Setup!CoordinatorStates
<1>2. ASSUME NEW k, Setup!Reads(k)
      PROVE  pipe # <<>> /\ pipe' = Tail(pipe) /\ Head(pipe).kind = k
  BY <1>2 DEF Setup!Reads
<1>3. ASSUME NEW m \in CeremonyMessage, m.type # "Shutdown", log' = Append(log, m)
      PROVE  ReporterSays(m)
  BY <1>3 DEF ReporterSays, Appended
<1>4. /\ \A t, r : RoundMessage(t, r).type = t
      /\ \A p : ParticipantDropped(p).type = "ParticipantDropped"
      /\ \A c : SuccessfulContribution(c).type = "SuccessfulContribution"
  BY DEF RoundMessage, ParticipantDropped, SuccessfulContribution
<1>5. ASSUME NEW phase, NEW k, NEW message \in RoundMessageTypes,
             NEW next \in Setup!CoordinatorStates,
             Setup!Announces(phase, k, message, next)
      PROVE  Goal
  <2>1. /\ RoundMessage(message, reporter.round) \in CeremonyMessage
        /\ log' = Append(log, RoundMessage(message, reporter.round))
    BY <1>1, <1>5, ReporterMessages DEF Setup!Announces, Setup!Broadcast
  <2>2. reporter' \in [phase : Setup!CoordinatorStates, round : Nat]
    BY <1>1, <1>5 DEF Setup!Announces
  <2>3. message # "Shutdown"
    BY DEF RoundMessageTypes
  <2> QED
    BY <1>2, <1>3, <1>4, <1>5, <2>1, <2>2, <2>3 DEF Setup!Announces
<1>6. ASSUME NEW k, NEW r \in Nat, Setup!Reads(k), Setup!AwaitsRound(r)
      PROVE  Goal
  <2>1. /\ RoundMessage("RoundWaitingForParticipants", r) \in CeremonyMessage
        /\ log' = Append(log, RoundMessage("RoundWaitingForParticipants", r))
    BY <1>6, ReporterMessages DEF Setup!AwaitsRound, Setup!Broadcast, RoundMessageTypes
  <2>2. reporter' \in [phase : Setup!CoordinatorStates, round : Nat]
    BY <1>1, <1>6 DEF Setup!AwaitsRound
  <2> QED
    BY <1>2, <1>3, <1>4, <1>6, <2>1, <2>2
<1>7. CASE Setup!ReportBooted
  BY <1>6, <1>7 DEF Setup!ReportBooted
<1>8. CASE \/ Setup!ReportStarted \/ Setup!ReportAggregation
           \/ Setup!ReportAggregated \/ Setup!ReportFinished
  BY <1>1, <1>5, <1>8 DEF Setup!ReportStarted, Setup!ReportAggregation,
         Setup!ReportAggregated, Setup!ReportFinished, RoundMessageTypes
<1>9. CASE Setup!ReportNextRound
  <2>1. reporter.round + 1 \in Nat
    BY <1>1
  <2> QED
    BY <1>6, <1>9, <2>1 DEF Setup!ReportNextRound
<1>10. CASE Setup!ReportDropped
  <2>1. /\ ParticipantDropped(Head(pipe).participant) \in CeremonyMessage
        /\ log' = Append(log, ParticipantDropped(Head(pipe).participant))
    BY <1>10, ReporterMessages DEF Setup!ReportDropped, Setup!Broadcast, Setup!Participants,
                                   Participants
  <2> QED
    BY <1>1, <1>2, <1>3, <1>4, <1>10, <2>1 DEF Setup!ReportDropped
<1>11. CASE Setup!ReportContribution
  <2>1. /\ SuccessfulContribution(Head(pipe).participant) \in CeremonyMessage
        /\ log' = Append(log, SuccessfulContribution(Head(pipe).participant))
    BY <1>11, ReporterMessages DEF Setup!ReportContribution, Setup!Broadcast
  <2> QED
    BY <1>1, <1>2, <1>3, <1>4, <1>11, <2>1 DEF Setup!ReportContribution
<1>12. CASE Setup!ReportRestart
  <2>1. /\ Shutdown("TestFinished") \in CeremonyMessage
        /\ log' = Append(log, Shutdown("TestFinished"))
    BY <1>12, ReporterMessages DEF Setup!ReportRestart, Setup!Broadcast
  <2>2. reporter' \in [phase : Setup!CoordinatorStates, round : Nat]
    BY <1>1, <1>12 DEF Setup!ReportRestart
  <2>3. ReporterSays(Shutdown("TestFinished"))
    BY <1>2, <1>12, <2>1 DEF Setup!ReportRestart, ReporterSays, Appended, Shutdown
  <2> QED
    BY <1>2, <1>12, <2>1, <2>2, <2>3 DEF Setup!ReportRestart
<1>13. CASE Setup!IgnoreLine
  BY <1>1, <1>2, <1>13 DEF Setup!IgnoreLine
<1>14. CASE Setup!RejectLine
  <2>1. monitor[Coordinator] = "reading" /\ ~ (monitor'[Coordinator] = "reading")
    BY <1>14 DEF Setup!RejectLine, Setup!ReporterFails
  <2> QED
    BY <2>1 DEF ReporterStep, processVars
<1> QED
  BY <1>7, <1>8, <1>9, <1>10, <1>11, <1>12, <1>13, <1>14 DEF ReporterStep, Setup!ReadsALine

(* The coordinator writes a line.  It gives a round up with one that says so. *)
CoordinatorSays(line) == /\ pipe' = Append(pipe, line) /\ line \in Setup!Line
                         /\ line.kind = "restart" => coord'.phase = "restarted"

(* Whatever the coordinator does, it writes one line, and the bus does not *)
(* hear of it; and once it has given a round up it is behind the rounds it *)
(* has waited for.                                                         *)
LEMMA CoordinatorMoves ==
    ASSUME Setup!TypeOK, CoordinatorStep \/ CoordinatorDropsFaulty
    PROVE  /\ UNCHANGED <<log, reporter>>
           /\ \E line \in Setup!Line : CoordinatorSays(line)
           /\ Setup!CoordinatorTypeOK'
           /\ GaveUp => GaveUp'
<1> DEFINE Goal == /\ UNCHANGED <<log, reporter>>
                   /\ \E line \in Setup!Line : CoordinatorSays(line)
                   /\ Setup!CoordinatorTypeOK'
                   /\ GaveUp => GaveUp'
           CoordStates ==
               [phase : Setup!CoordinatorPhases, round : Nat, waits : 0 .. MaxWaits,
                chunks : 0 .. Chunks, rosters : [1 .. MaxWaits -> SUBSET Contributors],
                taken : SUBSET Contributors, dropped : SUBSET Setup!Participants,
                late : SUBSET Setup!Participants]
<1>1. /\ coord \in [phase : Setup!CoordinatorPhases, round : Nat, waits : 0 .. MaxWaits,
                    chunks : 0 .. Chunks, rosters : [1 .. MaxWaits -> SUBSET Contributors],
                    taken : SUBSET Contributors, dropped : SUBSET Setup!Participants,
                    late : SUBSET Setup!Participants]
      /\ coord.round <= coord.waits /\ coord.waits \in Nat
      /\ coord.phase # "starting" => coord.round > 0
      /\ Chunks \in Nat /\ MaxWaits \in Nat \ {0}
      /\ Setup!CoordinatorPhases = {"starting", "waiting", "running", "restarted",
                                    "aggregating", "aggregated", "finished"}
  BY TestAssumption DEF Setup!TypeOK, Setup!CoordinatorTypeOK, Setup!CoordinatorPhases
<1>2. /\ \A k \in {"booted", "advanced", "restart", "aggregating", "aggregated", "finished",
                   "other"} :
             Setup!PlainLine(k) \in Setup!Line /\ Setup!PlainLine(k).kind = k
      /\ \A p \in Setup!Participants :
             /\ Setup!ParticipantLine("dropping", p) \in Setup!Line
             /\ Setup!ParticipantLine("dropping", p).kind = "dropping"
      /\ \A c \in Contributors :
             /\ Setup!ParticipantLine("contribution", c) \in Setup!Line
             /\ Setup!ParticipantLine("contribution", c).kind = "contribution"
  BY DEF Setup!Line, Setup!PlainLine, Setup!ParticipantLine, Setup!LineKinds
<1>3. ASSUME NEW line \in Setup!Line, Setup!Says(line),
             line.kind = "restart" => coord'.phase = "restarted"
      PROVE  UNCHANGED <<log, reporter>> /\ \E l \in Setup!Line : CoordinatorSays(l)
  BY <1>3 DEF Setup!Says, Setup!WriteLine, CoordinatorSays
<1>4. ASSUME NEW from, NEW to \in Setup!CoordinatorPhases \ {"starting"},
             from \notin {"starting", "restarted"},
             NEW k \in {"restart", "aggregating", "aggregated", "finished"},
             k = "restart" => to = "restarted",
             Setup!Moves(from, to, Setup!PlainLine(k))
      PROVE  Goal
  <2>1. coord' = [coord EXCEPT !.phase = to] /\ coord'.phase = to /\ coord.phase = from
    BY <1>1, <1>4 DEF Setup!Moves
  <2>2. UNCHANGED <<log, reporter>> /\ \E line \in Setup!Line : CoordinatorSays(line)
    BY <1>2, <1>3, <1>4, <2>1 DEF Setup!Moves
  <2>3. /\ coord'.round = coord.round /\ coord'.waits = coord.waits
        /\ coord' \in CoordStates
    BY <1>1, <2>1
  <2>4. Setup!CoordinatorTypeOK'
    <3>1. coord'.round <= coord'.waits /\ coord'.round > 0
      BY <1>1, <1>4, <2>1, <2>3
    <3> QED
      BY <2>3, <3>1, Zenon DEF Setup!CoordinatorTypeOK
  <2>5. GaveUp => GaveUp'
    BY <1>1, <1>4, <2>1, <2>3 DEF GaveUp, Setup!RolledBack
  <2> QED
    BY <2>2, <2>4, <2>5
<1>5. CASE Setup!CoordinatorBoots
  <2>1. /\ coord' = [coord EXCEPT !.phase = "waiting", !.round = 1, !.waits = 1]
        /\ coord.phase = "starting"
    BY <1>5 DEF Setup!CoordinatorBoots
  <2>2. /\ coord'.phase = "waiting" /\ coord'.round = 1 /\ coord'.waits = 1
        /\ coord' \in CoordStates
    <3>1. 1 \in 0 .. MaxWaits /\ 1 \in Nat
      BY <1>1
    <3> QED
      BY <1>1, <2>1, <3>1
  <2>3. Setup!CoordinatorTypeOK'
    <3>1. coord'.round <= coord'.waits /\ coord'.round > 0
      BY <2>2
    <3> QED
      BY <2>2, <3>1, Zenon DEF Setup!CoordinatorTypeOK
  <2>4. UNCHANGED <<log, reporter>> /\ \E line \in Setup!Line : CoordinatorSays(line)
    BY <1>2, <1>3, <1>5, <2>2 DEF Setup!CoordinatorBoots
  <2> QED
    BY <2>1, <2>3, <2>4 DEF GaveUp
<1>6. CASE \E contributors \in SUBSET Contributors : Setup!CoordinatorStarts(contributors)
  <2>1. PICK contributors \in SUBSET Contributors : Setup!CoordinatorStarts(contributors)
    BY <1>6
  <2>2. /\ coord' = [coord EXCEPT !.phase = "running", !.chunks = 0,
                         !.rosters = [coord.rosters EXCEPT ![coord.round] = contributors],
                         !.taken = coord.taken \cup contributors]
        /\ coord.phase = "waiting"
    BY <2>1 DEF Setup!CoordinatorStarts
  <2>3. 0 \in 0 .. Chunks
    BY <1>1
  <2> DEFINE next == [coord.rosters EXCEPT ![coord.round] = contributors]
  <2>4. next \in [1 .. MaxWaits -> SUBSET Contributors]
    BY <1>1
  <2>5. /\ coord'.phase = "running" /\ coord'.round = coord.round
        /\ coord'.waits = coord.waits /\ coord'.rosters = next
        /\ coord' \in [phase : Setup!CoordinatorPhases, round : Nat, waits : 0 .. MaxWaits,
                        chunks : 0 .. Chunks, rosters : [1 .. MaxWaits -> SUBSET Contributors],
                        taken : SUBSET Contributors, dropped : SUBSET Setup!Participants,
                        late : SUBSET Setup!Participants]
    <3> HIDE DEF next
    <3>1. coord' = [coord EXCEPT !.phase = "running", !.chunks = 0, !.rosters = next,
                         !.taken = coord.taken \cup contributors]
      BY <2>2 DEF next
    <3> QED
      BY <1>1, <2>1, <2>3, <2>4, <3>1
  <2>6. Setup!CoordinatorTypeOK' /\ (GaveUp => GaveUp')
    BY <1>1, <2>2, <2>5 DEF Setup!CoordinatorTypeOK, GaveUp, Setup!RolledBack
  <2> QED
    BY <1>2, <1>3, <2>1, <2>6 DEF Setup!CoordinatorStarts
<1>7. CASE \E c \in Contributors : Setup!CoordinatorTakesChunk(c)
  <2>1. PICK c \in Contributors : Setup!CoordinatorTakesChunk(c)
    BY <1>7
  <2>2. /\ coord' = [coord EXCEPT !.chunks = coord.chunks + 1]
        /\ coord.phase = "running" /\ coord.chunks < Chunks
    BY <2>1 DEF Setup!CoordinatorTakesChunk
  <2>3. coord.chunks + 1 \in 0 .. Chunks
    BY <1>1, <2>2
  <2>4. Setup!CoordinatorTypeOK' /\ (GaveUp => GaveUp')
    BY <1>1, <2>2, <2>3 DEF Setup!CoordinatorTypeOK, GaveUp, Setup!RolledBack
  <2> QED
    BY <1>2, <1>3, <2>1, <2>4 DEF Setup!CoordinatorTakesChunk
<1>8. CASE \E p \in Setup!Participants : Setup!CoordinatorDrops(p)
  <2>1. PICK p \in Setup!Participants : Setup!CoordinatorDrops(p)
    BY <1>8
  <2>2. PICK late \in SUBSET Setup!Participants :
            coord' = [coord EXCEPT !.dropped = coord.dropped \cup {p}, !.late = late]
    BY <1>1, <2>1 DEF Setup!CoordinatorDrops
  <2>3. Setup!CoordinatorTypeOK' /\ (GaveUp => GaveUp')
    BY <1>1, <2>2 DEF Setup!CoordinatorTypeOK, GaveUp, Setup!RolledBack
  <2> QED
    BY <1>2, <1>3, <2>1, <2>3 DEF Setup!CoordinatorDrops
<1>9. ASSUME NEW standby, Setup!CoordinatorRestarts(standby) PROVE Goal
  BY <1>1, <1>4, <1>9 DEF Setup!CoordinatorRestarts
<1>10. CASE \/ Setup!CoordinatorAggregates \/ Setup!CoordinatorAggregated
            \/ Setup!CoordinatorFinishes
  BY <1>1, <1>4, <1>10 DEF Setup!CoordinatorAggregates, Setup!CoordinatorAggregated,
                           Setup!CoordinatorFinishes
<1>11. CASE Setup!CoordinatorNextRound \/ Setup!CoordinatorRollsBack
  <2>1. PICK from \in Setup!OverPhases, round \in {1, coord.round + 1} :
            /\ Setup!WaitsAgain(from, round)
            /\ from = "restarted" => round = 1
            /\ from = "finished" => round = coord.round + 1
    BY <1>1, <1>11 DEF Setup!CoordinatorNextRound, Setup!CoordinatorRollsBack, Setup!OverPhases
  <2>2. /\ coord' = [coord EXCEPT !.phase = "waiting", !.round = round,
                                  !.waits = coord.waits + 1]
        /\ coord.phase = from /\ coord.waits < MaxWaits
        /\ Setup!Says(Setup!PlainLine("other"))
    BY <2>1 DEF Setup!WaitsAgain
  <2>3. /\ round \in Nat /\ round > 0 /\ round <= coord.waits + 1
        /\ coord.waits + 1 \in 0 .. MaxWaits /\ coord.waits > 0
    BY <1>1, <2>1, <2>2 DEF Setup!OverPhases
  <2>4. Setup!CoordinatorTypeOK'
    BY <1>1, <2>2, <2>3 DEF Setup!CoordinatorTypeOK
  <2>5. GaveUp => GaveUp'
    BY <1>1, <2>1, <2>2, <2>3 DEF GaveUp, Setup!RolledBack, Setup!OverPhases
  <2> QED
    BY <1>2, <1>3, <2>2, <2>4, <2>5
<1>12. CASE Setup!CoordinatorChats
  <2>1. Setup!Says(Setup!PlainLine("other")) /\ coord' = coord
    BY <1>12 DEF Setup!CoordinatorChats
  <2>2. Setup!CoordinatorTypeOK' /\ (GaveUp => GaveUp')
    BY <1>1, <2>1 DEF Setup!CoordinatorTypeOK, GaveUp, Setup!RolledBack
  <2> QED
    BY <1>2, <1>3, <2>1, <2>2
<1>13. ASSUME NEW came \in SUBSET Contributors, NEW present \in SUBSET Contributors, NEW standby,
              NEW droppable \in SUBSET Setup!Participants, NEW chatty,
              Setup!CoordinatorNext(came, present, standby, droppable, chatty)
       PROVE  Goal
  BY <1>5, <1>6, <1>7, <1>8, <1>9, <1>10, <1>11, <1>12, <1>13 DEF Setup!CoordinatorNext
<1>14. Setup!Participants = Participants
  BY DEF Setup!Participants, Participants
<1>15. CASE CoordinatorStep
  <2> DEFINE up == {c \in Contributors : Up(c)}
             gone == {p \in Participants : ~ Up(p) /\ child[p] # "none"}
             droppable == IF Setup!InRound THEN gone ELSE {}
             chatty == IF reporter.round > coord.waits THEN {} ELSE Setup!OverPhases
  <2>1. Setup!CoordinatorNext(up \ ToSet(Replacements), up, up \cap ToSet(Replacements),
                              droppable, chatty)
    BY <1>15 DEF CoordinatorStep
  <2>2. /\ up \in SUBSET Contributors /\ up \ ToSet(Replacements) \in SUBSET Contributors
        /\ droppable \in SUBSET Setup!Participants
    BY <1>14
  <2> HIDE DEF up, gone, droppable, chatty
  <2> QED
    BY <1>13, <2>1, <2>2
<1>16. CASE CoordinatorDropsFaulty
  BY <1>8, <1>14, <1>16 DEF CoordinatorDropsFaulty
<1> QED
  BY <1>15, <1>16
--------------------------------------------------------------------------------
(* What the other threads of the round do.                                 *)

(* A message by its type.                                                  *)
LEMMA MessageKinds ==
    ASSUME NEW m \in CeremonyMessage
    PROVE  /\ m.type = "ParticipantDropped" =>
                  m.participant \in Participants /\ m = ParticipantDropped(m.participant)
           /\ m.type = "Shutdown" => m = Shutdown("Error") \/ m = Shutdown("TestFinished")
BY DEF CeremonyMessage, ParticipantDropped, Shutdown, ShutdownReasons, RoundMessageTypes

(* The drop monitor takes the drops that are missing off its list as they  *)
(* are announced; its verdict is good only if none is left or there has    *)
(* been an error.                                                          *)
LEMMA DropMoves ==
    ASSUME log \in Seq(CeremonyMessage), Drops!DropTypeOK, Drops!DropStep
    PROVE  /\ Drops!DropTypeOK' /\ drops.status = "listening"
           /\ drops'.expected = drops.expected /\ drops'.missing \subseteq drops.missing
           /\ \A c \in drops.missing : c \in drops'.missing \/ Sent(ParticipantDropped(c))
           /\ drops'.status = "ok" => drops'.missing = {} \/ Sent(Shutdown("Error"))
           /\ log' = log \/ (Appended(Shutdown("Error")) /\ drops'.status = "failed")
<1>1. /\ drops \in [status : {"none", "listening", "ok", "failed"}, since : Nat, rx : Nat,
                    expected : SUBSET Contributors, missing : SUBSET Contributors]
      /\ Len(log) \in Nat
  BY DEF Drops!DropTypeOK, Drops!DropStatus
<1>2. ASSUME NEW k, Drops!DropReceives(k)
      PROVE  /\ k \in Nat /\ k \in 1 .. Len(log) /\ log[k] \in CeremonyMessage
             /\ drops.status = "listening"
  BY <1>1, <1>2 DEF Drops!DropReceives, Drops!Unread
<1>3. ASSUME NEW k, Drops!DropReceives(k), NEW status \in {"ok", "failed"},
             Drops!Ends(k, status),
             status = "ok" => drops.missing = {} \/ Sent(Shutdown("Error"))
      PROVE  /\ Drops!DropTypeOK' /\ drops.status = "listening" /\ drops'.status = status
             /\ drops'.expected = drops.expected /\ drops'.missing = drops.missing
             /\ drops'.status = "ok" => drops'.missing = {} \/ Sent(Shutdown("Error"))
  <2>1. drops' = [drops EXCEPT !.status = status, !.rx = k]
    BY <1>3 DEF Drops!Ends
  <2>2. k \in Nat /\ drops.status = "listening"
    BY <1>2, <1>3
  <2> QED
    BY <1>1, <1>3, <2>1, <2>2 DEF Drops!DropTypeOK, Drops!DropStatus
<1>4. Drops!CheckDrops \in {"ok", "failed"} /\ (Drops!CheckDrops = "ok" => drops.missing = {})
  BY DEF Drops!CheckDrops
<1>5. CASE Drops!DropsRoundFinished
  BY <1>3, <1>4, <1>5 DEF Drops!DropsRoundFinished
<1>6. CASE Drops!DropsShutdown
  <2>1. PICK k : /\ Drops!DropReceives(k) /\ log[k].type = "Shutdown"
                 /\ Drops!Ends(k, IF log[k].reason = "TestFinished" THEN Drops!CheckDrops ELSE "ok")
                 /\ log' = log
    BY <1>6 DEF Drops!DropsShutdown, Drops!IsShutdownMessage
  <2>2. k \in 1 .. Len(log) /\ log[k] \in CeremonyMessage
    BY <1>2, <2>1
  <2>3. CASE log[k].reason = "TestFinished"
    BY <1>3, <1>4, <2>1, <2>3
  <2>4. CASE log[k].reason # "TestFinished"
    <3>1. log[k] = Shutdown("Error")
      BY <2>1, <2>2, <2>4, MessageKinds DEF Shutdown
    <3>2. Sent(Shutdown("Error"))
      BY <2>2, <3>1 DEF Sent
    <3>3. Drops!Ends(k, "ok")
      BY <2>1, <2>4
    <3> QED
      BY <1>3, <2>1, <3>2, <3>3
  <2> QED
    BY <2>3, <2>4
<1>7. CASE Drops!DropExpected
  <2>1. PICK k : /\ Drops!DropReceives(k) /\ log[k].type = "ParticipantDropped"
                 /\ drops' = [drops EXCEPT !.missing = drops.missing \ {log[k].participant}, !.rx = k]
                 /\ log' = log
    BY <1>7 DEF Drops!DropExpected
  <2>2. k \in Nat /\ k \in 1 .. Len(log) /\ log[k] \in CeremonyMessage /\ drops.status = "listening"
    BY <1>2, <2>1
  <2>3. Sent(ParticipantDropped(log[k].participant))
    BY <2>1, <2>2, MessageKinds DEF Sent
  <2>4. /\ drops'.status = drops.status /\ drops'.expected = drops.expected
        /\ drops'.missing = drops.missing \ {log[k].participant}
    BY <1>1, <2>1
  <2>5. Drops!DropTypeOK'
    <3>1. drops.missing \ {log[k].participant} \in SUBSET Contributors
      BY <1>1
    <3> QED
      BY <1>1, <2>1, <2>2, <3>1 DEF Drops!DropTypeOK, Drops!DropStatus
  <2> QED
    BY <2>1, <2>2, <2>3, <2>4, <2>5
<1>8. CASE Drops!DropUnexpected
  <2>1. Appended(Shutdown("Error"))
    BY <1>8 DEF Drops!DropUnexpected, Drops!Broadcast, Drops!Shutdown, Shutdown, Appended
  <2> QED
    BY <1>3, <1>8, <2>1 DEF Drops!DropUnexpected
<1> QED
  BY <1>5, <1>6, <1>7, <1>8 DEF Drops!DropStep

(* A contribution waiter starts its contributor when there have been enough *)
(* contributions.                                                          *)
LEMMA WaiterMoves ==
    ASSUME log \in Seq(CeremonyMessage), Processes!ProcessTypeOK, Waiters!WaiterTypeOK,
           NEW c \in DOMAIN StartAfter, WaiterStarts(c) \/ WaiterFails(c)
    PROVE  /\ Waiters!WaiterTypeOK' /\ Processes!ProcessTypeOK'
           /\ EndsLast /\ NothingFails /\ StartOnly({c}) /\ log' = log
<1>1. c \in AllProcesses /\ c \in Contributors
  BY TestAssumption, KindsAssumption DEF AllProcesses, Processes!Processes
<1>2. Waiters!WaiterTypeOK'
  BY DEF WaiterStarts, WaiterFails, Waiters!WaiterJoins, Waiters!WaiterTypeOK, Waiters!MidRound
<1>3. CASE WaiterStarts(c)
  <2>1. waiterRx[c] \in Nat
    BY DEF Waiters!WaiterTypeOK, Waiters!MidRound
  <2>2. \E rx \in Nat : Processes!RunContributor(c, rx)
    BY <1>3, <2>1 DEF WaiterStarts
  <2> QED
    BY <1>1, <1>2, <1>3, <2>2, StartsOne DEF WaiterStarts
<1>4. CASE WaiterFails(c)
  BY <1>2, <1>4 DEF WaiterFails, processVars, EndsLast, NothingFails, StartOnly,
        Processes!ProcessTypeOK
<1> QED
  BY <1>3, <1>4
--------------------------------------------------------------------------------
(* What the main thread does.                                              *)

(* The elements of a sequence over a set are in the set.                   *)
LEMMA SequenceElements ==
    ASSUME NEW S, NEW s \in Seq(S)
    PROVE  ToSet(s) \subseteq S
<1>1. DOMAIN s = 1 .. Len(s) /\ \A k \in 1 .. Len(s) : s[k] \in S
  OBVIOUS
<1> QED
  BY <1>1 DEF ToSet

(* A sequence is one over every set that has its elements.                 *)
LEMMA SequenceOver ==
    ASSUME NEW S, NEW T, NEW s \in Seq(S), ToSet(s) \subseteq T
    PROVE  s \in Seq(T)
<1>1. Len(s) \in Nat /\ s \in [1 .. Len(s) -> S]
  OBVIOUS
<1>2. \A k \in 1 .. Len(s) : s[k] \in T
  BY <1>1 DEF ToSet
<1>3. s \in [1 .. Len(s) -> T]
  BY <1>1, <1>2
<1> QED
  BY <1>1, <1>3

(* The processes of the lists the main thread works through.               *)
LEMMA Lists ==
    /\ Rounds \in Nat
    /\ AllProcesses = {Coordinator} \cup ToSet(StateMonitors) \cup Verifiers \cup Contributors
    /\ StateMonitors \in Seq(AllProcesses)
    /\ Helpers \in Seq(AllProcesses) /\ ToSet(Helpers) = ToSet(Replacements) \cup Verifiers
    /\ Started \in Seq(AllProcesses) /\ Started # <<>>
    /\ ToSet(Started) = {Coordinator} \cup ToSet(StateMonitors) \cup ToSet(Helpers)
    /\ \A r \in 1 .. Rounds :
          /\ Starting[r] \in Seq(AllProcesses) /\ Joining[r] \in Seq(AllProcesses)
          /\ ToSet(Starting[r]) \subseteq Contributors
<1> USE TestAssumption
<1>1. AllProcesses = {Coordinator} \cup ToSet(StateMonitors) \cup Verifiers \cup Contributors
  BY DEF AllProcesses, Processes!Processes
<1>2. ASSUME NEW S \in SUBSET AllProcesses, NEW s \in Seq(S)
      PROVE  s \in Seq(AllProcesses)
  <2>1. ToSet(s) \subseteq AllProcesses
    BY SequenceElements
  <2> QED
    BY <2>1, SequenceOver
<1>3. /\ StateMonitors \in Seq(AllProcesses) /\ Replacements \in Seq(AllProcesses)
      /\ VerifierOrder \in Seq(AllProcesses)
  BY <1>1, <1>2
<1>4. Helpers \in Seq(AllProcesses) /\ ToSet(Helpers) = ToSet(Replacements) \cup Verifiers
  BY <1>3, SequenceConcat DEF Helpers
<1>5. <<Coordinator>> \in Seq(AllProcesses) /\ ToSet(<<Coordinator>>) = {Coordinator}
  <2>1. DOMAIN <<Coordinator>> = {1} /\ <<Coordinator>>[1] = Coordinator
    OBVIOUS
  <2> QED
    BY <1>1, <2>1 DEF ToSet
<1>6. /\ Started \in Seq(AllProcesses)
      /\ ToSet(Started) = {Coordinator} \cup ToSet(StateMonitors) \cup ToSet(Helpers)
  <2> DEFINE one == <<Coordinator>>
             two == one \o StateMonitors
  <2>1. Started = two \o Helpers
    BY DEF Started
  <2>2. one \in Seq(AllProcesses) /\ ToSet(one) = {Coordinator}
    BY <1>5
  <2> HIDE DEF one
  <2>3. two \in Seq(AllProcesses) /\ ToSet(two) = ToSet(one) \cup ToSet(StateMonitors)
    BY <1>3, <2>2, SequenceConcat
  <2> HIDE DEF two
  <2>4. /\ two \o Helpers \in Seq(AllProcesses)
        /\ ToSet(two \o Helpers) = ToSet(two) \cup ToSet(Helpers)
    BY <1>4, <2>3, SequenceConcat
  <2> QED
    BY <2>1, <2>2, <2>3, <2>4
<1>8. Started # <<>>
  <2>1. ToSet(<<>>) = {}
    BY DEF ToSet
  <2> QED
    BY <1>6, <2>1
<1>9. Rounds \in Nat
  BY DEF Rounds
<1>10. ASSUME NEW r \in 1 .. Rounds
       PROVE  /\ Starting[r] \in Seq(Contributors) /\ Joining[r] \in Seq(DOMAIN StartAfter)
  BY <1>9 DEF Rounds
<1>11. ASSUME NEW r \in 1 .. Rounds
       PROVE  /\ Starting[r] \in Seq(AllProcesses) /\ Joining[r] \in Seq(AllProcesses)
              /\ ToSet(Starting[r]) \subseteq Contributors
  <2>1. Contributors \in SUBSET AllProcesses /\ DOMAIN StartAfter \in SUBSET AllProcesses
    BY <1>1, KindsAssumption
  <2>2. Starting[r] \in Seq(AllProcesses) /\ Joining[r] \in Seq(AllProcesses)
    BY <1>2, <1>10, <2>1
  <2>3. ToSet(Starting[r]) \subseteq Contributors
    BY KindsAssumption
  <2> QED
    BY <2>2, <2>3
<1> QED
  BY <1>1, <1>3, <1>4, <1>6, <1>8, <1>9, <1>11

(* AfterStarting and AfterJoining, as equations.                           *)
LEMMA Continuations ==
    /\ \A pc, todo : todo # <<>> => AfterStarting(pc, todo) = pc /\ AfterJoining(pc, todo) = pc
    /\ AfterStarting("services", <<>>) = "ready" /\ AfterStarting("helpers", <<>>) = "round"
    /\ AfterStarting("contributors", <<>>) = "waiters"
    /\ AfterJoining("join_contributors", <<>>) = "join_later"
    /\ AfterJoining("join_processes", <<>>) = "join_limit"
BY Zenon DEF AfterStarting, AfterJoining

(* An empty list is fit for every point.                                   *)
LEMMA EmptyList == <<>> \in Seq(AllProcesses) /\ ToSet(<<>>) = {}
BY DEF ToSet

(* A step to another point with another list.                              *)
LEMMA Goes ==
    ASSUME MainInv, NEW pc \in MainPoints, NEW todo \in Seq(AllProcesses),
           MainShape(pc, main.round, todo),
           main' = [main EXCEPT !.pc = pc, !.todo = todo]
    PROVE  MainInv' /\ main'.pc = pc /\ main'.round = main.round /\ main'.errors = main.errors
           /\ main'.rx = main.rx /\ main'.todo = todo
<1>1. main' \in [pc : MainPoints, round : 0 .. Rounds, todo : Seq(AllProcesses),
                 rx : Nat, errors : BOOLEAN]
  BY DEF MainInv
<1>2. /\ main'.pc = pc /\ main'.round = main.round /\ main'.errors = main.errors
      /\ main'.rx = main.rx /\ main'.todo = todo
  BY DEF MainInv
<1> QED
  BY <1>1, <1>2 DEF MainInv, MainShape, TodoAt

(* A step to another point with the same list.                             *)
LEMMA GoesOn ==
    ASSUME MainInv, NEW pc \in MainPoints, MainShape(pc, main.round, main.todo), Goto(pc)
    PROVE  MainInv' /\ main'.pc = pc /\ main'.round = main.round /\ main'.errors = main.errors
           /\ main'.rx = main.rx /\ main'.todo = main.todo
<1>1. main' = [main EXCEPT !.pc = pc, !.todo = main.todo]
  BY DEF MainInv, Goto
<1>2. main.todo \in Seq(AllProcesses)
  BY DEF MainInv
<1> QED
  BY <1>1, <1>2, Goes

(* A step of the main thread is along an edge, and keeps its shape.        *)
LEMMA MainStepMoves ==
    ASSUME TypeOK, MainInv, Alive, MainStep \/ ReturnsError
    PROVE  MainMoves
<1> USE Lists, Continuations, EmptyList
<1>1. /\ main.pc \in MainPoints /\ main.round \in 0 .. Rounds
      /\ main.todo \in Seq(AllProcesses) /\ main.rx \in 0 .. Len(log) /\ Len(log) \in Nat
      /\ main \in [pc : MainPoints, round : 0 .. Rounds, todo : Seq(AllProcesses),
                   rx : Nat, errors : BOOLEAN]
      /\ MainShape(main.pc, main.round, main.todo)
  BY DEF TypeOK, MainInv
<1>2. ASSUME main.todo # <<>>
      PROVE  /\ Head(main.todo) \in ToSet(main.todo) /\ Last(main.todo) \in ToSet(main.todo)
             /\ Tail(main.todo) \in Seq(AllProcesses) /\ Front(main.todo) \in Seq(AllProcesses)
             /\ ToSet(Tail(main.todo)) \subseteq ToSet(main.todo)
             /\ ToSet(Front(main.todo)) \subseteq ToSet(main.todo)
  BY <1>1, <1>2, SequenceParts
<1>3. ASSUME NEW pc \in MainPoints, NEW todo \in Seq(AllProcesses),
             MainShape(pc, main.round, todo), GotoWith(pc, todo),
             <<main.pc, pc>> \in Edges, ~ (At("round") /\ pc \in {"contributors", "waiters"})
      PROVE  MainMoves
  BY <1>1, <1>3, Goes DEF GotoWith, MainMoves
<1>4. ASSUME NEW pc \in MainPoints,
             MainShape(pc, main.round, main.todo), Goto(pc),
             <<main.pc, pc>> \in Edges \/ pc \in {"error", "panicked"},
             ~ (At("round") /\ pc \in {"contributors", "waiters"})
      PROVE  MainMoves
  BY <1>1, <1>4, GoesOn DEF MainMoves
<1>5. ToSet(main.todo) \subseteq AllProcesses
  BY <1>1, SequenceElements
<1>6. ASSUME NEW pc \in {"error", "panicked"}, Goto(pc)
      PROVE  MainMoves
  <2>1. pc \in MainPoints /\ MainShape(pc, main.round, main.todo)
    BY <1>5 DEF MainShape, TodoAt, BeforeRounds, InRound, AfterRounds, StartingPoints,
                JoiningPoints, MainPoints
  <2> QED
    BY <1>4, <1>6, <2>1
<1> USE DEF At, BeforeRounds, InRound, AfterRounds, StartingPoints, JoiningPoints, MainPoints,
            TodoAt, Edges
<1>7. CASE StartsCoordinator
  <2>1. MainShape(AfterStarting("services", StateMonitors), main.round, StateMonitors)
    BY <1>1, <1>7 DEF StartsCoordinator, MainShape
  <2> QED
    BY <1>3, <1>7, <2>1 DEF StartsCoordinator
<1>8. CASE StartsProcess
  <2> DEFINE rest == Tail(main.todo)
             pc == AfterStarting(main.pc, rest)
  <2>1. main.pc \in StartingPoints /\ GotoWith(pc, rest)
    BY <1>8 DEF StartsProcess
  <2>2. rest \in Seq(AllProcesses) /\ ToSet(rest) \subseteq ToSet(main.todo)
    BY <1>1, <1>2, <2>1 DEF MainShape
  <2>3. (rest # <<>> /\ pc = main.pc) \/ (rest = <<>> /\ <<main.pc, pc>> \in
            {<<"services", "ready">>, <<"helpers", "round">>, <<"contributors", "waiters">>})
    BY <2>1
  <2> HIDE DEF pc, rest
  <2>4. MainShape(pc, main.round, rest)
    BY <1>1, <2>1, <2>2, <2>3 DEF MainShape
  <2> QED
    BY <1>3, <2>1, <2>2, <2>3, <2>4
<1>9. CASE ReturnsError
  BY <1>6, <1>9 DEF ReturnsError
<1>10. CASE CoordinatorReady
  <2>1. MainShape(AfterStarting("helpers", Helpers), main.round, Helpers)
    BY <1>1, <1>10 DEF CoordinatorReady, MainShape
  <2> QED
    BY <1>3, <1>10, <2>1 DEF CoordinatorReady
<1>11. CASE RoundBegins
  <2> DEFINE r == main.round + 1
             pc == AfterStarting("contributors", Starting[r])
  <2>1. /\ main.pc = "round" /\ main.round < Rounds
        /\ main' = [main EXCEPT !.pc = pc, !.round = r, !.rx = LogEnd, !.todo = Starting[r]]
    BY <1>11 DEF RoundBegins
  <2>2. r \in 1 .. Rounds /\ Starting[r] \in Seq(AllProcesses) /\ LogEnd \in Nat
    BY <1>1, <2>1 DEF LogEnd
  <2>3. (Starting[r] # <<>> /\ pc = "contributors") \/ (Starting[r] = <<>> /\ pc = "waiters")
    OBVIOUS
  <2> HIDE DEF r, pc
  <2>4. pc \in MainPoints /\ r \in 0 .. Rounds
    BY <1>1, <2>2, <2>3
  <2>5. /\ main'.pc = pc /\ main'.round = r /\ main'.rx = LogEnd /\ main'.todo = Starting[r]
        /\ main'.errors = main.errors
        /\ main' \in [pc : MainPoints, round : 0 .. Rounds, todo : Seq(AllProcesses),
                      rx : Nat, errors : BOOLEAN]
    <3>1. main' = [pc |-> pc, round |-> r, todo |-> Starting[r], rx |-> LogEnd,
                   errors |-> main.errors]
      BY <1>1, <2>1
    <3> QED
      BY <1>1, <2>2, <2>4, <3>1
  <2>6. MainShape(pc, r, Starting[r])
    BY <2>2, <2>3 DEF MainShape
  <2>7. MainInv'
    BY <2>5, <2>6 DEF MainInv, MainShape
  <2>8. LogEnd \in 0 .. Len(log)
    BY <1>1 DEF LogEnd
  <2> QED
    BY <1>11, <2>1, <2>3, <2>5, <2>7, <2>8 DEF MainMoves, r
<1>12. CASE SpawnsWaiters
  BY <1>1, <1>4, <1>12 DEF SpawnsWaiters, MainShape
<1>13. CASE RoundStarts
  BY <1>1, <1>4, <1>13 DEF RoundStarts, MainShape
<1>14. CASE RoundStartsWithout
  <2>1. main.pc = "await_start" /\ main' = [main EXCEPT !.pc = "await_end", !.errors = TRUE]
    BY <1>14 DEF RoundStartsWithout
  <2>2. /\ main'.pc = "await_end" /\ main'.round = main.round /\ main'.rx = main.rx
        /\ main'.todo = main.todo /\ main'.errors
        /\ main' \in [pc : MainPoints, round : 0 .. Rounds, todo : Seq(AllProcesses),
                      rx : Nat, errors : BOOLEAN]
    BY <1>1, <2>1
  <2>3. MainShape("await_end", main.round, main.todo)
    BY <1>1, <2>1 DEF MainShape
  <2>4. MainInv'
    BY <2>2, <2>3 DEF MainInv, MainShape
  <2> QED
    BY <1>1, <1>14, <2>1, <2>2, <2>4 DEF MainMoves
<1>15. CASE RoundEnds
  <2>1. /\ main.pc = "await_end" /\ main.round \in 1 .. Rounds
        /\ \/ Starting[main.round] = <<>> /\ GotoWith("join_later", Joining[main.round])
           \/ Starting[main.round] # <<>> /\ GotoWith("join_contributors", Starting[main.round])
    BY <1>1, <1>15 DEF RoundEnds, MainShape
  <2>2. /\ Starting[main.round] \in Seq(AllProcesses) /\ Joining[main.round] \in Seq(AllProcesses)
        /\ MainShape("join_later", main.round, Joining[main.round])
    BY <2>1 DEF MainShape
  <2>3. CASE Starting[main.round] # <<>>
    BY <1>3, <2>1, <2>2, <2>3 DEF MainShape
  <2> QED
    BY <1>3, <2>1, <2>2, <2>3
<1>16. CASE JoinsProcess
  <2> DEFINE rest == Front(main.todo)
             next == AfterJoining(main.pc, rest)
  <2>1. /\ main.pc \in JoiningPoints
        /\ \/ Goto("panicked")
           \/ GotoWith(next, IF next = "join_later" THEN Joining[main.round] ELSE rest)
    BY <1>16 DEF JoinsProcess
  <2>2. rest \in Seq(AllProcesses) /\ ToSet(rest) \subseteq ToSet(main.todo)
    BY <1>1, <1>2, <2>1 DEF MainShape
  <2>3. \/ rest # <<>> /\ next = main.pc
        \/ rest = <<>> /\ main.pc = "join_contributors" /\ next = "join_later"
        \/ rest = <<>> /\ main.pc = "join_processes" /\ next = "join_limit"
    BY <2>1
  <2> HIDE DEF next, rest
  <2>4. CASE Goto("panicked")
    BY <1>6, <2>4
  <2>5. CASE next = "join_later" /\ GotoWith(next, Joining[main.round])
    <3>1. main.pc = "join_contributors" /\ main.round \in 1 .. Rounds
      BY <1>1, <2>1, <2>3, <2>5 DEF MainShape
    <3>2. MainShape("join_later", main.round, Joining[main.round])
      BY <3>1 DEF MainShape
    <3> QED
      BY <1>3, <2>5, <3>1, <3>2
  <2>6. CASE next # "join_later" /\ GotoWith(next, rest)
    <3>1. MainShape(next, main.round, rest)
      BY <1>1, <2>1, <2>2, <2>3, <2>6 DEF MainShape
    <3>2. /\ next \in MainPoints /\ <<main.pc, next>> \in Edges
          /\ ~ (main.pc = "round" /\ next \in {"contributors", "waiters"})
      BY <2>1, <2>3, <2>6
    <3> QED
      BY <1>3, <2>2, <2>6, <3>1, <3>2
  <2> QED
    BY <2>1, <2>4, <2>5, <2>6
<1>17. CASE JoinsLater
  <2>1. /\ main.pc = "join_later" /\ main.todo # <<>>
        /\ (Goto("panicked") \/ Goto("join_waiter"))
    BY <1>17 DEF JoinsLater
  <2>2. MainShape("join_waiter", main.round, main.todo)
    BY <1>1, <2>1 DEF MainShape
  <2> QED
    BY <1>4, <1>6, <2>1, <2>2
<1>18. CASE JoinsWaiter
  <2>1. /\ main.pc = "join_waiter" /\ main.todo # <<>>
        /\ (GotoWith("join_later", Front(main.todo)) \/ Goto("panicked"))
    BY <1>1, <1>18 DEF JoinsWaiter, MainShape
  <2>2. MainShape("join_later", main.round, Front(main.todo))
    BY <1>1, <1>2, <2>1 DEF MainShape
  <2> QED
    BY <1>2, <1>3, <1>6, <2>1, <2>2
<1>19. CASE JoinsDrops
  <2>1. main.pc = "join_later" /\ (Goto("error") \/ Goto("round"))
    BY <1>19 DEF JoinsDrops
  <2>2. CASE Goto("round")
    <3>1. MainShape("round", main.round, main.todo)
      BY <1>1, <1>5, <2>1 DEF MainShape
    <3>2. "round" \in MainPoints /\ <<main.pc, "round">> \in Edges
      BY <2>1
    <3> QED
      BY <1>4, <2>1, <2>2, <3>1, <3>2
  <2> QED
    BY <1>6, <2>1, <2>2
<1>20. CASE ShutsDown
  <2>1. main.pc = "round" /\ main.round = Rounds /\ GotoWith("join_processes", Started)
    BY <1>20 DEF ShutsDown
  <2>2. MainShape("join_processes", main.round, Started)
    BY <2>1 DEF MainShape
  <2> QED
    BY <1>3, <2>1, <2>2
<1>21. CASE JoinsTimeLimit
  <2>1. main.pc = "join_limit" /\ (Goto("error") \/ Goto("ok"))
    BY <1>21 DEF JoinsTimeLimit
  <2>2. main.round = Rounds
    BY <1>1, <2>1 DEF MainShape
  <2>3. MainShape("ok", main.round, main.todo)
    BY <1>5, <2>2 DEF MainShape
  <2>4. "ok" \in MainPoints /\ <<main.pc, "ok">> \in Edges
    BY <2>1
  <2> QED
    BY <1>4, <1>6, <2>1, <2>3, <2>4
<1> QED
  BY <1>7, <1>8, <1>9, <1>10, <1>11, <1>12, <1>13, <1>14, <1>15, <1>16, <1>17, <1>18, <1>19,
     <1>20, <1>21 DEF MainStep

(* What the main thread does to the rest: it starts processes, and says    *)
(* that the test has failed, or is over.                                   *)
MainEffects ==
    /\ Processes!ProcessTypeOK' /\ EndsLast /\ NothingFails /\ StartOnly(Startable)
    /\ \/ log' = log
       \/ Appended(Shutdown("Error")) /\ RoundStartsWithout
       \/ Appended(Shutdown("TestFinished")) /\ ShutsDown
    /\ Drops!DropTypeOK' /\ (drops' = drops \/ RoundBegins)
    /\ Waiters!WaiterTypeOK'
    /\ timeLimit' = timeLimit \/ StartsCoordinator
    /\ timeLimit' \in {"off", "running", "done", "expired"}
    /\ faults' \in 0 .. MaxFaults /\ (faults' = 0 => faults = 0)
    /\ UNCHANGED coordinatorVars

(* A step of the main thread does no more to the rest than MainEffects.    *)
LEMMA MainStepEffects ==
    ASSUME TypeOK, MainInv, Alive, MainStep \/ ReturnsError
    PROVE  MainEffects
<1>1. /\ log \in Seq(CeremonyMessage) /\ Len(log) \in Nat
      /\ Processes!ProcessTypeOK /\ Drops!DropTypeOK /\ Waiters!WaiterTypeOK
      /\ timeLimit \in {"off", "running", "done", "expired"}
      /\ faults \in 0 .. MaxFaults /\ MaxFaults \in Nat
      /\ main.round \in 0 .. Rounds /\ Rounds \in Nat
      /\ main.todo \in Seq(AllProcesses) /\ ToSet(main.todo) \subseteq TodoAt(main.pc, main.round)
  BY TestAssumption, Lists DEF TypeOK, MainInv, MainShape
<1>2. UNCHANGED processVars =>
          Processes!ProcessTypeOK' /\ EndsLast /\ NothingFails /\ StartOnly(Startable)
  BY <1>1 DEF processVars, Processes!ProcessTypeOK, EndsLast, NothingFails, StartOnly
<1>3. UNCHANGED waiterVars => Waiters!WaiterTypeOK'
  BY <1>1 DEF waiterVars, Waiters!WaiterTypeOK
<1>4. UNCHANGED drops => Drops!DropTypeOK'
  BY <1>1 DEF Drops!DropTypeOK
<1>5. CASE UNCHANGED <<log, timeLimit, faults, processVars, coordinatorVars, drops, waiterVars>>
  BY <1>1, <1>2, <1>3, <1>4, <1>5 DEF MainEffects
<1>6. CASE StartsCoordinator
  <2>1. StartOnly({Coordinator}) => StartOnly(Startable)
    BY <1>6 DEF StartsCoordinator, StartOnly, Startable
  <2>2. Coordinator \in AllProcesses /\ Processes!RunService(Coordinator)
    BY <1>6, Lists DEF StartsCoordinator
  <2>3. Processes!ProcessTypeOK' /\ EndsLast /\ NothingFails /\ StartOnly(Startable)
    BY <1>1, <2>1, <2>2, StartsOne
  <2>4. /\ timeLimit' \in {"off", "running"}
        /\ UNCHANGED <<log, faults, coordinatorVars, drops, waiterVars>>
    BY <1>6 DEF StartsCoordinator
  <2> QED
    BY <1>1, <1>3, <1>4, <1>6, <2>3, <2>4 DEF MainEffects
<1>7. CASE StartsProcess
  <2> DEFINE p == Head(main.todo)
  <2>1. /\ main.pc \in StartingPoints /\ ~ At("begin") /\ main.todo # <<>>
        /\ Processes!RunService(p) \/ Processes!RunContributor(p, LogEnd)
        /\ UNCHANGED <<log, timeLimit, faults, coordinatorVars, drops, waiterVars>>
    BY <1>7 DEF StartsProcess, StartingPoints, At, MainInv, MainShape
  <2>2. p \in ToSet(main.todo) /\ p \in AllProcesses
    BY <1>1, <2>1, SequenceParts
  <2>3. p \in Startable
    BY <1>1, <2>1, <2>2 DEF Startable
  <2>4. \/ Processes!RunService(p) \/ \E rx \in Nat : Processes!RunContributor(p, rx)
    BY <1>1, <2>1 DEF LogEnd
  <2> HIDE DEF p
  <2>5. Processes!ProcessTypeOK' /\ EndsLast /\ NothingFails /\ StartOnly({p})
    BY <1>1, <2>2, <2>4, StartsOne
  <2>6. StartOnly(Startable)
    BY <2>3, <2>5 DEF StartOnly
  <2> QED
    BY <1>1, <1>3, <1>4, <2>1, <2>5, <2>6 DEF MainEffects
<1>8. CASE ReturnsError \/ CoordinatorReady \/ RoundStarts \/ RoundEnds \/ JoinsProcess
  BY <1>5, <1>8 DEF ReturnsError, CoordinatorReady, RoundStarts, RoundEnds, JoinsProcess
<1>9. CASE JoinsLater \/ JoinsWaiter \/ JoinsDrops \/ JoinsTimeLimit
  BY <1>5, <1>9 DEF JoinsLater, JoinsWaiter, JoinsDrops, JoinsTimeLimit
<1>10. CASE RoundBegins
  <2>1. /\ Drops!MonitorDrops(RoundDrops(main.round + 1))
        /\ UNCHANGED <<log, timeLimit, faults, processVars, coordinatorVars, waiterVars>>
    BY <1>10 DEF RoundBegins
  <2>2. main.round + 1 \in 1 .. Rounds
    BY <1>1, <1>10 DEF RoundBegins
  <2>3. RoundDrops(main.round + 1) \subseteq Contributors
    BY TestAssumption DEF RoundDrops
  <2>4. Drops!DropTypeOK'
    BY <1>1, <2>1, <2>3 DEF Drops!MonitorDrops, Drops!DropTypeOK, Drops!DropStatus, Drops!LogEnd
  <2> QED
    BY <1>1, <1>2, <1>3, <1>10, <2>1, <2>4 DEF MainEffects
<1>11. CASE SpawnsWaiters
  <2>1. Waiters!WaiterTypeOK'
    <3> DEFINE joining == ToSet(Joining[main.round])
    <3>1. Waiters!SpawnContributionWaiters(joining)
      BY <1>11 DEF SpawnsWaiters
    <3> HIDE DEF joining
    <3> QED
      BY <1>1, <3>1 DEF Waiters!SpawnContributionWaiters, Waiters!WaiterTypeOK,
                        Waiters!LogEnd, Waiters!MidRound
  <2> QED
    BY <1>1, <1>2, <1>4, <1>11, <2>1 DEF SpawnsWaiters, MainEffects
<1>12. CASE RoundStartsWithout
  <2>1. faults' \in 0 .. MaxFaults /\ (faults' = 0 => faults = 0)
    BY <1>1, <1>12 DEF RoundStartsWithout, CheckFails, Fault
  <2>2. /\ Appended(Shutdown("Error"))
        /\ UNCHANGED <<timeLimit, processVars, coordinatorVars, drops, waiterVars>>
    BY <1>12 DEF RoundStartsWithout, Broadcast, Appended
  <2> QED
    BY <1>1, <1>2, <1>3, <1>4, <1>12, <2>1, <2>2 DEF MainEffects
<1>13. CASE ShutsDown
  <2>1. /\ Appended(Shutdown("TestFinished"))
        /\ UNCHANGED <<timeLimit, faults, processVars, coordinatorVars, drops, waiterVars>>
    BY <1>13 DEF ShutsDown, Broadcast, Appended
  <2> QED
    BY <1>1, <1>2, <1>3, <1>4, <1>13, <2>1 DEF MainEffects
<1> QED
  BY <1>6, <1>7, <1>8, <1>9, <1>10, <1>11, <1>12, <1>13 DEF MainStep
--------------------------------------------------------------------------------
(* What a step of the test does, whoever takes it.                         *)

(* The variables the types of which are those of their components.         *)
PartsTyped ==
    /\ timeLimit \in {"off", "running", "done", "expired"} /\ faults \in 0 .. MaxFaults
    /\ Processes!ProcessTypeOK /\ Drops!DropTypeOK /\ Waiters!WaiterTypeOK
    /\ Setup!CoordinatorTypeOK /\ pipe \in Seq(Setup!Line)
    /\ reporter \in [phase : Setup!CoordinatorStates, round : Nat]

(* What is said, and why: an error, by the thread that has met it; the end *)
(* of the test, by the main thread or of a roll-back.                      *)
Justified(m) ==
    /\ m = Shutdown("Error") =>
           Panicked' \/ timeLimit' = "expired" \/ RoundStartsWithout \/ drops'.status = "failed"
    /\ m = Shutdown("TestFinished") => ShutsDown \/ (pipe # <<>> /\ Head(pipe).kind = "restart")

(* What a step may do to the drop monitor by itself.                       *)
DropsMove ==
    /\ main' = main /\ drops.status = "listening"
    /\ drops'.expected = drops.expected /\ drops'.missing \subseteq drops.missing
    /\ \A c \in drops.missing : c \in drops'.missing \/ Sent(ParticipantDropped(c))
    /\ drops'.status = "ok" => drops'.missing = {} \/ Sent(Shutdown("Error"))

(* The contributors that a step of their waiters starts.                   *)
WaitersStart == {c \in DOMAIN StartAfter : WaiterStarts(c)}

(* What a step does to every part of the state.                            *)
Effects ==
    /\ PartsTyped' /\ EndsLast /\ StartOnly(Startable \cup WaitersStart)
    /\ log' = log \/ \E m \in CeremonyMessage : Appended(m) /\ Justified(m)
    /\ main' = main \/ (MainMoves /\ (MainStep \/ ReturnsError))
    /\ faults' = 0 => faults = 0 /\ NothingFails
    /\ timeLimit' = timeLimit \/ StartsCoordinator \/ timeLimit = "running"
    /\ drops' = drops \/ RoundBegins \/ DropsMove
    /\ GaveUp => GaveUp'
    /\ \/ pipe' = pipe
       \/ pipe # <<>> /\ pipe' = Tail(pipe)
       \/ \E line \in Setup!Line : CoordinatorSays(line)

(* The types of the parts are those the modules of the parts give them.    *)
LEMMA TypesOfParts == TypeOK => PartsTyped /\ log \in Seq(CeremonyMessage)
BY DEF TypeOK, PartsTyped, Setup!TypeOK, Setup!ReporterTypeOK

(* A Shutdown is a message, and its reason tells one from the other.       *)
LEMMA MessagesTyped ==
    Shutdown("Error") \in CeremonyMessage /\ Shutdown("TestFinished") \in CeremonyMessage
    /\ Shutdown("Error") # Shutdown("TestFinished")
BY DEF Shutdown, CeremonyMessage, ShutdownReasons

(* Every step of every thread has these effects and no others.             *)
LEMMA StepEffects ==
    ASSUME TypeOK, MainInv, [Next]_vars
    PROVE  Effects
<1>1. PartsTyped /\ log \in Seq(CeremonyMessage) /\ MaxFaults \in Nat /\ faults \in Nat
  BY TypesOfParts, TestAssumption DEF PartsTyped
<1>2. Processes!ProcessTypeOK /\ Drops!DropTypeOK /\ Waiters!WaiterTypeOK
  BY <1>1 DEF PartsTyped
<1>3. ASSUME NEW S, S \subseteq Startable \cup WaitersStart, StartOnly(S)
      PROVE  StartOnly(Startable \cup WaitersStart)
  BY <1>3 DEF StartOnly
<1>4. /\ UNCHANGED processVars => Processes!ProcessTypeOK' /\ EndsLast /\ NothingFails /\ StartOnly({})
      /\ UNCHANGED waiterVars => Waiters!WaiterTypeOK'
      /\ UNCHANGED drops => Drops!DropTypeOK'
      /\ UNCHANGED coord => Setup!CoordinatorTypeOK' /\ (GaveUp => GaveUp')
  <2>1. UNCHANGED processVars => Processes!ProcessTypeOK' /\ EndsLast /\ NothingFails /\ StartOnly({})
    BY <1>2 DEF processVars, Processes!ProcessTypeOK, EndsLast, NothingFails, StartOnly
  <2>2. UNCHANGED waiterVars => Waiters!WaiterTypeOK'
    BY <1>2 DEF waiterVars, Waiters!WaiterTypeOK
  <2>3. UNCHANGED drops => Drops!DropTypeOK'
    BY <1>2 DEF Drops!DropTypeOK
  <2>4. UNCHANGED coord => Setup!CoordinatorTypeOK' /\ (GaveUp => GaveUp')
    BY <1>1 DEF Setup!CoordinatorTypeOK, PartsTyped, GaveUp, Setup!RolledBack
  <2> QED
    BY <2>1, <2>2, <2>3, <2>4
<1>5. CASE UNCHANGED vars
  BY <1>1, <1>3, <1>4, <1>5 DEF vars, mainVars, coordinatorVars, PartsTyped, Effects, NothingFails
<1>6. CASE Alive /\ (MainStep \/ ReturnsError)
  <2>1. MainMoves /\ MainEffects
    BY <1>6, MainStepMoves, MainStepEffects
  <2>2. PartsTyped'
    BY <1>1, <1>4, <2>1 DEF MainEffects, PartsTyped, coordinatorVars
  <2>3. log' = log \/ \E m \in CeremonyMessage : Appended(m) /\ Justified(m)
    BY <2>1, MessagesTyped DEF MainEffects, Justified
  <2> QED
    BY <1>3, <1>4, <1>6, <2>1, <2>2, <2>3 DEF MainEffects, Effects, coordinatorVars
<1>7. CASE TimeLimitStep
  <2>1. /\ timeLimit = "running" /\ timeLimit' \in {"done", "expired"}
        /\ log' = log \/ (Appended(Shutdown("Error")) /\ timeLimit' = "expired")
        /\ UNCHANGED <<main, faults, processVars, coordinatorVars, drops, waiterVars>>
    BY <1>7 DEF TimeLimitStep, TimeLimitExpires, TimeLimitStops, Broadcast, Appended
  <2>2. log' = log \/ \E m \in CeremonyMessage : Appended(m) /\ Justified(m)
    BY <2>1, MessagesTyped DEF Justified
  <2>3. PartsTyped'
    BY <1>1, <1>4, <2>1 DEF PartsTyped, coordinatorVars
  <2> QED
    BY <1>3, <1>4, <2>1, <2>2, <2>3 DEF Effects, coordinatorVars
<1>8. CASE ReporterStep
  <2>1. /\ pipe # <<>> /\ pipe' = Tail(pipe)
        /\ reporter' \in [phase : Setup!CoordinatorStates, round : Nat]
        /\ log' = log \/ \E m \in CeremonyMessage : ReporterSays(m)
    BY <1>1, <1>8, ReporterMoves, TypesOfParts DEF TypeOK, Setup!TypeOK
  <2>2. UNCHANGED <<mainVars, faults, processVars, coord, drops, waiterVars>>
    BY <1>8 DEF ReporterStep
  <2>3. ASSUME NEW m \in CeremonyMessage, ReporterSays(m) PROVE Appended(m) /\ Justified(m)
    <3>1. /\ Shutdown("Error").type = "Shutdown" /\ Shutdown("Error").reason = "Error"
          /\ Shutdown("TestFinished").type = "Shutdown"
      BY DEF Shutdown
    <3>2. Appended(m) /\ (m.type = "Shutdown" => m.reason = "TestFinished" /\ Head(pipe).kind = "restart")
      BY <2>3 DEF ReporterSays
    <3>3. m # Shutdown("Error")
      BY <3>1, <3>2
    <3> QED
      BY <2>1, <3>1, <3>2, <3>3 DEF Justified
  <2>4. pipe' \in Seq(Setup!Line)
    BY <1>1, <2>1 DEF PartsTyped
  <2>5. PartsTyped'
    BY <1>1, <1>4, <2>1, <2>2, <2>4 DEF PartsTyped, mainVars
  <2> QED
    BY <1>3, <1>4, <2>1, <2>2, <2>3, <2>5 DEF Effects, mainVars
<1>9. CASE DropStep
  <2>1. /\ Drops!DropTypeOK' /\ drops.status = "listening"
        /\ drops'.expected = drops.expected /\ drops'.missing \subseteq drops.missing
        /\ \A c \in drops.missing : c \in drops'.missing \/ Sent(ParticipantDropped(c))
        /\ drops'.status = "ok" => drops'.missing = {} \/ Sent(Shutdown("Error"))
        /\ log' = log \/ (Appended(Shutdown("Error")) /\ drops'.status = "failed")
    BY <1>1, <1>2, <1>9, DropMoves DEF DropStep
  <2>2. UNCHANGED <<mainVars, faults, processVars, coordinatorVars, waiterVars>>
    BY <1>9 DEF DropStep
  <2>3. log' = log \/ \E m \in CeremonyMessage : Appended(m) /\ Justified(m)
    BY <2>1, MessagesTyped DEF Justified
  <2>4. DropsMove
    BY <2>1, <2>2 DEF DropsMove, mainVars
  <2>5. PartsTyped'
    BY <1>1, <1>4, <2>1, <2>2 DEF PartsTyped, mainVars, coordinatorVars
  <2> QED
    BY <1>3, <1>4, <2>2, <2>3, <2>4, <2>5 DEF Effects, mainVars, coordinatorVars
<1>10. ASSUME NEW p \in AllProcesses, ProcessStep(p) PROVE Effects
  <2>1. /\ Processes!ProcessTypeOK' /\ EndsLast /\ NothingFails /\ StartOnly({})
        /\ log' = log \/ (Appended(Shutdown("Error")) /\ Panicked')
    BY <1>1, <1>2, <1>10, ProcessMoves
  <2>2. UNCHANGED <<mainVars, faults, coordinatorVars, drops, waiterVars>>
    BY <1>10 DEF ProcessStep
  <2>3. log' = log \/ \E m \in CeremonyMessage : Appended(m) /\ Justified(m)
    BY <2>1, MessagesTyped DEF Justified
  <2>4. PartsTyped'
    BY <1>1, <1>4, <2>1, <2>2 DEF PartsTyped, mainVars, coordinatorVars
  <2> QED
    BY <1>3, <1>4, <2>1, <2>2, <2>3, <2>4 DEF Effects, mainVars, coordinatorVars
<1>11. ASSUME NEW c \in Contributors, ContributorStep(c) PROVE Effects
  <2>1. Processes!ProcessTypeOK' /\ EndsLast /\ NothingFails /\ StartOnly({}) /\ log' = log
    BY <1>1, <1>2, <1>11, CeremonyMoves
  <2>2. UNCHANGED <<mainVars, faults, coordinatorVars, drops, waiterVars>>
    BY <1>11 DEF ContributorStep
  <2>3. PartsTyped'
    BY <1>1, <1>4, <2>1, <2>2 DEF PartsTyped, mainVars, coordinatorVars
  <2> QED
    BY <1>3, <1>4, <2>1, <2>2, <2>3 DEF Effects, mainVars, coordinatorVars
<1>12. ASSUME NEW c \in DOMAIN StartAfter, WaiterStarts(c) \/ WaiterFails(c) PROVE Effects
  <2>1. /\ Waiters!WaiterTypeOK' /\ Processes!ProcessTypeOK'
        /\ EndsLast /\ NothingFails /\ StartOnly({c}) /\ log' = log
    BY <1>1, <1>2, <1>12, WaiterMoves
  <2>2. UNCHANGED <<mainVars, faults, coordinatorVars, drops>>
    BY <1>12 DEF WaiterStarts, WaiterFails
  <2>3. PartsTyped'
    BY <1>1, <1>4, <2>1, <2>2 DEF PartsTyped, mainVars, coordinatorVars
  <2>4. StartOnly(Startable \cup WaitersStart)
    <3>1. CASE WaiterStarts(c)
      BY <1>3, <2>1, <3>1 DEF WaitersStart
    <3>2. CASE WaiterFails(c)
      BY <1>3, <1>4, <3>2 DEF WaiterFails
    <3> QED
      BY <1>12, <3>1, <3>2
  <2> QED
    BY <1>4, <2>1, <2>2, <2>3, <2>4 DEF Effects, mainVars, coordinatorVars
<1>13. CASE ChildFault
  <2>1. /\ Processes!ProcessTypeOK' /\ EndsLast /\ StartOnly({})
        /\ log' = log \/ (Appended(Shutdown("Error")) /\ Panicked')
    BY <1>1, <1>2, <1>13, FaultMoves
  <2>2. /\ UNCHANGED <<mainVars, coordinatorVars, drops, waiterVars>>
        /\ faults < MaxFaults /\ faults' = faults + 1
    BY <1>13 DEF ChildFault, Fault
  <2>3. faults' \in 0 .. MaxFaults /\ faults' # 0
    BY <1>1, <2>2
  <2>4. log' = log \/ \E m \in CeremonyMessage : Appended(m) /\ Justified(m)
    BY <2>1, MessagesTyped DEF Justified
  <2>5. PartsTyped'
    BY <1>1, <1>4, <2>1, <2>2, <2>3 DEF PartsTyped, mainVars, coordinatorVars
  <2> QED
    BY <1>3, <1>4, <2>1, <2>2, <2>3, <2>4, <2>5 DEF Effects, mainVars, coordinatorVars
<1>14. CASE CoordinatorStep \/ CoordinatorDropsFaulty
  <2>1. /\ UNCHANGED <<log, reporter>>
        /\ \E line \in Setup!Line : CoordinatorSays(line)
        /\ Setup!CoordinatorTypeOK'
        /\ GaveUp => GaveUp'
    BY <1>14, CoordinatorMoves DEF TypeOK
  <2>2. UNCHANGED <<mainVars, processVars, drops, waiterVars>>
    BY <1>14 DEF CoordinatorStep, CoordinatorDropsFaulty
  <2>3. faults' \in 0 .. MaxFaults /\ (faults' = 0 => faults = 0)
    BY <1>1, <1>14 DEF CoordinatorStep, CoordinatorDropsFaulty, Fault, PartsTyped
  <2>4. pipe' \in Seq(Setup!Line)
    BY <1>1, <2>1 DEF PartsTyped, CoordinatorSays
  <2>5. PartsTyped'
    BY <1>1, <1>4, <2>1, <2>2, <2>3, <2>4 DEF PartsTyped, mainVars
  <2> QED
    BY <1>3, <1>4, <2>1, <2>2, <2>3, <2>5 DEF Effects, mainVars
<1> QED
  BY <1>5, <1>6, <1>7, <1>8, <1>9, <1>10, <1>11, <1>12, <1>13, <1>14 DEF Next, AllProcesses
--------------------------------------------------------------------------------
(* The types.                                                              *)

(* The log only grows, by one message at a time.                           *)
LEMMA LogGrows ==
    ASSUME log \in Seq(CeremonyMessage), Effects
    PROVE  /\ log' \in Seq(CeremonyMessage)
           /\ Len(log) \in Nat /\ Len(log') \in Nat /\ Len(log) <= Len(log')
           /\ \A k \in 1 .. Len(log) : log'[k] = log[k]
           /\ \A m : Sent(m) => Sent(m)'
           /\ \A m : Sent(m)' => Sent(m) \/ (Justified(m) /\ Appended(m))
<1>1. CASE log' = log
  BY <1>1 DEF Sent
<1>2. CASE \E m \in CeremonyMessage : Appended(m) /\ Justified(m)
  <2>1. PICK m \in CeremonyMessage : Appended(m) /\ Justified(m)
    BY <1>2
  <2>2. /\ log' \in Seq(CeremonyMessage) /\ Len(log) \in Nat /\ Len(log') = Len(log) + 1
        /\ \A k \in 1 .. Len(log) : log'[k] = log[k]
        /\ log'[Len(log) + 1] = m
    BY <2>1 DEF Appended
  <2>3. ASSUME NEW n, Sent(n) PROVE Sent(n)'
    BY <2>2, <2>3 DEF Sent
  <2>4. ASSUME NEW n, Sent(n)' PROVE Sent(n) \/ n = m
    <3>1. PICK k \in 1 .. Len(log') : log'[k] = n
      BY <2>4 DEF Sent
    <3>2. k \in 1 .. Len(log) \/ k = Len(log) + 1
      BY <2>2
    <3> QED
      BY <2>2, <3>1, <3>2 DEF Sent
  <2> QED
    BY <2>1, <2>2, <2>3, <2>4
<1> QED
  BY <1>1, <1>2 DEF Effects

(* The type invariant, and the shape of the state of the main thread, are  *)
(* inductive together.                                                     *)
LEMMA TypeStep ==
    ASSUME TypeOK, MainInv, [Next]_vars
    PROVE  TypeOK' /\ MainInv'
<1>1. Effects /\ log \in Seq(CeremonyMessage)
  BY StepEffects, TypesOfParts
<1>2. log' \in Seq(CeremonyMessage) /\ Len(log) \in Nat /\ Len(log') \in Nat /\ Len(log) <= Len(log')
  BY <1>1, LogGrows
<1>3. MainInv' /\ main'.rx \in 0 .. Len(log)
  BY <1>1 DEF Effects, MainMoves, MainInv, MainShape, TypeOK
<1>4. /\ main'.pc \in MainPoints /\ main'.round \in 0 .. Rounds /\ main'.rx \in 0 .. Len(log')
      /\ main'.todo \in Seq(Processes!Processes) /\ main'.errors \in BOOLEAN
  BY <1>2, <1>3 DEF MainInv, AllProcesses
<1>5. PartsTyped'
  BY <1>1 DEF Effects
<1>6. Setup!TypeOK'
  BY <1>2, <1>5 DEF PartsTyped, Setup!TypeOK, Setup!ReporterTypeOK, Setup!CeremonyMessage,
     CeremonyMessage, Setup!RoundMessageTypes, RoundMessageTypes, Setup!Participants, Participants,
     Setup!ShutdownReasons, ShutdownReasons
<1>7. TypeOK'
  BY <1>2, <1>4, <1>5, <1>6 DEF TypeOK, PartsTyped
<1> QED
  BY <1>3, <1>7

(* And they hold to begin with.                                            *)
LEMMA TypeInit ==
    ASSUME Init
    PROVE  TypeOK /\ MainInv
<1>1. /\ main = [pc |-> "begin", round |-> 0, todo |-> <<>>, rx |-> 0, errors |-> FALSE]
      /\ log = <<>>
  BY DEF Init
<1>2. Rounds \in Nat /\ MaxFaults \in Nat /\ Chunks \in Nat
  BY Lists, TestAssumption
<1>3. MainInv
  BY <1>1, <1>2, EmptyList DEF MainInv, MainShape, MainPoints, BeforeRounds, InRound, AfterRounds,
     StartingPoints, JoiningPoints, TodoAt
<1>4. Processes!ProcessTypeOK
  BY DEF Init, Processes!ProcessInit, Processes!ProcessTypeOK, Processes!ChildStates,
         Processes!MessagesStates, Processes!CeremonyStates
<1>5. Setup!TypeOK
  <2>1. Setup!CoordinatorTypeOK
    BY <1>2, TestAssumption DEF Init, Setup!CoordinatorInit, Setup!CoordinatorTypeOK,
       Setup!CoordinatorPhases
  <2>2. Setup!ReporterTypeOK
    BY DEF Init, Setup!ReporterTypeOK, Setup!CoordinatorStates
  <2> QED
    BY <2>1, <2>2 DEF Setup!TypeOK
<1>6. Drops!DropTypeOK
  BY DEF Init, Drops!DropInit, Drops!DropTypeOK, Drops!DropStatus
<1>7. Waiters!WaiterTypeOK
  BY DEF Init, Waiters!WaiterInit, Waiters!WaiterTypeOK
<1>8. TypeOK
  <2>1. timeLimit = "off" /\ faults = 0 /\ 0 \in 0 .. MaxFaults /\ 0 \in 0 .. Len(log)
    BY <1>1, <1>2 DEF Init
  <2> QED
    BY <1>1, <1>3, <1>4, <1>5, <1>6, <1>7, <2>1 DEF TypeOK, MainInv, AllProcesses
<1> QED
  BY <1>3, <1>8

(* The variables of a test keep their types, and the main thread its shape. *)
THEOREM IntegrationTypeCorrect == Spec => [](TypeOK /\ MainInv)
<1>1. Init => TypeOK /\ MainInv
  BY TypeInit
<1>2. TypeOK /\ MainInv /\ [Next]_vars => (TypeOK /\ MainInv)'
  BY TypeStep
<1> QED
  BY <1>1, <1>2, PTL DEF Spec
--------------------------------------------------------------------------------
(* Joins.                                                                  *)

(* What the main thread does at a point.                                   *)
LEMMA ActionAt ==
    ASSUME MainStep \/ ReturnsError
    PROVE  /\ At("begin") => StartsCoordinator \/ ReturnsError
           /\ At("round") => RoundBegins \/ ShutsDown
           /\ At("await_start") => RoundStarts \/ RoundStartsWithout
           /\ At("await_end") => RoundEnds
           /\ At("join_contributors") \/ At("join_processes") => JoinsProcess
           /\ At("join_later") => JoinsLater \/ JoinsDrops \/ ReturnsError
           /\ At("join_limit") => JoinsTimeLimit
BY DEF MainStep, ReturnsError, At, StartsCoordinator, StartsProcess, CoordinatorReady, RoundBegins,
       SpawnsWaiters, RoundStarts, RoundStartsWithout, RoundEnds, JoinsProcess, JoinsLater,
       JoinsWaiter, JoinsDrops, ShutsDown, JoinsTimeLimit, StartingPoints, JoiningPoints

(* Well joined is for ever.                                                *)
LEMMA JoinedStays ==
    ASSUME EndsLast, NEW p \in AllProcesses, JoinedWell(p)
    PROVE  JoinedWell(p)'
BY DEF EndsLast, JoinedWell, Processes!Ended

(* A join without an error takes a process off the list, and it is well    *)
(* joined.                                                                 *)
LEMMA JoinsOne ==
    ASSUME TypeOK, MainInv, JoinsProcess, main'.pc # "panicked"
    PROVE  \E p \in AllProcesses :
              /\ JoinedWell(p)
              /\ \A q \in ToSet(main.todo) : q = p \/ q \in ToSet(Front(main.todo))
              /\ \/ Front(main.todo) # <<>> /\ main'.pc = main.pc /\ main'.todo = Front(main.todo)
                 \/ ToSet(main.todo) \subseteq {p} /\ main'.pc # main.pc
<1> DEFINE p == Last(main.todo)
           rest == Front(main.todo)
           next == AfterJoining(main.pc, rest)
           then == IF next = "join_later" THEN Joining[main.round] ELSE rest
<1>1. /\ main.pc \in JoiningPoints /\ main.todo # <<>> /\ main.todo \in Seq(AllProcesses)
      /\ main \in [pc : MainPoints, round : 0 .. Rounds, todo : Seq(AllProcesses),
                   rx : Nat, errors : BOOLEAN]
  BY DEF JoinsProcess, MainInv, MainShape
<1>2. /\ p \in AllProcesses /\ \A q \in ToSet(main.todo) : q = p \/ q \in ToSet(rest)
  BY <1>1, SequenceParts
<1>3. JoinReturns(p) /\ ~ Processes!JoinFails(p) /\ GotoWith(next, then)
  <2>1. ~ Goto("panicked")
    BY <1>1 DEF Goto
  <2> QED
    BY <2>1 DEF JoinsProcess
<1>4. JoinedWell(p)
  <2>1. monitor[p] \in {"reading", "panicked"}
    BY <1>2 DEF TypeOK, Processes!ProcessTypeOK, AllProcesses
  <2> HIDE DEF p
  <2> QED
    BY <1>3, <2>1 DEF JoinReturns, Processes!JoinReturns, Processes!JoinFails, JoinedWell
<1>5. main'.pc = next /\ main'.todo = then
  BY <1>1, <1>3 DEF GotoWith
<1>6. CASE rest # <<>>
  BY <1>1, <1>2, <1>4, <1>5, <1>6, Continuations DEF JoiningPoints
<1>7. CASE rest = <<>>
  BY <1>1, <1>2, <1>4, <1>5, <1>7, Continuations, EmptyList DEF JoiningPoints
<1> QED
  BY <1>6, <1>7

(* Whoever the main thread has joined without an error is gone for good.   *)
LEMMA JoinedStep ==
    ASSUME TypeOK, MainInv, JoinedInv, Alive, [Next]_vars
    PROVE  JoinedInv'
<1>1. Effects
  BY StepEffects
<1>2. /\ main.pc \in MainPoints /\ main.round \in 0 .. Rounds /\ Rounds \in Nat
      /\ main.todo \in Seq(AllProcesses) /\ MainShape(main.pc, main.round, main.todo)
      /\ \A r \in 1 .. Rounds : ToSet(Starting[r]) \subseteq AllProcesses
      /\ ToSet(Started) \subseteq AllProcesses
      /\ At("join_contributors") => main.round \in 1 .. Rounds
  BY Lists, SequenceElements DEF MainInv, MainShape, At, InRound
<1>3. \A p \in AllProcesses : JoinedWell(p) => JoinedWell(p)'
  BY <1>1, JoinedStays DEF Effects
<1>4. CASE main' = main
  BY <1>2, <1>3, <1>4 DEF JoinedInv, RoundJoined, At
<1>5. CASE MainMoves /\ (MainStep \/ ReturnsError)
  <2>1. /\ <<main.pc, main'.pc>> \in Edges \/ main'.pc \in {"error", "panicked"}
        /\ main'.round = main.round \/ (RoundBegins /\ main'.round = main.round + 1)
    BY <1>5 DEF MainMoves
  <2>2. RoundBegins => main.pc = "round"
    BY DEF RoundBegins, At
  <2>3. ASSUME NEW r \in 1 .. Rounds, RoundJoined(r) PROVE \A c \in ToSet(Starting[r]) : JoinedWell(c)'
    BY <1>2, <1>3, <2>3 DEF JoinedInv
  <2>4. CASE main.pc = "await_end"
    <3>1. RoundEnds /\ main.round \in 1 .. Rounds
      BY <1>2, <1>5, <2>4, ActionAt DEF At, MainShape, InRound
    <3>2. \/ /\ Starting[main.round] = <<>> /\ main'.pc = "join_later"
          \/ /\ main'.pc = "join_contributors" /\ main'.todo = Starting[main.round]
      BY <3>1 DEF RoundEnds, GotoWith, MainInv
    <3>3. main'.round = main.round
      BY <2>1, <2>2, <2>4
    <3> QED
      BY <1>2, <2>3, <2>4, <3>1, <3>2, <3>3, EmptyList DEF JoinedInv, RoundJoined, At,
         ContributorsJoined, AfterRounds
  <2>5. CASE main.pc \in JoiningPoints /\ main'.pc # "panicked"
    <3>1. JoinsProcess
      BY <1>5, <2>5, ActionAt DEF At, JoiningPoints
    <3>2. PICK p \in AllProcesses :
              /\ JoinedWell(p)
              /\ \A q \in ToSet(main.todo) : q = p \/ q \in ToSet(Front(main.todo))
              /\ \/ Front(main.todo) # <<>> /\ main'.pc = main.pc /\ main'.todo = Front(main.todo)
                 \/ ToSet(main.todo) \subseteq {p} /\ main'.pc # main.pc
      BY <2>5, <3>1, JoinsOne
    <3>3. main'.round = main.round /\ <<main.pc, main'.pc>> \in Edges /\ main'.pc # "error"
      BY <2>1, <2>2, <2>5, <3>1 DEF JoiningPoints, JoinsProcess, Goto, GotoWith, MainInv, AfterJoining
    <3>4. CASE main.pc = "join_contributors"
      BY <1>2, <1>3, <2>3, <3>2, <3>3, <3>4 DEF JoinedInv, RoundJoined, At, Edges, MainShape,
         ContributorsJoined, AfterRounds, InRound
    <3>5. CASE main.pc = "join_processes"
      BY <1>2, <1>3, <2>3, <3>2, <3>3, <3>5 DEF JoinedInv, RoundJoined, At, Edges,
         ContributorsJoined, AfterRounds
    <3> QED
      BY <2>5, <3>4, <3>5 DEF JoiningPoints
  <2>6. CASE main.pc = "round"
    <3>1. CASE RoundBegins
      <4>1. main'.pc \in {"contributors", "waiters"} /\ main'.round = main.round + 1
        BY <1>2, <3>1, Continuations DEF RoundBegins, MainInv
      <4>2. ASSUME NEW r \in 1 .. Rounds, RoundJoined(r)' PROVE RoundJoined(r)
        BY <1>2, <2>6, <4>1, <4>2 DEF RoundJoined, ContributorsJoined, AfterRounds
      <4> QED
        BY <2>3, <4>1, <4>2 DEF JoinedInv, At
    <3>2. CASE ShutsDown
      <4>1. main'.pc = "join_processes" /\ main'.todo = Started /\ main'.round = main.round
        BY <3>2 DEF ShutsDown, GotoWith, MainInv
      <4> QED
        BY <1>2, <2>3, <2>6, <4>1 DEF JoinedInv, RoundJoined, At, ContributorsJoined, AfterRounds
    <3> QED
      BY <1>5, <2>6, <3>1, <3>2, ActionAt DEF At
  <2>7. CASE main'.pc \in {"error", "panicked"}
    BY <1>2, <2>1, <2>2, <2>3, <2>6, <2>7 DEF JoinedInv, RoundJoined, At, ContributorsJoined, AfterRounds
  <2>8. CASE /\ main.pc \notin {"await_end", "round"} \cup JoiningPoints
             /\ main'.pc \notin {"error", "panicked"}
    <3>1. main'.round = main.round /\ <<main.pc, main'.pc>> \in Edges
      BY <2>1, <2>2, <2>8
    <3>2. ASSUME NEW r \in 1 .. Rounds, RoundJoined(r)' PROVE RoundJoined(r)
      BY <1>2, <2>8, <3>1, <3>2 DEF RoundJoined, Edges, ContributorsJoined, AfterRounds, MainShape,
         BeforeRounds, JoiningPoints
    <3>3. ~ At("join_contributors")' /\ ~ At("join_processes")'
      BY <2>8, <3>1 DEF At, Edges, JoiningPoints
    <3>4. main'.pc \in {"join_limit", "ok"} => \A p \in ToSet(Started) : JoinedWell(p)'
      BY <1>2, <1>3, <2>8, <3>1 DEF JoinedInv, Edges, JoiningPoints
    <3> QED
      BY <2>3, <3>2, <3>3, <3>4 DEF JoinedInv
  <2> QED
    BY <2>4, <2>5, <2>6, <2>7, <2>8
<1> QED
  BY <1>1, <1>4, <1>5 DEF Effects

(* To begin with nothing is joined.                                        *)
LEMMA JoinedInit == ASSUME Init PROVE JoinedInv
<1>1. main.pc = "begin" /\ main.round = 0 /\ Rounds \in Nat
  BY Lists DEF Init
<1> QED
  BY <1>1 DEF JoinedInv, RoundJoined, At, ContributorsJoined, AfterRounds

(* JoinedInv holds throughout: what the main thread has joined without an  *)
(* error has ended, with its threads.                                      *)
THEOREM JoinedCorrect == Spec => []JoinedInv
<1>1. Init => JoinedInv
  BY JoinedInit
<1>2. TypeOK /\ MainInv /\ JoinedInv /\ [Next]_vars => JoinedInv'
  <2> SUFFICES ASSUME TypeOK, MainInv, JoinedInv, [Next]_vars PROVE JoinedInv'
    OBVIOUS
  <2>1. CASE Next
    BY <2>1, JoinedStep DEF Next
  <2>2. CASE UNCHANGED vars
    BY <2>2 DEF vars, mainVars, processVars, JoinedInv, RoundJoined, At, JoinedWell,
                Processes!Ended
  <2> QED
    BY <2>1, <2>2
<1> QED
  BY <1>1, <1>2, IntegrationTypeCorrect, PTL DEF Spec

(* RoundsDoNotOverlap: when the main thread goes on to a round, every      *)
(* contributor that was started with a round before it has ended.          *)
THEOREM RoundsApart == Spec => RoundsDoNotOverlap
<1>1. TypeOK /\ MainInv /\ JoinedInv /\ [Next]_vars =>
          [main'.round # main.round =>
              \A r \in 1 .. main.round : \A c \in ToSet(Starting[r]) : Processes!Ended(c)]_vars
  <2> SUFFICES ASSUME TypeOK, MainInv, JoinedInv, [Next]_vars, main'.round # main.round,
                      NEW r \in 1 .. main.round, NEW c \in ToSet(Starting[r])
               PROVE  Processes!Ended(c)
    OBVIOUS
  <2>1. RoundBegins
    BY StepEffects DEF Effects, MainMoves
  <2>2. main.round \in 0 .. Rounds /\ Rounds \in Nat
    BY Lists DEF MainInv
  <2>3. r \in 1 .. Rounds /\ RoundJoined(r)
    BY <2>1, <2>2 DEF RoundBegins, At, RoundJoined, ContributorsJoined
  <2> QED
    BY <2>3 DEF JoinedInv, JoinedWell
<1> QED
  BY <1>1, IntegrationTypeCorrect, JoinedCorrect, PTL DEF Spec, RoundsDoNotOverlap

(* OkLeavesNothing: a test that returns Ok has ended everything it started, *)
(* but for the contributors of the middle of a round.                      *)
THEOREM NothingLeft == Spec => []OkLeavesNothing
<1>1. TypeOK /\ MainInv /\ JoinedInv => OkLeavesNothing
  <2> SUFFICES ASSUME TypeOK, MainInv, JoinedInv, At("ok"),
                      NEW p \in AllProcesses \ DOMAIN StartAfter
               PROVE  Processes!Ended(p)
    BY DEF OkLeavesNothing, AllProcesses
  <2>1. main.round = Rounds /\ Rounds \in Nat
    BY Lists DEF MainInv, MainShape, AfterRounds, At
  <2>2. p \in ToSet(Started) \/ \E r \in 1 .. Rounds : p \in ToSet(Starting[r])
    BY Lists, KindsAssumption
  <2>3. \A r \in 1 .. Rounds : RoundJoined(r)
    BY <2>1 DEF RoundJoined, At, ContributorsJoined, AfterRounds
  <2> QED
    BY <2>2, <2>3 DEF JoinedInv, JoinedWell, At
<1> QED
  BY <1>1, IntegrationTypeCorrect, JoinedCorrect, PTL
--------------------------------------------------------------------------------
(* Errors.                                                                 *)

(* A thread that has panicked has panicked for good.                       *)
LEMMA PanickedStays == ASSUME EndsLast, Panicked PROVE Panicked'
BY DEF EndsLast, Panicked

(* Without a fault nothing fails.                                          *)
LEMMA FaultStep ==
    ASSUME TypeOK, MainInv, FaultInv, [Next]_vars
    PROVE  FaultInv'
<1>1. faults' = 0 => faults = 0 /\ NothingFails
  BY StepEffects DEF Effects
<1>2. /\ monitor' \in [AllProcesses -> {"reading", "panicked"}]
      /\ child' \in [AllProcesses -> Processes!ChildStates]
  BY TypeStep DEF TypeOK, Processes!ProcessTypeOK, AllProcesses
<1> QED
  BY <1>1, <1>2 DEF FaultInv, NothingFails

(* FaultInv holds throughout: a process fails, or a thread that watches it *)
(* panics, only after a fault.                                             *)
THEOREM FaultCorrect == Spec => []FaultInv
<1>1. Init => FaultInv
  BY DEF Init, Processes!ProcessInit, FaultInv, AllProcesses
<1>2. TypeOK /\ MainInv /\ FaultInv /\ [Next]_vars => FaultInv'
  BY FaultStep
<1> QED
  BY <1>1, <1>2, IntegrationTypeCorrect, PTL DEF Spec

(* An error that was announced is still there to be found: in a thread, in *)
(* the verdict of the drop monitor, in round_errors or in the time limit.  *)
LEMMA ErrorStep ==
    ASSUME TypeOK, MainInv, ErrorInv, Alive, [Next]_vars
    PROVE  ErrorInv'
<1>1. Effects /\ MainInv' /\ drops' \in [status : Drops!DropStatus, since : Nat, rx : Nat,
                         expected : SUBSET Contributors, missing : SUBSET Contributors]
  BY StepEffects, TypeStep DEF TypeOK, Drops!DropTypeOK
<1>2. /\ log \in Seq(CeremonyMessage) /\ main.pc \in MainPoints /\ main.round \in 0 .. Rounds
      /\ timeLimit \in {"off", "running", "done", "expired"}
      /\ main.errors \in BOOLEAN
  BY TypesOfParts DEF MainInv, PartsTyped
<1>3. Panicked => Panicked'
  BY <1>1, PanickedStays DEF Effects
<1>4. \A m : Sent(m)' => Sent(m) \/ (Justified(m) /\ Appended(m))
  BY <1>1, <1>2, LogGrows
<1>5. /\ StartsCoordinator => main.pc = "begin" /\ main'.pc \in {"services", "ready"}
      /\ RoundBegins => main'.round = main.round + 1
      /\ RoundStartsWithout => main.pc = "await_start" /\ main'.pc = "await_end"
  <2>1. StartsCoordinator => main.pc = "begin" /\ main'.pc \in {"services", "ready"}
    BY Continuations DEF StartsCoordinator, GotoWith, At, MainInv
  <2>2. RoundBegins => main'.round = main.round + 1
    BY DEF RoundBegins, MainInv
  <2>3. RoundStartsWithout => main.pc = "await_start" /\ main'.pc = "await_end"
    BY DEF RoundStartsWithout, MainInv, At
  <2> QED
    BY <2>1, <2>2, <2>3
<1>6. CASE main' = main
  <2>1. timeLimit' = timeLimit \/ timeLimit = "running"
    <3>1. ~ StartsCoordinator \/ timeLimit' = timeLimit
      BY <1>5, <1>6
    <3> QED
      BY <1>1, <3>1 DEF Effects
  <2>2. drops' = drops \/ DropsMove
    <3>1. ~ RoundBegins
      BY <1>2, <1>5, <1>6, Lists
    <3> QED
      BY <1>1, <3>1 DEF Effects
  <2>3. ~ RoundStartsWithout
    BY <1>5, <1>6
  <2>4. drops' = drops \/ drops.status = "listening"
    BY <2>2 DEF DropsMove
  <2>5. Sent(Shutdown("Error"))' =>
            Panicked' \/ timeLimit' = "expired" \/ main'.errors \/ drops'.status = "failed"
    BY <1>3, <1>4, <1>6, <2>1, <2>3, <2>4 DEF ErrorInv, Justified
  <2>6. main'.pc \in NothingPending => drops'.status \in {"none", "ok"}
    BY <1>6, <2>4 DEF ErrorInv
  <2>7. ~ (main'.pc = "ok")
    BY <1>6 DEF Alive, Over
  <2>8. main'.pc = "begin" => timeLimit' = "off"
    BY <1>6, <2>1 DEF ErrorInv, At
  <2> QED
    BY <1>6, <2>5, <2>6, <2>7, <2>8 DEF ErrorInv, At
<1>7. CASE MainMoves /\ (MainStep \/ ReturnsError)
  <2>1. /\ <<main.pc, main'.pc>> \in Edges \/ main'.pc \in {"error", "panicked"}
        /\ main'.errors = main.errors \/ (RoundStartsWithout /\ main'.errors)
        /\ MainEffects
    BY <1>7, MainStepEffects DEF MainMoves
  <2>2. timeLimit' = timeLimit \/ timeLimit = "off"
    BY <2>1 DEF MainEffects, ErrorInv, StartsCoordinator, At
  <2>3. drops' = drops \/ (RoundBegins /\ drops.status \in {"none", "ok"})
    BY <2>1 DEF MainEffects, ErrorInv, RoundBegins, At, NothingPending
  <2>4. RoundStartsWithout => main'.errors /\ main'.pc = "await_end"
    BY <1>2 DEF RoundStartsWithout, MainInv
  <2>5. main.errors => main'.errors
    BY <2>1
  <2>6. Sent(Shutdown("Error"))' =>
            Panicked' \/ timeLimit' = "expired" \/ main'.errors \/ drops'.status = "failed"
    BY <1>3, <1>4, <2>2, <2>3, <2>4, <2>5 DEF ErrorInv, Justified
  <2>7. main'.errors => main'.pc \in ErrorsKept
    <3>1. CASE main'.errors = main.errors /\ main.errors
      <4>1. main.pc \in ErrorsKept /\ main.pc \notin {"error", "panicked"}
        BY <3>1 DEF ErrorInv, Alive, Over
      <4>2. <<main.pc, main'.pc>> \in Edges /\ main'.pc \notin ErrorsKept => main.pc = "join_later" /\ main'.pc = "round"
        BY <4>1 DEF Edges, ErrorsKept
      <4>3. ~ (main.pc = "join_later" /\ main'.pc = "round")
        <5> SUFFICES ASSUME main.pc = "join_later", main'.pc = "round" PROVE FALSE
          OBVIOUS
        <5>1. JoinsDrops
          BY <1>7, ActionAt DEF At, JoinsLater, ReturnsError, Goto, MainInv
        <5> QED
          BY <3>1, <5>1 DEF JoinsDrops, Goto, MainInv
      <4> QED
        BY <2>1, <4>2, <4>3 DEF ErrorsKept
    <3>2. CASE RoundStartsWithout
      BY <2>4, <3>2 DEF ErrorsKept
    <3> QED
      BY <2>1, <3>1, <3>2
  <2>8. main'.pc \in NothingPending => drops'.status \in {"none", "ok"}
    <3> SUFFICES ASSUME main'.pc \in NothingPending PROVE drops'.status \in {"none", "ok"}
      OBVIOUS
    <3>1. <<main.pc, main'.pc>> \in Edges /\ ~ RoundBegins
      <4>1. RoundBegins => main'.pc \in {"contributors", "waiters"}
        BY <1>2, Lists, Continuations DEF RoundBegins, MainInv
      <4> QED
        BY <2>1, <4>1 DEF NothingPending, AfterRounds
    <3>2. CASE main.pc \in NothingPending
      BY <2>3, <3>1, <3>2 DEF ErrorInv
    <3>3. CASE main.pc = "join_later" /\ main'.pc = "round"
      <4>1. JoinsDrops
        BY <1>7, <3>3, ActionAt DEF At, JoinsLater, ReturnsError, Goto, MainInv
      <4> QED
        BY <1>2, <3>3, <4>1 DEF JoinsDrops, Goto, MainInv
    <3> QED
      BY <3>1, <3>2, <3>3 DEF Edges, NothingPending, AfterRounds
  <2>9. main'.pc = "ok" => timeLimit' # "expired"
    <3> SUFFICES ASSUME main'.pc = "ok" PROVE timeLimit' # "expired"
      OBVIOUS
    <3>1. JoinsTimeLimit
      BY <1>7, <2>1, ActionAt DEF Edges, At
    <3> QED
      BY <1>2, <3>1 DEF JoinsTimeLimit, Goto, MainInv
  <2>10. main'.pc # "begin"
    BY <2>1 DEF Edges
  <2> QED
    BY <2>6, <2>7, <2>8, <2>9, <2>10 DEF ErrorInv, At
<1> QED
  BY <1>1, <1>7, <1>6 DEF Effects

(* ErrorInv holds throughout: of an error that was announced something is  *)
(* left for the main thread to find.                                       *)
THEOREM ErrorCorrect == Spec => []ErrorInv
<1>1. Init => ErrorInv
  BY DEF Init, ErrorInv, Sent, At, Drops!DropInit
<1>2. TypeOK /\ MainInv /\ ErrorInv /\ [Next]_vars => ErrorInv'
  <2> SUFFICES ASSUME TypeOK, MainInv, ErrorInv, [Next]_vars PROVE ErrorInv'
    OBVIOUS
  <2>1. CASE Next
    BY <2>1, ErrorStep DEF Next
  <2>2. CASE UNCHANGED vars
    BY <2>2 DEF vars, mainVars, processVars, ErrorInv, At, Sent, Panicked
  <2> QED
    BY <2>1, <2>2
<1> QED
  BY <1>1, <1>2, IntegrationTypeCorrect, PTL DEF Spec

(* A test that returns Ok after an error was announced has a contributor of *)
(* the middle of a round to thank for it, which nobody has joined.         *)
THEOREM ErrorReaches == Spec => []ErrorReached
<1>1. TypeOK /\ MainInv /\ JoinedInv /\ ErrorInv => ErrorReached
  <2> SUFFICES ASSUME TypeOK, MainInv, JoinedInv, ErrorInv, Passing, Sent(Shutdown("Error"))
               PROVE  \E c \in DOMAIN StartAfter : messages[c] = "panicked" \/ monitor[c] = "panicked"
    BY DEF ErrorReached
  <2>1. main.round = Rounds /\ Rounds \in Nat
    BY Lists DEF MainInv, MainShape, AfterRounds, At, Passing
  <2>2. Panicked
    BY DEF ErrorInv, At, ErrorsKept, NothingPending, AfterRounds, Passing
  <2>3. PICK p \in AllProcesses : messages[p] = "panicked" \/ monitor[p] = "panicked"
    BY <2>2 DEF Panicked
  <2>4. \A r \in 1 .. Rounds : RoundJoined(r)
    BY <2>1 DEF RoundJoined, At, ContributorsJoined, AfterRounds, Passing
  <2>5. ~ JoinedWell(p)
    BY <2>3 DEF JoinedWell
  <2>6. p \notin ToSet(Started) /\ \A r \in 1 .. Rounds : p \notin ToSet(Starting[r])
    BY <2>4, <2>5 DEF JoinedInv, At, Passing
  <2> QED
    BY <2>3, <2>6, Lists, KindsAssumption
<1> QED
  BY <1>1, IntegrationTypeCorrect, JoinedCorrect, ErrorCorrect, PTL

(* Nothing of a contributor that starts in the middle of a round escapes   *)
(* the main thread if there is none, or if nothing goes wrong by itself.   *)
LEMMA ErrorFree ==
    ASSUME DOMAIN StartAfter = {} \/ MaxFaults = 0, TypeOK, FaultInv, ErrorReached, Passing
    PROVE  ~ Sent(Shutdown("Error"))
<1>1. MaxFaults = 0 => faults = 0
  BY DEF TypeOK
<1>2. DOMAIN StartAfter \subseteq AllProcesses
  BY Lists, KindsAssumption
<1> QED
  BY <1>1, <1>2 DEF FaultInv, ErrorReached

(* NoErrorHidden: a test that returns Ok hides no error, if no contributor *)
(* starts in the middle of a round, or if nothing goes wrong by itself.    *)
THEOREM ErrorsShow ==
    ASSUME DOMAIN StartAfter = {} \/ MaxFaults = 0
    PROVE  Spec => []NoErrorHidden
<1>1. TypeOK /\ FaultInv /\ ErrorReached => NoErrorHidden
  BY ErrorFree DEF NoErrorHidden, Passing
<1> QED
  BY <1>1, IntegrationTypeCorrect, FaultCorrect, ErrorReaches, PTL
--------------------------------------------------------------------------------
(* Drops.                                                                  *)

(* The drops the drop monitor has taken off its list were announced, and a *)
(* round is left only when its list is empty, or after an error.           *)
LEMMA DropsStep ==
    ASSUME TypeOK, MainInv, DropsInv, [Next]_vars
    PROVE  DropsInv'
<1>1. Effects
  BY StepEffects
<1>2. /\ log \in Seq(CeremonyMessage) /\ main.pc \in MainPoints /\ main.round \in 0 .. Rounds
      /\ Rounds \in Nat /\ MainShape(main.pc, main.round, main.todo)
  BY TypesOfParts, Lists DEF MainInv
<1>3. \A m : Sent(m) => Sent(m)'
  BY <1>1, <1>2, LogGrows
<1>4. RoundBegins =>
          /\ main.pc = "round" /\ main'.round = main.round + 1
          /\ main'.pc \in {"contributors", "waiters"}
          /\ drops'.status = "listening"
          /\ drops'.expected = RoundDrops(main.round + 1)
          /\ drops'.missing = RoundDrops(main.round + 1)
  <2>1. RoundBegins => main.pc = "round" /\ main'.round = main.round + 1
    BY DEF RoundBegins, MainInv, At
  <2>2. RoundBegins => main'.pc \in {"contributors", "waiters"}
    BY <1>2, Continuations DEF RoundBegins, MainInv
  <2>3. RoundBegins =>
          /\ drops'.status = "listening"
          /\ drops'.expected = RoundDrops(main.round + 1)
          /\ drops'.missing = RoundDrops(main.round + 1)
    BY DEF RoundBegins, Drops!MonitorDrops
  <2> QED
    BY <2>1, <2>2, <2>3
<1>5. CASE main' = main
  <2>1. drops' = drops \/ DropsMove
    BY <1>1, <1>2, <1>4, <1>5 DEF Effects
  <2>2. \A r \in 1 .. Rounds : RoundChecked(r)' => RoundChecked(r)
    BY <1>5 DEF RoundChecked
  <2>3. \A r \in 1 .. Rounds : RoundChecked(r)' =>
            Sent(Shutdown("Error"))' \/ \A c \in RoundDrops(r) : Sent(ParticipantDropped(c))'
    BY <1>3, <2>2 DEF DropsInv
  <2>4. CASE drops' = drops
    BY <1>3, <1>5, <2>3, <2>4 DEF DropsInv
  <2>5. CASE DropsMove
    BY <1>3, <1>5, <2>3, <2>5 DEF DropsInv, DropsMove
  <2> QED
    BY <2>1, <2>4, <2>5
<1>6. CASE MainMoves /\ (MainStep \/ ReturnsError)
  <2>1. /\ <<main.pc, main'.pc>> \in Edges \/ main'.pc \in {"error", "panicked"}
        /\ main'.round = main.round \/ (RoundBegins /\ main'.round = main.round + 1)
    BY <1>6 DEF MainMoves
  <2>2. CASE RoundBegins
    <3>1. main'.round \in 1 .. Rounds
      BY <1>2, <1>4, <2>2 DEF RoundBegins
    <3>2. \A r \in 1 .. Rounds : RoundChecked(r)' => RoundChecked(r)
      BY <1>2, <1>4, <2>2 DEF RoundChecked, AfterRounds
    <3> QED
      BY <1>3, <1>4, <2>2, <3>1, <3>2 DEF DropsInv
  <2>3. CASE ~ RoundBegins
    <3>1. drops' = drops /\ main'.round = main.round
      BY <2>1, <2>3, <1>6, MainStepEffects DEF MainEffects, MainStep, ReturnsError, RoundBegins,
         StartsCoordinator, StartsProcess, CoordinatorReady, SpawnsWaiters, RoundStarts,
         RoundStartsWithout, RoundEnds, JoinsProcess, JoinsLater, JoinsWaiter, JoinsDrops, ShutsDown,
         JoinsTimeLimit
    <3>2. ASSUME NEW r \in 1 .. Rounds, RoundChecked(r)'
          PROVE  Sent(Shutdown("Error")) \/ \A c \in RoundDrops(r) : Sent(ParticipantDropped(c))
      <4>1. CASE RoundChecked(r)
        BY <4>1 DEF DropsInv
      <4>2. CASE ~ RoundChecked(r)
        <5>1. main.pc = "join_later" /\ main'.pc = "round" /\ r = main.round
          BY <1>2, <2>1, <3>1, <3>2, <4>2 DEF RoundChecked, Edges, AfterRounds, BeforeRounds, MainShape
        <5>2. JoinsDrops
          BY <1>6, <5>1, ActionAt DEF At, JoinsLater, ReturnsError, Goto, MainInv
        <5>3. drops.status = "ok"
          BY <5>1, <5>2 DEF JoinsDrops, Goto, MainInv
        <5>4. drops.expected = RoundDrops(r)
          BY <1>2, <5>1 DEF DropsInv
        <5> QED
          BY <5>3, <5>4 DEF DropsInv
      <4> QED
        BY <4>1, <4>2
    <3> QED
      BY <1>3, <3>1, <3>2 DEF DropsInv
  <2> QED
    BY <2>2, <2>3
<1> QED
  BY <1>1, <1>5, <1>6 DEF Effects

(* DropsInv holds throughout: a round is left with the drops it asks for   *)
(* announced, or after an error.                                           *)
THEOREM DropsCorrect == Spec => []DropsInv
<1>1. Init => DropsInv
  BY Lists DEF Init, DropsInv, Sent, RoundChecked, AfterRounds, Drops!DropInit
<1>2. TypeOK /\ MainInv /\ DropsInv /\ [Next]_vars => DropsInv'
  BY DropsStep
<1> QED
  BY <1>1, <1>2, IntegrationTypeCorrect, PTL DEF Spec

(* OkMeansDropped: a test that returns Ok has had the drops its rounds ask *)
(* for, if no contributor starts in the middle of a round, or if nothing   *)
(* goes wrong by itself.                                                   *)
THEOREM DropsHappened ==
    ASSUME DOMAIN StartAfter = {} \/ MaxFaults = 0
    PROVE  Spec => []OkMeansDropped
<1>1. TypeOK /\ MainInv /\ FaultInv /\ ErrorReached /\ DropsInv => OkMeansDropped
  <2> SUFFICES ASSUME TypeOK, MainInv, FaultInv, ErrorReached, DropsInv, At("ok"),
                      NEW r \in 1 .. Rounds
               PROVE  \A c \in RoundDrops(r) : Sent(ParticipantDropped(c))
    BY DEF OkMeansDropped
  <2>1. ~ Sent(Shutdown("Error"))
    BY ErrorFree DEF Passing
  <2>2. main.round = Rounds /\ Rounds \in Nat
    BY Lists DEF MainInv, MainShape, AfterRounds, At
  <2>3. RoundChecked(r)
    BY <2>2 DEF RoundChecked, At, AfterRounds
  <2> QED
    BY <2>1, <2>3 DEF DropsInv
<1> QED
  BY <1>1, IntegrationTypeCorrect, FaultCorrect, ErrorReaches, DropsCorrect, PTL
--------------------------------------------------------------------------------
(* The end of the rounds.                                                  *)

(* A waiter that is over has had its message, or a Shutdown.               *)
LEMMA WaiterSettled ==
    ASSUME log \in Seq(CeremonyMessage), NEW rx \in Nat, NEW m,
           Waiters!WaiterResult(rx, m) # "waiting"
    PROVE  Sent(m) \/ Sent(Shutdown("Error")) \/ Sent(Shutdown("TestFinished"))
<1>1. PICK k \in Waiters!Unread(rx) : log[k] = m \/ Waiters!IsShutdownMessage(log[k])
  BY DEF Waiters!WaiterResult, Waiters!Settles
<1>2. k \in 1 .. Len(log) /\ log[k] \in CeremonyMessage
  BY <1>1 DEF Waiters!Unread
<1>3. CASE log[k].type = "Shutdown"
  BY <1>2, <1>3, MessageKinds DEF Sent
<1> QED
  BY <1>1, <1>2, <1>3 DEF Sent, Waiters!IsShutdownMessage

(* A round is left when it is finished, after an error, or when the        *)
(* coordinator has rolled a round back.                                    *)
LEMMA FinishStep ==
    ASSUME TypeOK, MainInv, FinishInv, Alive, [Next]_vars
    PROVE  FinishInv'
<1>1. Effects /\ pipe \in Seq(Setup!Line) /\ pipe' \in Seq(Setup!Line)
  BY StepEffects, TypesOfParts DEF Effects, PartsTyped
<1>2. /\ log \in Seq(CeremonyMessage) /\ main.pc \in MainPoints /\ main.round \in 0 .. Rounds
      /\ Rounds \in Nat /\ MainShape(main.pc, main.round, main.todo) /\ main.rx \in Nat
  BY TypesOfParts, Lists DEF MainInv
<1>3. /\ \A m : Sent(m) => Sent(m)'
      /\ \A m : Sent(m)' => Sent(m) \/ (Justified(m) /\ Appended(m))
  BY <1>1, <1>2, LogGrows
<1>4. GaveUp => GaveUp'
  BY <1>1 DEF Effects
<1>5. \A k \in 1 .. Len(pipe') : pipe'[k].kind = "restart" => GaveUp'
  <2>1. CASE pipe' = pipe
    BY <1>4, <2>1 DEF FinishInv
  <2>2. CASE pipe # <<>> /\ pipe' = Tail(pipe)
    <3>1. \A k \in 1 .. Len(pipe') : k + 1 \in 1 .. Len(pipe) /\ pipe'[k] = pipe[k + 1]
      BY <1>1, <2>2
    <3> QED
      BY <1>4, <3>1 DEF FinishInv
  <2>3. CASE \E line \in Setup!Line : CoordinatorSays(line)
    <3>1. PICK line \in Setup!Line : CoordinatorSays(line)
      BY <2>3
    <3>2. \A k \in 1 .. Len(pipe') : pipe'[k] = line \/ (k \in 1 .. Len(pipe) /\ pipe'[k] = pipe[k])
      BY <1>1, <3>1 DEF CoordinatorSays
    <3> QED
      BY <1>4, <3>1, <3>2 DEF FinishInv, CoordinatorSays, GaveUp, Setup!RolledBack
  <2> QED
    BY <1>1, <2>1, <2>2, <2>3 DEF Effects
<1>6. pipe # <<>> /\ Head(pipe).kind = "restart" => GaveUp
  BY <1>1 DEF FinishInv
<1>7. Sent(Shutdown("TestFinished"))' => Sent(Shutdown("TestFinished")) \/ ShutsDown \/ GaveUp
  BY <1>3, <1>6 DEF Justified
<1>8. ASSUME NEW r \in 1 .. Rounds, RoundAwaited(r)
      PROVE  \/ Sent(RoundMessage("RoundFinished", r))' \/ Sent(Shutdown("Error"))'
             \/ GaveUp'
  BY <1>3, <1>4, <1>8 DEF FinishInv
<1>9. CASE main' = main
  <2>1. ~ ShutsDown
    <3>1. ShutsDown => main.pc = "round" /\ main'.pc = "join_processes"
      BY DEF ShutsDown, GotoWith, At, MainInv
    <3> QED
      BY <1>9, <3>1
  <2> QED
    BY <1>4, <1>5, <1>7, <1>8, <1>9, <2>1 DEF FinishInv, RoundAwaited
<1>10. CASE MainMoves /\ (MainStep \/ ReturnsError)
  <2>1. /\ <<main.pc, main'.pc>> \in Edges \/ main'.pc \in {"error", "panicked"}
        /\ main'.round = main.round \/ (RoundBegins /\ main'.round = main.round + 1)
        /\ RoundBegins => main.pc = "round" /\ main'.pc \in {"contributors", "waiters"}
    <3>1. RoundBegins => main.pc = "round" /\ main'.pc \in {"contributors", "waiters"}
      BY Continuations DEF RoundBegins, At, MainInv
    <3> QED
      BY <1>10, <3>1 DEF MainMoves
  <2>2. ShutsDown => main'.pc = "join_processes"
    BY DEF ShutsDown, GotoWith, MainInv
  <2>3. main.pc \in AfterRounds => main'.pc \in AfterRounds \cup {"error", "panicked"}
    BY <2>1 DEF Edges, AfterRounds
  <2>4. Sent(Shutdown("TestFinished"))' =>
            GaveUp' \/ main'.pc \in AfterRounds \cup {"error", "panicked"}
    BY <1>4, <1>7, <2>2, <2>3 DEF FinishInv, AfterRounds, Alive, Over
  <2>5. ASSUME NEW r \in 1 .. Rounds, RoundAwaited(r)'
        PROVE  \/ Sent(RoundMessage("RoundFinished", r))' \/ Sent(Shutdown("Error"))'
               \/ GaveUp'
    <3>1. CASE RoundAwaited(r)
      BY <1>8, <3>1
    <3>2. CASE ~ RoundAwaited(r)
      <4>1. main.pc = "await_end" /\ r = main.round
        BY <1>2, <2>1, <2>5, <3>2 DEF RoundAwaited, Edges, ContributorsJoined, AfterRounds,
           BeforeRounds, MainShape
      <4>2. RoundEnds
        BY <1>10, <4>1, ActionAt DEF At
      <4>3. Waiters!WaiterResult(main.rx, RoundMessage("RoundFinished", r)) # "waiting"
        BY <4>1, <4>2 DEF RoundEnds, RoundWaiter
      <4>4. \/ Sent(RoundMessage("RoundFinished", r)) \/ Sent(Shutdown("Error"))
            \/ Sent(Shutdown("TestFinished"))
        BY <1>2, <4>3, WaiterSettled
      <4> QED
        BY <1>3, <1>4, <4>1, <4>4 DEF FinishInv, AfterRounds
    <3> QED
      BY <3>1, <3>2
  <2> QED
    BY <1>5, <2>4, <2>5 DEF FinishInv
<1> QED
  BY <1>1, <1>9, <1>10 DEF Effects

(* FinishInv holds throughout: the main thread waits for the end of a round *)
(* until it is finished, or there has been an error or a roll-back.        *)
THEOREM FinishCorrect == Spec => []FinishInv
<1>1. Init => FinishInv
  BY Lists DEF Init, FinishInv, Sent, RoundAwaited, ContributorsJoined, AfterRounds
<1>2. TypeOK /\ MainInv /\ FinishInv /\ [Next]_vars => FinishInv'
  <2> SUFFICES ASSUME TypeOK, MainInv, FinishInv, [Next]_vars PROVE FinishInv'
    OBVIOUS
  <2>1. CASE Next
    BY <2>1, FinishStep DEF Next
  <2>2. CASE UNCHANGED vars
    BY <2>2 DEF vars, mainVars, coordinatorVars, FinishInv, RoundAwaited, Sent, GaveUp,
                 Setup!RolledBack
  <2> QED
    BY <2>1, <2>2
<1> QED
  BY <1>1, <1>2, IntegrationTypeCorrect, PTL DEF Spec

(* OkMeansFinished: a test that returns Ok has had its rounds finished, or *)
(* one of them rolled back by the coordinator, if no contributor starts in *)
(* the middle of a round, or if nothing goes wrong by itself.              *)
THEOREM RoundsFinished ==
    ASSUME DOMAIN StartAfter = {} \/ MaxFaults = 0
    PROVE  Spec => []OkMeansFinished
<1>1. TypeOK /\ MainInv /\ FaultInv /\ ErrorReached /\ FinishInv => OkMeansFinished
  <2> SUFFICES ASSUME TypeOK, MainInv, FaultInv, ErrorReached, FinishInv, At("ok"),
                      NEW r \in 1 .. Rounds
               PROVE  Sent(RoundMessage("RoundFinished", r)) \/ GaveUp
    BY DEF OkMeansFinished, GaveUp
  <2>1. ~ Sent(Shutdown("Error"))
    BY ErrorFree DEF Passing
  <2>2. main.round = Rounds /\ Rounds \in Nat
    BY Lists DEF MainInv, MainShape, AfterRounds, At
  <2>3. RoundAwaited(r)
    BY <2>2 DEF RoundAwaited, At, AfterRounds, ContributorsJoined
  <2> QED
    BY <2>1, <2>3 DEF FinishInv, GaveUp
<1> QED
  BY <1>1, IntegrationTypeCorrect, FaultCorrect, ErrorReaches, FinishCorrect, PTL
--------------------------------------------------------------------------------
(* The promise of a test (AbstractTest).                                   *)

(* Nobody starts a contributor of a round but that round.                  *)
LEMMA NewContributors ==
    ASSUME TypeOK, MainInv, [Next]_vars, NEW r \in 1 .. Rounds, NEW c \in ToSet(Starting[r]),
           child[c] = "none", child'[c] # "none"
    PROVE  r = main.round /\ main.pc = "contributors"
<1>1. c \in Startable \cup WaitersStart
  BY StepEffects, Lists DEF Effects, StartOnly
<1>2. c \in Contributors /\ c \notin WaitersStart
  BY Lists, KindsAssumption DEF WaitersStart
<1>3. c \notin {Coordinator} \cup ToSet(StateMonitors)
  BY <1>2, TestAssumption
<1>4. c \notin ToSet(Helpers)
  BY <1>2, Lists, KindsAssumption, ParticipantsAssumption
<1>5. main.pc = "contributors" /\ c \in ToSet(Starting[main.round])
  BY <1>1, <1>2, <1>3, <1>4 DEF Startable, TodoAt, StartingPoints
<1>6. main.round \in 1 .. Rounds
  BY <1>5, Lists DEF MainInv, MainShape, InRound
<1> QED
  BY <1>5, <1>6, KindsAssumption

(* A contributor is not started before its round.                          *)
LEMMA FutureStep ==
    ASSUME TypeOK, MainInv, FutureInv, [Next]_vars
    PROVE  FutureInv'
<1>1. main.round \in 0 .. Rounds /\ Rounds \in Nat
  BY Lists DEF MainInv
<1>2. main'.round = main.round \/ main'.round = main.round + 1
  BY StepEffects DEF Effects, MainMoves
<1> SUFFICES ASSUME NEW r \in 1 .. Rounds, r > main'.round, NEW c \in ToSet(Starting[r]),
                    child'[c] # "none"
             PROVE  FALSE
  BY DEF FutureInv
<1>3. child[c] = "none" /\ r # main.round
  BY <1>1, <1>2 DEF FutureInv
<1> QED
  BY <1>3, NewContributors

(* FutureInv holds throughout: no contributor of a round is there before   *)
(* the round begins.                                                       *)
THEOREM FutureCorrect == Spec => []FutureInv
<1>1. Init => FutureInv
  BY Lists DEF Init, Processes!ProcessInit, FutureInv, AllProcesses
<1>2. TypeOK /\ MainInv /\ FutureInv /\ [Next]_vars => FutureInv'
  BY FutureStep
<1> QED
  BY <1>1, <1>2, IntegrationTypeCorrect, PTL DEF Spec

(* The refinement mapping: how the test is over.                           *)
Phase == IF main.pc \in {"ok", "error", "panicked"} THEN main.pc ELSE "running"

(* The rounds of which a contributor is there.                             *)
Present == {r \in 1 .. Rounds : ProcessesOf(ToSet(Starting[r])) # {}}

(* Whether one of the other processes is there.                            *)
Helping == ProcessesOf({Coordinator} \cup ToSet(StateMonitors) \cup Verifiers
                           \cup ToSet(Replacements)) # {}

(* Whether an error has been announced.                                    *)
Announced == Sent(Shutdown("Error"))

(* The actions of the promise under that mapping.                          *)
LEMMA PromisedSteps ==
    /\ /\ Phase = "running" /\ Phase' = "running" /\ main'.round = main.round
       /\ Present' \subseteq Present \cup ({main.round} \ {0}) /\ (Announced => Announced')
       => Promise!TestNext
    /\ /\ Phase = "running" /\ Phase' = "running" /\ main.round < Rounds /\ Present = {}
       /\ main'.round = main.round + 1 /\ UNCHANGED <<child, log>>
       => Promise!TestNext
    /\ /\ Phase = "running" /\ Phase' = "ok" /\ main.round = Rounds /\ Present = {}
       /\ ~ Helping /\ ~ Announced /\ main'.round = main.round /\ UNCHANGED <<child, log>>
       => Promise!TestNext
    /\ /\ Phase = "running" /\ Phase' \in {"error", "panicked"}
       /\ main'.round = main.round /\ UNCHANGED <<child, log>>
       => Promise!TestNext
<1>1. UNCHANGED child => Present' = Present /\ Helping' = Helping
  BY DEF Present, Helping, ProcessesOf
<1>2. UNCHANGED log => Announced' = Announced
  BY DEF Announced, Sent
<1>3. Helping \in BOOLEAN /\ Helping' \in BOOLEAN /\ Announced \in BOOLEAN /\ Announced' \in BOOLEAN
  BY Zenon DEF Helping, Announced, Sent
<1>4. ASSUME Phase = "running", Phase' = "running", main'.round = main.round,
             Present' \subseteq Present \cup ({main.round} \ {0}), Announced => Announced'
      PROVE  Promise!ProcessesChange
  <2>1. Present' \in SUBSET (Present \cup ({main.round} \ {0})) /\ UNCHANGED <<Phase, main.round>>
    BY <1>4
  <2>2. Announced' \in {Announced, TRUE}
    BY <1>3, <1>4, Zenon
  <2> QED
    BY <1>3, <1>4, <2>1, <2>2, Zenon DEF Promise!ProcessesChange, Phase, Present, Helping, Announced
<1>5. ASSUME Phase = "running", Phase' = "running", main.round < Rounds, Present = {},
             main'.round = main.round + 1, UNCHANGED <<child, log>>
      PROVE  Promise!NextRound
  <2>1. UNCHANGED <<Phase, Present, Helping, Announced>>
    BY <1>1, <1>2, <1>5, Zenon
  <2> QED
    BY <1>5, <2>1, Zenon DEF Promise!NextRound, Phase, Present, Helping, Announced
<1>6. ASSUME Phase = "running", Phase' = "ok", main.round = Rounds, Present = {},
             ~ Helping, ~ Announced, main'.round = main.round, UNCHANGED <<child, log>>
      PROVE  Promise!TestPasses
  <2>1. UNCHANGED <<main.round, Present, Helping, Announced>>
    BY <1>1, <1>2, <1>6, Zenon
  <2> QED
    BY <1>6, <2>1, Zenon DEF Promise!TestPasses, Phase, Present, Helping, Announced
<1>7. ASSUME Phase = "running", Phase' \in {"error", "panicked"},
             main'.round = main.round, UNCHANGED <<child, log>>
      PROVE  Promise!TestFails
  <2>1. UNCHANGED <<main.round, Present, Helping, Announced>>
    BY <1>1, <1>2, <1>7, Zenon
  <2> QED
    BY <1>7, <2>1, Zenon DEF Promise!TestFails, Phase, Present, Helping, Announced
<1> QED
  BY <1>4, <1>5, <1>6, <1>7 DEF Promise!TestNext

(* While a test runs, processes come for the current round only.           *)
LEMMA PresentChanges ==
    ASSUME TypeOK, MainInv, [Next]_vars
    PROVE  Present' \subseteq Present \cup ({main.round} \ {0}) /\ (Announced => Announced')
<1>1. Effects /\ log \in Seq(CeremonyMessage) /\ Rounds \in Nat
  BY StepEffects, TypesOfParts, Lists
<1>2. Announced => Announced'
  BY <1>1, LogGrows DEF Announced
<1>3. ASSUME NEW r \in Present' PROVE r \in Present \cup ({main.round} \ {0})
  <2>1. r \in 1 .. Rounds
    BY DEF Present
  <2>2. PICK c \in ToSet(Starting[r]) : child'[c] \in {"running", "stopping"}
    BY DEF Present, ProcessesOf
  <2>3. c \in AllProcesses /\ child[c] \in {"none", "running", "stopping", "exited", "failed"}
    BY <2>1, Lists DEF TypeOK, Processes!ProcessTypeOK, Processes!ChildStates, AllProcesses
  <2>4. CASE child[c] = "none"
    BY <1>1, <2>1, <2>2, <2>4, NewContributors
  <2>5. CASE child[c] \in {"running", "stopping"}
    BY <2>1, <2>5 DEF Present, ProcessesOf
  <2>6. CASE child[c] \in {"exited", "failed"}
    BY <1>1, <2>2, <2>3, <2>6 DEF Effects, EndsLast, Processes!Ended
  <2> QED
    BY <2>3, <2>4, <2>5, <2>6
<1> QED
  BY <1>2, <1>3

(* The end of a test, by the main thread, changes nothing else.            *)
LEMMA EndChanges ==
    ASSUME TypeOK, MainInv, MainMoves, MainStep \/ ReturnsError, main'.pc \in {"ok", "error", "panicked"}
    PROVE  UNCHANGED <<child, log>> /\ main'.round = main.round
<1>1. /\ StartsCoordinator => main'.pc \in {"services", "ready"}
      /\ StartsProcess => main'.pc \in StartingPoints \cup {"ready", "round", "waiters"}
      /\ RoundBegins => main'.pc \in {"contributors", "waiters"}
      /\ RoundStartsWithout => main'.pc = "await_end"
      /\ ShutsDown => main'.pc = "join_processes"
  <2>1. StartsCoordinator => main'.pc \in {"services", "ready"}
    BY Continuations DEF StartsCoordinator, GotoWith, MainInv
  <2>2. StartsProcess => main'.pc \in StartingPoints \cup {"ready", "round", "waiters"}
    <3> SUFFICES ASSUME StartsProcess PROVE main'.pc \in StartingPoints \cup {"ready", "round", "waiters"}
      OBVIOUS
    <3>1. main.pc \in StartingPoints /\ main'.pc = AfterStarting(main.pc, Tail(main.todo))
      BY DEF StartsProcess, GotoWith, MainInv
    <3> QED
      BY <3>1, Continuations DEF StartingPoints
  <2>3. RoundBegins => main'.pc \in {"contributors", "waiters"}
    BY Continuations DEF RoundBegins, MainInv
  <2>4. RoundStartsWithout => main'.pc = "await_end"
    BY DEF RoundStartsWithout, MainInv
  <2>5. ShutsDown => main'.pc = "join_processes"
    BY DEF ShutsDown, GotoWith, MainInv
  <2> QED
    BY <2>1, <2>2, <2>3, <2>4, <2>5
<1>2. ~ StartsCoordinator /\ ~ StartsProcess /\ ~ RoundBegins /\ ~ RoundStartsWithout /\ ~ ShutsDown
  BY <1>1 DEF StartingPoints
<1>3. UNCHANGED <<child, log>>
  BY <1>2 DEF MainStep, ReturnsError, CoordinatorReady, SpawnsWaiters, RoundStarts, RoundEnds,
     JoinsProcess, JoinsLater, JoinsWaiter, JoinsDrops, JoinsTimeLimit, processVars
<1> QED
  BY <1>2, <1>3 DEF MainMoves

(* Every step of a test is one of its promise.                             *)
LEMMA PromiseStep ==
    ASSUME DOMAIN StartAfter = {} \/ MaxFaults = 0,
           TypeOK, MainInv, JoinedInv, FaultInv, ErrorReached, FutureInv, Next
    PROVE  Promise!TestNext
<1>1. /\ Effects /\ Present' \subseteq Present \cup ({main.round} \ {0}) /\ (Announced => Announced')
      /\ main.pc \in MainPoints /\ main.round \in 0 .. Rounds /\ Rounds \in Nat
      /\ main.pc \notin {"ok", "error", "panicked"} /\ Phase = "running"
  BY StepEffects, PresentChanges, Lists DEF MainInv, Next, Alive, Over, Phase
<1>2. CASE main' = main
  BY <1>1, <1>2, PromisedSteps DEF Phase
<1>3. CASE MainMoves /\ (MainStep \/ ReturnsError)
  <2>1. /\ <<main.pc, main'.pc>> \in Edges \/ main'.pc \in {"error", "panicked"}
        /\ main'.round = main.round \/ (RoundBegins /\ main'.round = main.round + 1)
    BY <1>3 DEF MainMoves
  <2>2. CASE RoundBegins /\ main'.round = main.round + 1
    <3>1. /\ main.pc = "round" /\ main.round < Rounds /\ main'.pc \in {"contributors", "waiters"}
          /\ UNCHANGED <<child, log>>
      BY <2>2, Continuations DEF RoundBegins, At, MainInv, processVars
    <3>2. Present = {}
      <4> SUFFICES ASSUME NEW r \in 1 .. Rounds, NEW c \in ToSet(Starting[r])
                   PROVE  child[c] \notin {"running", "stopping"}
        BY DEF Present, ProcessesOf
      <4>1. CASE r > main.round
        BY <4>1 DEF FutureInv
      <4>2. CASE r <= main.round
        <5>1. RoundJoined(r)
          BY <1>1, <3>1, <4>2 DEF RoundJoined, ContributorsJoined
        <5> QED
          BY <5>1 DEF JoinedInv, JoinedWell, Processes!Ended
      <4> QED
        BY <1>1, <4>1, <4>2
    <3>3. Phase' = "running"
      BY <3>1 DEF Phase
    <3> QED
      BY <1>1, <2>2, <3>1, <3>2, <3>3, PromisedSteps
  <2>3. CASE main'.pc \in {"error", "panicked"}
    BY <1>1, <1>3, <2>3, EndChanges, PromisedSteps DEF Phase
  <2>4. CASE main'.pc = "ok"
    <3>1. main.pc = "join_limit" /\ JoinsTimeLimit
      BY <1>3, <2>1, <2>4, ActionAt DEF Edges, At
    <3>2. Passing
      BY <2>4, <3>1 DEF JoinsTimeLimit, Goto, MainInv, Passing, At
    <3>3. ~ Announced
      BY <3>2, ErrorFree DEF Announced
    <3>4. main.round = Rounds
      BY <3>1 DEF MainInv, MainShape, AfterRounds
    <3>5. \A r \in 1 .. Rounds : RoundJoined(r)
      BY <1>1, <3>1, <3>4 DEF RoundJoined, ContributorsJoined, AfterRounds
    <3>6. Present = {}
      BY <3>5 DEF Present, ProcessesOf, JoinedInv, JoinedWell, Processes!Ended
    <3>7. ~ Helping
      <4>1. \A p \in ToSet(Started) : child[p] \in {"exited", "failed"}
        BY <3>1 DEF JoinedInv, JoinedWell, Processes!Ended
      <4>2. ToSet(Started) = {Coordinator} \cup ToSet(StateMonitors) \cup Verifiers \cup ToSet(Replacements)
        BY Lists
      <4> QED
        BY <4>1, <4>2 DEF Helping, ProcessesOf
    <3>8. UNCHANGED <<child, log>> /\ main'.round = main.round /\ Phase' = "ok"
      BY <1>3, <2>4, EndChanges DEF Phase
    <3> QED
      BY <1>1, <3>3, <3>4, <3>6, <3>7, <3>8, PromisedSteps
  <2>5. CASE main'.pc \notin {"ok", "error", "panicked"} /\ main'.round = main.round
    <3>1. Phase' = "running"
      BY <2>5 DEF Phase
    <3> QED
      BY <1>1, <2>5, <3>1, PromisedSteps
  <2> QED
    BY <2>1, <2>2, <2>3, <2>4, <2>5
<1> QED
  BY <1>1, <1>2, <1>3 DEF Effects

(* A test begins as promised.                                              *)
LEMMA PromiseInit == ASSUME Init PROVE Promise!TestInit
<1>1. Phase = "running" /\ main.round = 0
  BY DEF Init, Phase
<1>2. \A p \in AllProcesses : child[p] = "none"
  BY DEF Init, Processes!ProcessInit, AllProcesses
<1>3. Present = {}
  BY <1>2, Lists DEF Present, ProcessesOf
<1>4. ~ Helping
  BY <1>2, Lists, KindsAssumption DEF Helping, ProcessesOf
<1>5. ~ Announced
  BY DEF Init, Announced, Sent
<1>6. Helping = FALSE /\ Announced = FALSE
  BY <1>4, <1>5, Zenon DEF Helping, Announced, Sent
<1> QED
  BY <1>1, <1>3, <1>6, Zenon DEF Promise!TestInit, Phase, Present, Helping, Announced

(* KeepsPromise: a test does what Specification::run counts on, if no      *)
(* contributor starts in the middle of a round, or if nothing goes wrong by *)
(* itself.                                                                 *)
THEOREM PromiseKept ==
    ASSUME DOMAIN StartAfter = {} \/ MaxFaults = 0
    PROVE  Spec => KeepsPromise
<1>1. Init => Promise!TestInit
  BY PromiseInit
<1>2. TypeOK /\ MainInv /\ JoinedInv /\ FaultInv /\ ErrorReached /\ FutureInv /\ [Next]_vars
          => [Promise!TestNext]_(Promise!testVars)
  <2>1. CASE Next
    BY <2>1, PromiseStep
  <2>2. CASE UNCHANGED vars
    <3>1. UNCHANGED <<main, child, log>>
      BY <2>2 DEF vars, mainVars, processVars
    <3> QED
      BY <3>1 DEF Promise!testVars, ProcessesOf, Sent
  <2> QED
    BY <2>1, <2>2
<1> QED
  BY <1>1, <1>2, IntegrationTypeCorrect, JoinedCorrect, FaultCorrect, ErrorReaches, FutureCorrect,
     PTL DEF Spec, KeepsPromise, Promise!TestSpec

--------------------------------------------------------------------------------
(* The coordinator in its test, and the waiters that count on it.          *)

Coord == INSTANCE SetupCoordinatorProofs
    WITH reporting <- monitor[Coordinator] = "reading", MaxRound <- MaxWaits,
         Garbled <- "garbled"

(* A test is one that its coordinator can be in.                           *)
LEMMA CoordAssumptions ==
    Coord!ParticipantsAssumption /\ Coord!GarbledAssumption /\ Coord!CoordinatorAssumption
BY ParticipantsAssumption, TestAssumption, Lists
   DEF Coord!ParticipantsAssumption, Coord!GarbledAssumption, Coord!CoordinatorAssumption,
       Coord!Participants, Participants

(* What the rest of the test does, the coordinator and its reporter have to *)
(* expect of others: it leaves them alone, and may say that the test is to *)
(* stop.                                                                   *)
Aside == /\ UNCHANGED <<coord, pipe, reporter>> /\ monitor'[Coordinator] = monitor[Coordinator]
         /\ log' = log \/ \E reason \in ShutdownReasons : Appended(Shutdown(reason))

(* Starting a process leaves every monitor thread as it is.                *)
LEMMA StartsAside ==
    ASSUME MainStep \/ ReturnsError
    PROVE  UNCHANGED monitor
<1>1. ASSUME NEW p, NEW rx, Processes!RunService(p) \/ Processes!RunContributor(p, rx)
      PROVE  UNCHANGED monitor
  BY <1>1 DEF Processes!RunService, Processes!RunContributor, Processes!RunMonitorProcess
<1>2. CASE StartsCoordinator \/ StartsProcess
  BY <1>1, <1>2 DEF StartsCoordinator, StartsProcess
<1>3. CASE ~ (StartsCoordinator \/ StartsProcess)
  BY <1>3 DEF MainStep, ReturnsError, CoordinatorReady, RoundBegins, SpawnsWaiters, RoundStarts,
       RoundStartsWithout, RoundEnds, JoinsProcess, JoinsLater, JoinsWaiter, JoinsDrops, ShutsDown,
       JoinsTimeLimit, processVars
<1> QED
  BY <1>2, <1>3

(* That is a step they are proved for.                                     *)
LEMMA AsideIsOpen == Aside => [Coord!OpenNext]_(Coord!coordinatorVars)
<1> SUFFICES ASSUME Aside PROVE [Coord!OpenNext]_(Coord!coordinatorVars)
  OBVIOUS
<1>1. (monitor'[Coordinator] = "reading") = (monitor[Coordinator] = "reading")
  BY Zenon DEF Aside
<1>2. CASE log' = log
  BY <1>1, <1>2, Zenon DEF Aside, Coord!coordinatorVars
<1>3. ASSUME NEW reason \in ShutdownReasons, Appended(Shutdown(reason))
      PROVE  Coord!OpenNext
  <2>1. reason \in Coord!ShutdownReasons /\ Coord!Shutdown(reason) = Shutdown(reason)
    BY DEF ShutdownReasons, Coord!ShutdownReasons, Shutdown, Coord!Shutdown
  <2>2. Coord!OthersBroadcast(reason)
    BY <1>1, <1>3, <2>1, Zenon DEF Aside, Appended, Coord!OthersBroadcast, Coord!Broadcast
  <2> QED
    BY <2>1, <2>2 DEF Aside, Coord!OpenNext
<1> QED
  BY <1>2, <1>3, Zenon DEF Aside

(* The reporter is the one of SetupCoordinator.                            *)
LEMMA ReporterIsOpen ==
    ASSUME ReporterStep
    PROVE  Coord!ReadsALine /\ UNCHANGED coord
<1>1. Setup!ReadsALine => Coord!ReadsALine
  BY Zenon DEF Setup!ReadsALine, Setup!ReportBooted, Setup!ReportStarted, Setup!ReportAggregation,
     Setup!ReportAggregated, Setup!ReportFinished, Setup!ReportNextRound, Setup!ReportDropped,
     Setup!ReportContribution, Setup!ReportRestart, Setup!IgnoreLine, Setup!RejectLine,
     Setup!ReporterFails, Setup!Announces, Setup!AwaitsRound, Setup!Reads, Setup!LooksFor,
     Setup!LineKinds, Setup!Broadcast, Setup!RoundMessage, Setup!ParticipantDropped,
     Setup!SuccessfulContribution, Setup!Shutdown, Setup!Participants,
     Coord!ReadsALine, Coord!ReportBooted, Coord!ReportStarted, Coord!ReportAggregation,
     Coord!ReportAggregated, Coord!ReportFinished, Coord!ReportNextRound, Coord!ReportDropped,
     Coord!ReportContribution, Coord!ReportRestart, Coord!IgnoreLine, Coord!RejectLine,
     Coord!ReporterFails, Coord!Announces, Coord!AwaitsRound, Coord!Reads, Coord!LooksFor,
     Coord!LineKinds, Coord!Broadcast, Coord!RoundMessage, Coord!ParticipantDropped,
     Coord!SuccessfulContribution, Coord!Shutdown, Coord!Participants
<1> QED
  BY <1>1 DEF ReporterStep

(* So is the coordinator, which has fewer choices.                         *)
LEMMA CoordinatorActs ==
    ASSUME CoordinatorStep \/ CoordinatorDropsFaulty
    PROVE  \E present, standby \in SUBSET Contributors, droppable \in SUBSET Participants,
              chatty \in SUBSET Setup!CoordinatorPhases :
              Coord!CoordinatorNext({c \in Contributors : Up(c)} \ ToSet(Replacements),
                                    present, standby, droppable, chatty)
<1> DEFINE up == {c \in Contributors : Up(c)}
<1> USE DEF Coord!CoordinatorNext, Setup!CoordinatorNext,
     Setup!CoordinatorBoots, Setup!CoordinatorStarts, Setup!CoordinatorTakesChunk,
     Setup!CoordinatorDrops, Setup!CoordinatorRestarts, Setup!CoordinatorAggregates,
     Setup!CoordinatorAggregated, Setup!CoordinatorFinishes, Setup!CoordinatorNextRound,
     Setup!CoordinatorRollsBack, Setup!CoordinatorChats, Setup!WaitsAgain, Setup!InRound,
     Setup!Moves, Setup!Says, Setup!WriteLine, Setup!PlainLine, Setup!ParticipantLine,
     Coord!CoordinatorBoots, Coord!CoordinatorStarts, Coord!CoordinatorTakesChunk,
     Coord!CoordinatorDrops, Coord!CoordinatorRestarts, Coord!CoordinatorAggregates,
     Coord!CoordinatorAggregated, Coord!CoordinatorFinishes, Coord!CoordinatorNextRound,
     Coord!CoordinatorRollsBack, Coord!CoordinatorChats, Coord!WaitsAgain, Coord!InRound,
     Coord!Moves, Coord!Says, Coord!WriteLine, Coord!PlainLine, Coord!ParticipantLine
<1>1. CASE CoordinatorStep
  <2> DEFINE gone == {p \in Participants : ~ Up(p) /\ child[p] # "none"}
             droppable == IF Setup!InRound THEN gone ELSE {}
             chatty == IF reporter.round > coord.waits THEN {} ELSE Setup!OverPhases
  <2>1. /\ up \in SUBSET Contributors /\ up \cap ToSet(Replacements) \in SUBSET Contributors
        /\ droppable \in SUBSET Participants /\ chatty \in SUBSET Setup!CoordinatorPhases
    BY DEF Setup!OverPhases, Setup!CoordinatorPhases
  <2>2. Setup!CoordinatorNext(up \ ToSet(Replacements), up, up \cap ToSet(Replacements),
                              droppable, chatty)
    BY <1>1, Zenon DEF CoordinatorStep
  <2> HIDE DEF up, droppable, chatty
  <2>3. Coord!CoordinatorNext(up \ ToSet(Replacements), up, up \cap ToSet(Replacements),
                              droppable, chatty)
    BY <2>2, Zenon
  <2> QED
    BY <2>1, <2>3, Zenon DEF up
<1>2. CASE CoordinatorDropsFaulty
  <2>1. PICK p \in Participants : Setup!CoordinatorDrops(p)
    BY <1>2, Zenon DEF CoordinatorDropsFaulty
  <2>2. Coord!CoordinatorNext(up \ ToSet(Replacements), {}, {}, Participants, {})
    BY <2>1, Zenon
  <2>3. /\ {} \in SUBSET Contributors /\ Participants \in SUBSET Participants
        /\ {} \in SUBSET Setup!CoordinatorPhases
    OBVIOUS
  <2> QED
    BY <2>2, <2>3, Zenon
<1> QED
  BY <1>1, <1>2

(* Its state is of the same type.                                          *)
LEMMA CoordinatorTyped == TypeOK => Coord!CoordinatorTypeOK
<1>1. /\ Setup!CoordinatorPhases = Coord!CoordinatorPhases
      /\ Setup!Participants = Coord!Participants
  BY DEF Setup!CoordinatorPhases, Coord!CoordinatorPhases, Setup!Participants,
         Coord!Participants
<1> QED
  BY <1>1, Zenon DEF TypeOK, Setup!TypeOK, Setup!CoordinatorTypeOK, Coord!CoordinatorTypeOK

(* Every step of a test is one of the coordinator and its reporter, or one *)
(* that they have to expect.                                               *)
LEMMA OpenStep ==
    ASSUME TypeOK, MainInv, [Next]_vars
    PROVE  [Coord!OpenNext]_(Coord!coordinatorVars)
<1>1. /\ log \in Seq(CeremonyMessage) /\ Processes!ProcessTypeOK
      /\ Drops!DropTypeOK /\ "Error" \in ShutdownReasons /\ "TestFinished" \in ShutdownReasons
  BY DEF TypeOK, ShutdownReasons
<1>2. CASE Alive /\ (MainStep \/ ReturnsError)
  <2>1. UNCHANGED coordinatorVars /\ UNCHANGED monitor
    BY <1>2, MainStepEffects, StartsAside DEF MainEffects
  <2>2. log' = log \/ \E reason \in ShutdownReasons : Appended(Shutdown(reason))
    BY <1>1, <1>2, MainStepEffects DEF MainEffects
  <2> QED
    BY <2>1, <2>2, AsideIsOpen DEF Aside, coordinatorVars
<1>3. CASE TimeLimitStep
  <2>1. log' = log \/ Appended(Shutdown("Error"))
    BY <1>3 DEF TimeLimitStep, TimeLimitExpires, TimeLimitStops, Broadcast, Appended
  <2>2. UNCHANGED <<processVars, coordinatorVars>>
    BY <1>3 DEF TimeLimitStep, TimeLimitExpires, TimeLimitStops
  <2> QED
    BY <1>1, <2>1, <2>2, AsideIsOpen DEF Aside, coordinatorVars, processVars
<1>4. CASE ReporterStep
  BY <1>4, ReporterIsOpen DEF Coord!OpenNext
<1>5. CASE DropStep
  <2>1. log' = log \/ Appended(Shutdown("Error"))
    BY <1>1, <1>5, DropMoves DEF DropStep
  <2>2. UNCHANGED <<processVars, coordinatorVars>>
    BY <1>5 DEF DropStep
  <2> QED
    BY <1>1, <2>1, <2>2, AsideIsOpen DEF Aside, coordinatorVars, processVars
<1>6. ASSUME NEW p \in AllProcesses, ProcessStep(p)
      PROVE  [Coord!OpenNext]_(Coord!coordinatorVars)
  <2>1. log' = log \/ Appended(Shutdown("Error"))
    BY <1>1, <1>6, ProcessMoves
  <2>2. UNCHANGED coordinatorVars
    BY <1>6 DEF ProcessStep
  <2>3. UNCHANGED monitor
    BY <1>6 DEF ProcessStep, Processes!MessagesStep, Processes!MessagesSubscribe,
                Processes!FindsRunning, Processes!TerminateProcess, Processes!ProcessExited,
                Processes!ProcessFailed, Processes!ChildTerminated
  <2> QED
    BY <1>1, <2>1, <2>2, <2>3, AsideIsOpen DEF Aside, coordinatorVars
<1>7. ASSUME NEW c \in Contributors, ContributorStep(c)
      PROVE  [Coord!OpenNext]_(Coord!coordinatorVars)
  <2>1. log' = log
    BY <1>1, <1>7, CeremonyMoves
  <2>2. UNCHANGED coordinatorVars
    BY <1>7 DEF ContributorStep
  <2>3. UNCHANGED monitor
    BY <1>7 DEF ContributorStep, Processes!CeremonyStep, Processes!CeremonyShutdown,
                Processes!CeremonyRoundFinished, Processes!CeremonyDrops,
                Processes!CeremonyCounts, Processes!SendTerminate, Processes!threadVars
  <2> QED
    BY <2>1, <2>2, <2>3, AsideIsOpen DEF Aside, coordinatorVars
<1>8. ASSUME NEW c \in DOMAIN StartAfter, WaiterStarts(c) \/ WaiterFails(c)
      PROVE  [Coord!OpenNext]_(Coord!coordinatorVars)
  <2>1. UNCHANGED log /\ UNCHANGED coordinatorVars
    BY <1>8 DEF WaiterStarts, WaiterFails
  <2>2. UNCHANGED monitor
    BY <1>8 DEF WaiterStarts, WaiterFails, processVars, Processes!RunContributor,
                Processes!RunMonitorProcess
  <2> QED
    BY <2>1, <2>2, AsideIsOpen DEF Aside, coordinatorVars
<1>9. CASE ChildFault
  <2>1. UNCHANGED coordinatorVars
    BY <1>9 DEF ChildFault
  <2>2. ASSUME NEW p, NEW status, Processes!ChildExits(p, status)
        PROVE  [Coord!OpenNext]_(Coord!coordinatorVars)
    BY <2>1, <2>2, AsideIsOpen DEF Aside, coordinatorVars, Processes!ChildExits
  <2>3. ASSUME NEW p \in Processes!Processes, Processes!MonitorFails(p)
        PROVE  [Coord!OpenNext]_(Coord!coordinatorVars)
    <3>1. /\ monitor[p] = "reading" /\ monitor' = [monitor EXCEPT ![p] = "panicked"]
          /\ Appended(Shutdown("Error"))
      BY <2>3 DEF Processes!MonitorFails, Processes!Broadcast, Processes!Shutdown, Shutdown,
                  Appended
    <3>2. CASE p # Coordinator
      <4>1. monitor'[Coordinator] = monitor[Coordinator]
        BY <3>1, <3>2 DEF Processes!ProcessTypeOK, Processes!Processes
      <4> QED
        BY <1>1, <2>1, <3>1, <4>1, AsideIsOpen DEF Aside, coordinatorVars
    <3>3. CASE p = Coordinator
      <4>1. monitor[Coordinator] = "reading" /\ monitor'[Coordinator] = "panicked"
        BY <1>1, <2>3, <3>1, <3>3 DEF Processes!ProcessTypeOK
      <4>2. (monitor'[Coordinator] = "reading") = FALSE
        BY <4>1
      <4>3. Coord!Shutdown("Error") = Shutdown("Error")
        BY DEF Shutdown, Coord!Shutdown
      <4>4. Coord!ReporterFails
        BY <2>1, <3>1, <4>1, <4>2, <4>3, Zenon
           DEF Coord!ReporterFails, Coord!Broadcast, coordinatorVars, Appended
      <4> QED
        BY <2>1, <4>4 DEF Coord!LogFileFails, Coord!OpenNext, coordinatorVars
    <3> QED
      BY <3>2, <3>3
  <2> QED
    BY <1>9, <2>2, <2>3 DEF ChildFault
<1>10. CASE CoordinatorStep \/ CoordinatorDropsFaulty
  <2>1. PICK present, standby \in SUBSET Contributors, droppable \in SUBSET Participants,
            chatty \in SUBSET Setup!CoordinatorPhases :
              Coord!CoordinatorNext({c \in Contributors : Up(c)} \ ToSet(Replacements),
                                    present, standby, droppable, chatty)
    BY <1>10, CoordinatorActs
  <2>2. Participants = Coord!Participants
    BY DEF Participants, Coord!Participants
  <2>3. Coord!AnyCoordinatorStep
    BY <2>1, <2>2, CoordAssumptions, CoordinatorTyped, Coord!FewerChoices
  <2> QED
    BY <2>3 DEF Coord!OpenNext
<1>11. CASE UNCHANGED vars
  BY <1>11, AsideIsOpen DEF vars, processVars, coordinatorVars, Aside
<1> QED
  BY <1>2, <1>3, <1>4, <1>5, <1>6, <1>7, <1>8, <1>9, <1>10, <1>11 DEF Next, AllProcesses

(* And it begins like them.                                                *)
LEMMA OpenInit == ASSUME Init PROVE Coord!Init
<1>1. monitor[Coordinator] = "reading"
  BY DEF Init, Processes!ProcessInit, Processes!Processes
<1>2. (monitor[Coordinator] = "reading") = TRUE
  BY <1>1
<1> QED
  BY <1>2, Zenon DEF Init, Setup!CoordinatorInit, Coord!Init, Coord!ReporterInit,
     Coord!CoordinatorInit

(* A test is a run of its coordinator and reporter.                        *)
THEOREM OpenRun == Spec => Coord!OpenSpec
<1>1. Init => Coord!Init
  BY OpenInit
<1>2. TypeOK /\ MainInv /\ [Next]_vars => [Coord!OpenNext]_(Coord!coordinatorVars)
  BY OpenStep
<1> QED
  BY <1>1, <1>2, IntegrationTypeCorrect, PTL DEF Spec, Coord!OpenSpec

(* In every test the reporter that has read everything is where the        *)
(* coordinator is, or one step early once a round is over, and every drop  *)
(* made while a round waits or runs is on the bus; the stages of the rounds *)
(* are announced in order, and none is left out.                           *)
THEOREM CeremonyReported ==
    Spec => [](/\ Coord!ReporterInSync /\ Coord!DropsReachTheBus
               /\ Coord!RoundMessagesInOrder /\ Coord!NoStageSkipped)
<1>1. Coord!OpenSpec => []Coord!SyncInv
  BY CoordAssumptions, Coord!SyncCorrect
<1>2. Coord!SyncInv => Coord!ReporterInSync /\ Coord!DropsReachTheBus
  BY CoordAssumptions, Coord!SyncShows
<1>3. Coord!OpenSpec => Coord!ReporterSpec
  BY CoordAssumptions, Coord!OpenRefinesReporter
<1>4. Coord!ReporterSpec => []Coord!RoundMessagesInOrder
  BY CoordAssumptions, Coord!RoundMessagesInOrderCorrect
<1>5. Coord!ReporterSpec => []Coord!NoStageSkipped
  BY CoordAssumptions, Coord!NoStageSkippedCorrect
<1> QED
  BY <1>1, <1>2, <1>3, <1>4, <1>5, OpenRun, PTL

(* No stage but the first is announced of an r-th round before the          *)
(* coordinator has started a round for the r-th time, be it, after a         *)
(* roll-back, one it gives a number it has used before.                    *)
THEOREM BegunWhenAnnounced == Spec => [](Coord!AnnouncedInv /\ Coord!StartsAtZero)
<1>1. Coord!OpenSpec => []Coord!AnnouncedInv
  BY CoordAssumptions, Coord!AnnouncedCorrect
<1>2. Coord!OpenSpec => []Coord!StartsAtZero
  BY CoordAssumptions, Coord!StartsAtZeroCorrect
<1> QED
  BY <1>1, <1>2, OpenRun, PTL

(* Every set of numbers with something in it has a least one.              *)
LEMMA Least ==
    ASSUME NEW S \in SUBSET Nat, S # {}
    PROVE  \E k \in S : \A j \in S : k <= j
<1>1. OpToRel(<, Nat) = {p \in Nat \X Nat : p[1] < p[2]}
  BY Zenon DEF OpToRel
<1>2. PICK k \in S : \A j \in S : ~ (<<j, k>> \in OpToRel(<, Nat))
  BY NatLessThanWellFounded, WFMin
<1>3. ASSUME NEW j \in S PROVE k <= j
  <2>1. ~ (<<j, k>> \in {p \in Nat \X Nat : p[1] < p[2]})
    BY <1>1, <1>2, Zenon
  <2>2. j \in Nat /\ k \in Nat
    OBVIOUS
  <2>3. ~ (j < k)
    BY <2>1, <2>2
  <2> QED
    BY <2>2, <2>3
<1> QED
  BY <1>3

(* No round has more than one contributor that starts with it.             *)
OneEach == \A r \in 1 .. Rounds : \A c, d \in ToSet(Starting[r]) : c = d

(* Nobody has been told to stop: among the first n messages, or at all.    *)
QuietUntil(n) == \A k \in 1 .. n : ~ IsShutdownMessage(log[k])
Quiet == QuietUntil(Len(log))

(* The points of a round before its participants have been checked.        *)
Unchecked == {"contributors", "waiters", "await_start"}

(* The contributors that have come for the round.                          *)
Came == {c \in Contributors : Up(c)} \ ToSet(Replacements)

(* The contributors of the round the main thread is in.                    *)
TheirRound == ToSet(Starting[main.round])

(* When the coordinator has started as many rounds as the main thread, some *)
(* contributor of that round has been in one.  It does not start one more:  *)
(* it would need others.  Of several it may leave some over, and start with  *)
(* them too early; but then the check of the participants fails, as they are *)
(* never all in the same state file.                                       *)
RosterInv ==
    /\ \A n \in 1 .. MaxWaits : coord.rosters[n] \subseteq coord.taken
    /\ (OneEach \/ Quiet) /\ Alive /\ ~ main.errors =>
          /\ main.round > 0 /\ Coord!CoordinatorBegan(main.round) =>
                 coord.taken \cap TheirRound # {}
          /\ Coord!CoordinatorBegan(main.round + 1) =>
                 /\ ~ OneEach /\ main.pc \in Unchecked
                 /\ ~ (TheirRound \subseteq Roster)
          /\ ~ OneEach /\ main.round > 0 /\ main.pc \notin Unchecked =>
                 TheirRound \subseteq coord.taken

(* A waiter that has not met a Shutdown has its message, and one that has, *)
(* has not come to rest in quiet.                                          *)
LEMMA WaiterHas ==
    ASSUME log \in Seq(CeremonyMessage), NEW rx \in Nat, NEW m
    PROVE  /\ Waiters!WaiterResult(rx, m) = "MessagesReceived" => Sent(m)
           /\ Waiters!WaiterResult(rx, m) = "Shutdown" => ~ Quiet
<1> DEFINE S == Waiters!Settles(rx, m)
           first == CHOOSE k \in S : \A j \in S : k <= j
<1>1. S \subseteq 1 .. Len(log) /\ S \in SUBSET Nat
      /\ \A k \in S : log[k] = m \/ Waiters!IsShutdownMessage(log[k])
  BY DEF Waiters!Settles, Waiters!Unread
<1>2. S # {} => first \in S
  BY <1>1, Least
<1>3. Waiters!WaiterResult(rx, m) =
          IF S = {} THEN "waiting"
          ELSE IF Waiters!IsShutdownMessage(log[first]) THEN "Shutdown" ELSE "MessagesReceived"
  BY DEF Waiters!WaiterResult
<1> HIDE DEF first, S
<1>4. \A k \in 1 .. Len(log) : Waiters!IsShutdownMessage(log[k]) => ~ Quiet
  BY DEF Waiters!IsShutdownMessage, IsShutdownMessage, Quiet, QuietUntil
<1> QED
  BY <1>1, <1>2, <1>3, <1>4 DEF Sent

(* Whoever has come belongs to the round of the main thread.               *)
LEMMA CameForThis ==
    ASSUME DOMAIN StartAfter = {}, MainInv, JoinedInv, FutureInv
    PROVE  \A c \in Came : main.round \in 1 .. Rounds /\ c \in ToSet(Starting[main.round])
<1> SUFFICES ASSUME NEW c \in Came
             PROVE  main.round \in 1 .. Rounds /\ c \in ToSet(Starting[main.round])
  OBVIOUS
<1>1. c \in Contributors /\ child[c] = "running" /\ c \notin ToSet(Replacements)
  BY DEF Came, Up
<1>2. PICK q \in 1 .. Rounds : c \in ToSet(Starting[q])
  BY <1>1, KindsAssumption
<1>3. main.round \in 0 .. Rounds /\ Rounds \in Nat
  BY Lists DEF MainInv
<1>4. ~ q > main.round
  BY <1>1, <1>2 DEF FutureInv
<1>5. ~ q < main.round
  BY <1>1, <1>2 DEF JoinedInv, RoundJoined, JoinedWell, Processes!Ended
<1>6. q = main.round
  BY <1>3, <1>4, <1>5
<1> QED
  BY <1>2, <1>6

(* What the coordinator does to the rosters, and to the rounds begun.      *)
LEMMA RosterMoves ==
    ASSUME TypeOK, Coord!StartsAtZero, CoordinatorStep \/ CoordinatorDropsFaulty
    PROVE  Coord!NoRoundBack /\ (Coord!BeginsRound(Came) \/ Coord!BeginsNone)
<1>1. PICK present, standby \in SUBSET Contributors, droppable \in SUBSET Participants,
            chatty \in SUBSET Setup!CoordinatorPhases :
              Coord!CoordinatorNext(Came, present, standby, droppable, chatty)
  BY CoordinatorActs DEF Came
<1> QED
  BY <1>1, CoordinatorTyped, CoordAssumptions, Coord!CoordinatorEffects

(* Either the coordinator takes the step, and the main thread and the bus do *)
(* not notice, or it stays as it is.                                       *)
LEMMA CoordinatorOrOthers ==
    ASSUME TypeOK, MainInv, [Next]_vars
    PROVE  \/ coord' = coord
           \/ (CoordinatorStep \/ CoordinatorDropsFaulty) /\ main' = main /\ log' = log
<1>1. MainStep \/ ReturnsError => coord' = coord \/ ~ Alive
  BY MainStepEffects DEF MainEffects, coordinatorVars
<1>2. CoordinatorStep \/ CoordinatorDropsFaulty => main' = main /\ log' = log
  BY CoordinatorMoves DEF TypeOK, CoordinatorStep, CoordinatorDropsFaulty, mainVars
<1>3. \/ TimeLimitStep \/ ReporterStep \/ DropStep \/ ChildFault \/ UNCHANGED vars
      \/ \E p \in AllProcesses : ProcessStep(p)
      \/ \E c \in Contributors : ContributorStep(c)
      \/ \E c \in DOMAIN StartAfter : WaiterStarts(c) \/ WaiterFails(c)
      => coord' = coord
  BY DEF TimeLimitStep, TimeLimitExpires, TimeLimitStops, ReporterStep, DropStep, ChildFault,
     ProcessStep, ContributorStep, WaiterStarts, WaiterFails, coordinatorVars, vars
<1> QED
  BY <1>1, <1>2, <1>3 DEF Next, AllProcesses

(* A stage that has been announced is one of a round that has begun.       *)
LEMMA AnnouncedBegan ==
    ASSUME Coord!AnnouncedInv, NEW k \in 1 .. Len(log), NEW r,
           NEW t \in RoundMessageTypes \ {"RoundWaitingForParticipants"},
           log[k] = RoundMessage(t, r)
    PROVE  Coord!CoordinatorBegan(r)
<1>1. log[k].type = t /\ log[k].round = r
  BY DEF RoundMessage
<1>2. Coord!IsRoundMessage(log[k])
  BY <1>1 DEF Coord!IsRoundMessage, Coord!RoundMessageTypes, RoundMessageTypes
<1> QED
  BY <1>1, <1>2 DEF Coord!AnnouncedInv

(* A step of the coordinator keeps RosterInv.                              *)
LEMMA RosterKept ==
    ASSUME DOMAIN StartAfter = {}, TypeOK, MainInv, JoinedInv, FutureInv, RosterInv,
           Coord!StartsAtZero, CoordinatorStep \/ CoordinatorDropsFaulty,
           main' = main, log' = log
    PROVE  RosterInv'
<1>1. /\ \A n \in Nat : Coord!CoordinatorBegan(n) => Coord!CoordinatorBegan(n)'
      /\ Coord!BeginsRound(Came) \/ Coord!BeginsNone
  BY RosterMoves DEF Coord!NoRoundBack
<1>2. PICK r \in Nat : r = main.round
  BY Lists DEF MainInv
<1>3. Alive' = Alive /\ Quiet' = Quiet /\ main'.errors = main.errors /\ main'.pc = main.pc
      /\ main'.round = r
  BY <1>2 DEF Alive, Over, Quiet, QuietUntil
<1>4. PICK theirs : theirs = TheirRound /\ TheirRound' = theirs
  BY <1>2, <1>3 DEF TheirRound
<1>5. CASE Coord!BeginsNone
  <2>1. /\ coord'.taken = coord.taken /\ coord'.rosters = coord.rosters
        /\ Coord!CoordinatorBegan(r + 1)' <=> Coord!CoordinatorBegan(r + 1)
        /\ r > 0 => (Coord!CoordinatorBegan(r)' <=> Coord!CoordinatorBegan(r))
    BY <1>5 DEF Coord!BeginsNone
  <2>2. Roster' = Roster
    BY <1>2, <1>3, <2>1 DEF Roster
  <2> QED
    BY <1>2, <1>3, <1>4, <2>1, <2>2 DEF RosterInv
<1>6. CASE Coord!BeginsRound(Came)
  <2>1. PICK new \in SUBSET Came :
            /\ new # {} /\ new \cap coord.taken = {}
            /\ coord'.taken = coord.taken \cup new
            /\ coord'.rosters = [coord.rosters EXCEPT ![coord.round] = new]
    BY <1>6 DEF Coord!BeginsRound
  <2>2. /\ coord.phase = "waiting" /\ coord.waits \in Nat /\ coord'.waits = coord.waits
        /\ coord.rosters \in [1 .. MaxWaits -> SUBSET Contributors]
    BY <1>6 DEF Coord!BeginsRound, TypeOK, Setup!TypeOK, Setup!CoordinatorTypeOK
  <2>3. r > 0 /\ r <= Rounds /\ new \subseteq theirs
    BY <1>2, <1>4, <2>1, CameForThis DEF TheirRound
  <2>4. /\ Coord!CoordinatorBegan(r + 1)' => Coord!CoordinatorBegan(r)
        /\ Coord!CoordinatorBegan(r) => Coord!CoordinatorBegan(r)'
    BY <1>1, <2>2 DEF Coord!CoordinatorBegan
  <2>5. \A n \in 1 .. MaxWaits : coord'.rosters[n] = new \/ coord'.rosters[n] = coord.rosters[n]
    BY <2>1, <2>2
  <2>6. \A n \in 1 .. MaxWaits : coord'.rosters[n] \subseteq coord'.taken
    BY <2>1, <2>5 DEF RosterInv
  <2>7. r \in 1 .. MaxWaits /\ Roster' = coord'.rosters[r]
    BY <1>3, <2>3, TestAssumption, Lists DEF Roster
  <2> SUFFICES ASSUME OneEach \/ Quiet, Alive, ~ main.errors PROVE RosterInv'
    BY <1>3, <2>6 DEF RosterInv
  <2>8. Coord!CoordinatorBegan(r) => coord.taken \cap theirs # {}
    BY <1>2, <1>4, <2>3 DEF RosterInv
  <2>9. ~ (theirs \subseteq coord.taken)
    BY <2>1, <2>3
  <2>10. ~ OneEach => main.pc \in Unchecked
    BY <1>2, <1>4, <2>3, <2>9 DEF RosterInv
  <2>11. Coord!CoordinatorBegan(r) => ~ OneEach
    <3> SUFFICES ASSUME Coord!CoordinatorBegan(r), OneEach PROVE FALSE
      OBVIOUS
    <3>1. \A c, d \in theirs : c = d
      <4>1. r \in 1 .. Rounds
        BY <2>3, Lists
      <4> QED
        BY <1>2, <1>4, <4>1, Zenon DEF OneEach, TheirRound
    <3> QED
      BY <2>8, <2>9, <3>1
  <2>12. Coord!CoordinatorBegan(r) => ~ (theirs \subseteq Roster')
    <3>1. coord'.rosters[r] = new \/ coord'.rosters[r] \subseteq coord.taken
      BY <2>5, <2>7 DEF RosterInv
    <3> QED
      BY <2>1, <2>7, <2>8, <2>9, <3>1
  <2>13. coord'.taken \cap theirs # {}
    BY <2>1, <2>3
  <2> QED
    BY <1>3, <1>4, <2>4, <2>6, <2>10, <2>11, <2>12, <2>13 DEF RosterInv
<1> QED
  BY <1>1, <1>5, <1>6

(* What the main thread has found out when the participants of the round   *)
(* have been checked, in quiet.                                            *)
LEMMA RosterChecked ==
    ASSUME TypeOK, MainInv, Quiet, RoundStarts
    PROVE  TheirRound \subseteq Roster
<1>1. log \in Seq(CeremonyMessage) /\ main.rx \in Nat
  BY DEF TypeOK, MainInv
<1>2. CheckPasses
  BY <1>1, WaiterHas DEF RoundStarts, RoundWaiter
<1> QED
  BY <1>2 DEF CheckPasses, StateFiles, TheirRound

(* A step of anybody else keeps RosterInv.                                 *)
LEMMA RosterPassed ==
    ASSUME TypeOK, MainInv, RosterInv, [Next]_vars, coord' = coord
    PROVE  RosterInv'
<1>1. Effects /\ log \in Seq(CeremonyMessage)
  BY StepEffects, TypesOfParts
<1>2. Quiet' => Quiet
  BY <1>1, LogGrows DEF Quiet, QuietUntil, IsShutdownMessage
<1>3. PICK r \in Nat : r = main.round
  BY Lists DEF MainInv
<1>4. /\ \A n \in Nat : Coord!CoordinatorBegan(n)' <=> Coord!CoordinatorBegan(n)
      /\ Coord!CoordinatorBegan((r + 1) + 1) => Coord!CoordinatorBegan(r + 1)
  BY DEF Coord!CoordinatorBegan, TypeOK, Setup!TypeOK, Setup!CoordinatorTypeOK
<1>5. CASE main' = main
  BY <1>2, <1>3, <1>4, <1>5 DEF RosterInv, Alive, Over, TheirRound, Roster
<1>6. CASE MainMoves /\ (MainStep \/ ReturnsError)
  <2> SUFFICES ASSUME OneEach \/ Quiet', Alive', ~ main'.errors PROVE RosterInv'
    BY DEF RosterInv
  <2>1. <<main.pc, main'.pc>> \in Edges
    BY <1>6 DEF MainMoves, Alive, Over
  <2>2. OneEach \/ Quiet
    BY <1>2
  <2>3. ~ main.errors /\ ~ RoundStartsWithout
    BY <1>6 DEF MainMoves, RoundStartsWithout, MainInv
  <2>4. Alive
    BY <2>1 DEF Alive, Over, Edges
  <2>5. CASE RoundBegins
    <3>1. /\ main.pc = "round" /\ main'.round = r + 1
          /\ main'.pc \in {"contributors", "waiters"}
      BY <1>3, <2>5, Continuations DEF RoundBegins, At, MainInv
    <3>2. ~ Coord!CoordinatorBegan(r + 1)
      BY <1>3, <2>2, <2>3, <2>4, <3>1 DEF RosterInv, Unchecked
    <3> QED
      BY <1>3, <1>4, <3>1, <3>2 DEF RosterInv, Unchecked
  <2>6. CASE ~ RoundBegins
    <3>1. /\ main'.round = r /\ ~ (At("round") /\ main'.pc \in {"contributors", "waiters"})
          /\ TheirRound' = TheirRound /\ Roster' = Roster
      BY <1>3, <1>6, <2>6 DEF MainMoves, TheirRound, Roster
    <3>2. CASE main'.pc \in Unchecked <=> main.pc \in Unchecked
      BY <1>3, <1>4, <2>2, <2>3, <2>4, <3>1, <3>2 DEF RosterInv
    <3>3. CASE main.pc \in Unchecked /\ main'.pc \notin Unchecked
      <4>1. At("await_start") /\ r \in 1 .. MaxWaits
        BY <1>3, <2>1, <3>3, TestAssumption, Lists DEF Edges, Unchecked, At, MainInv, MainShape,
           InRound
      <4>2. RoundStarts
        BY <1>6, <2>3, <4>1, ActionAt
      <4>3. Quiet => TheirRound \subseteq Roster /\ TheirRound \subseteq coord.taken
        BY <1>3, <4>1, <4>2, RosterChecked DEF RosterInv, Roster
      <4> QED
        BY <1>3, <1>4, <2>2, <2>3, <2>4, <3>1, <4>3 DEF RosterInv
    <3> QED
      BY <2>1, <3>1, <3>2, <3>3 DEF Edges, Unchecked, At
  <2> QED
    BY <2>5, <2>6
<1> QED
  BY <1>1, <1>5, <1>6 DEF Effects

(* RosterInv holds throughout: if nobody joins in the middle of a round, the *)
(* coordinator does not start more rounds than the main thread, without the  *)
(* participants' check finding it out.                                     *)
THEOREM RosterCorrect ==
    ASSUME DOMAIN StartAfter = {}
    PROVE  Spec => []RosterInv
<1>1. Init => RosterInv
  BY DEF Init, Setup!CoordinatorInit, RosterInv, Coord!CoordinatorBegan
<1>2. /\ TypeOK /\ MainInv /\ JoinedInv /\ FutureInv /\ RosterInv
      /\ Coord!AnnouncedInv /\ Coord!StartsAtZero /\ [Next]_vars
      => RosterInv'
  BY CoordinatorOrOthers, RosterKept, RosterPassed
<1> QED
  BY <1>1, <1>2, IntegrationTypeCorrect, JoinedCorrect, FutureCorrect, BegunWhenAnnounced, PTL
     DEF Spec

(* The stages of a round that its waiters wait for.                        *)
Awaited == RoundMessageTypes \ {"RoundWaitingForParticipants"}

(* In its round the main thread has receivers made before a stage of it was *)
(* announced.                                                              *)
TimelyInv ==
    main.pc \in InRound /\ (OneEach \/ QuietUntil(main.rx)) =>
        \A t \in Awaited : \A k \in 1 .. main.rx : log[k] # RoundMessage(t, main.round)

(* The receivers of the waiters are made when the round begins, and stay.  *)
LEMMA ReceiversStay ==
    ASSUME TypeOK, MainInv, [Next]_vars
    PROVE  main'.rx = main.rx \/ RoundBegins
<1>1. MainStep \/ ReturnsError \/ main' = main
  BY StepEffects DEF Effects
<1> QED
  BY <1>1 DEF MainStep, ReturnsError, StartsCoordinator, StartsProcess, CoordinatorReady,
     SpawnsWaiters, RoundStarts, RoundStartsWithout, RoundEnds, JoinsProcess, JoinsLater,
     JoinsWaiter, JoinsDrops, ShutsDown, JoinsTimeLimit, Goto, GotoWith, MainInv

(* A round begins before its coordinator has.                              *)
LEMMA TimelyStep ==
    ASSUME TypeOK, MainInv, ErrorInv, Coord!AnnouncedInv, RosterInv, TimelyInv, [Next]_vars
    PROVE  TimelyInv'
<1>1. /\ Effects /\ log \in Seq(CeremonyMessage) /\ Len(log) \in Nat
      /\ main.rx \in 0 .. Len(log) /\ main.round \in Nat
  BY StepEffects, TypesOfParts, Lists DEF TypeOK, MainInv
<1>2. \A k \in 1 .. Len(log) : log'[k] = log[k]
  BY <1>1, LogGrows
<1>3. CASE RoundBegins
  <2>1. /\ main.pc = "round" /\ main'.round = main.round + 1 /\ main'.rx = Len(log)
        /\ log' = log
    BY <1>3 DEF RoundBegins, At, MainInv, LogEnd
  <2>2. ~ main.errors /\ Alive
    BY <2>1 DEF ErrorInv, ErrorsKept, Alive, Over
  <2>3. QuietUntil(main.rx)' => Quiet
    BY <2>1 DEF QuietUntil, Quiet, IsShutdownMessage
  <2> SUFFICES ASSUME OneEach \/ QuietUntil(main.rx)',
                      NEW t \in Awaited, NEW k \in 1 .. Len(log),
                      log[k] = RoundMessage(t, main.round + 1)
               PROVE  FALSE
    BY <2>1 DEF TimelyInv
  <2>4. Coord!CoordinatorBegan(main.round + 1)
    BY AnnouncedBegan DEF Awaited
  <2> QED
    BY <2>1, <2>2, <2>3, <2>4 DEF RosterInv, Unchecked
<1>4. CASE ~ RoundBegins
  <2>1. main'.rx = main.rx /\ main'.round = main.round
    BY <1>1, <1>4, ReceiversStay DEF Effects, MainMoves
  <2>2. main'.pc \in InRound => main.pc \in InRound
    BY <1>1, <1>4 DEF Effects, MainMoves, Edges, InRound, At
  <2>3. QuietUntil(main.rx)' => QuietUntil(main.rx)
    BY <1>1, <1>2, <2>1 DEF QuietUntil, IsShutdownMessage
  <2> QED
    BY <1>1, <1>2, <2>1, <2>2, <2>3 DEF TimelyInv
<1> QED
  BY <1>3, <1>4

(* TimelyInv holds throughout.                                             *)
LEMMA TimelyCorrect ==
    ASSUME DOMAIN StartAfter = {}
    PROVE  Spec => []TimelyInv
<1>1. Init => TimelyInv
  BY DEF Init, TimelyInv, InRound
<1>2. /\ TypeOK /\ MainInv /\ ErrorInv /\ RosterInv /\ TimelyInv
      /\ Coord!AnnouncedInv /\ [Next]_vars
      => TimelyInv'
  BY TimelyStep
<1> QED
  BY <1>1, <1>2, IntegrationTypeCorrect, ErrorCorrect, RosterCorrect, BegunWhenAnnounced, PTL
     DEF Spec

(* What TimelyInv says of the points at which the waiters are joined.      *)
LEMMA TimelyShows ==
    TimelyInv /\ (OneEach \/ QuietUntil(main.rx)) => WaitersInTime
BY DEF TimelyInv, WaitersInTime, InRound, At, Awaited, RoundMessageTypes

(* WaitersInTime: where every round has one contributor that starts with it, *)
(* and nobody joins later, no waiter of a round is too late for its message, *)
(* whatever goes wrong and whoever is told to stop.                        *)
THEOREM WaitersAlwaysInTime ==
    ASSUME DOMAIN StartAfter = {}, OneEach
    PROVE  Spec => []WaitersInTime
BY TimelyCorrect, TimelyShows, PTL

(* With any number of contributors to a round it is so unless a Shutdown had *)
(* been broadcast before the round began.                                  *)
THEOREM WaitersInTimeInQuiet ==
    ASSUME DOMAIN StartAfter = {}
    PROVE  Spec => [](QuietUntil(main.rx) => WaitersInTime)
BY TimelyCorrect, TimelyShows, PTL
================================================================================
