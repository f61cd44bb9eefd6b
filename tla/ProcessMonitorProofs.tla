-------------------------- MODULE ProcessMonitorProofs --------------------------
(***************************************************************************)
(* No process is killed without cause, for every number of processes and    *)
(* contributors, every drop configuration and every length of the log.      *)
(*                                                                         *)
(* A SIGTERM is sent for a Shutdown or for the terminate flag; the flag is  *)
(* set by the ceremony thread, which goes by its own count.  The invariant  *)
(* adds the links: a thread that is about to send one has a cause in the    *)
(* log, and so has a flag that is set; and the count is never above the      *)
(* contributions in the part of the log that the ceremony thread has handled. *)
(***************************************************************************)
EXTENDS ProcessMonitor, TLAPS, FiniteSetTheorems

(* In the messages s: the contributions of c among the first n, and what     *)
(* asks for the end of contributor p.                                      *)
CountIn(s, n, c) == Cardinality({k \in 1 .. n : s[k] = SuccessfulContribution(c)})

AskedFor(s, p) ==
    /\ p \in Contributors
    /\ \/ \E k \in 1 .. Len(s) : s[k].type = "RoundFinished"
       \/ p \in DOMAIN DropAfter /\ CountIn(s, Len(s), p) >= DropAfter[p]

InTheLog == \A c \in Contributors : ceremonyRx[c] <= Len(log)

CountSound ==
    \A c \in Contributors : contributions[c] <= CountIn(log, ceremonyRx[c], c)

FlagHasCause == \A p \in Processes : terminate[p] => AskedFor(log, p)

NotStarted == \A c \in Contributors :
                  child[c] = "none" => ceremony[c] = "none" /\ contributions[c] = 0

SigtermHasCause ==
    \A p \in Processes : messages[p] = "terminating" =>
        \/ \E k \in (messagesRx[p] + 1) .. Len(log) : log[k].type = "Shutdown"
        \/ AskedFor(log, p)

CauseInv == /\ TypeOK /\ InTheLog /\ NotStarted /\ CountSound
            /\ FlagHasCause /\ SigtermHasCause /\ KilledWithCause

--------------------------------------------------------------------------------
LEMMA Appending ==
    ASSUME NEW s \in Seq(CeremonyMessage), NEW m \in CeremonyMessage
    PROVE  /\ Append(s, m) \in Seq(CeremonyMessage)
           /\ Len(s) \in Nat
           /\ Len(Append(s, m)) = Len(s) + 1
           /\ \A k \in 1 .. Len(s) : Append(s, m)[k] = s[k]
OBVIOUS

(* Counting: the contributions among more messages are more.               *)
LEMMA CountGrows ==
    ASSUME NEW s, NEW c, NEW i \in Nat, NEW j \in Nat, i <= j
    PROVE  /\ CountIn(s, i, c) \in Nat /\ CountIn(s, j, c) \in Nat
           /\ CountIn(s, i, c) <= CountIn(s, j, c)
<1> DEFINE S(n) == {k \in 1 .. n : s[k] = SuccessfulContribution(c)}
<1>1. \A n \in Nat : IsFiniteSet(S(n))
  <2> TAKE n \in Nat
  <2>1. IsFiniteSet(1 .. n)
    BY FS_Interval
  <2>2. S(n) \subseteq 1 .. n
    OBVIOUS
  <2> QED
    BY <2>1, <2>2, FS_Subset
<1>2. S(i) \subseteq S(j)
  OBVIOUS
<1>3. Cardinality(S(i)) <= Cardinality(S(j))
  BY <1>1, <1>2, FS_Subset
<1>4. Cardinality(S(i)) \in Nat /\ Cardinality(S(j)) \in Nat
  BY <1>1, FS_CardinalityType
<1> QED
  BY <1>3, <1>4 DEF CountIn

(* One more contribution is one more at least.                             *)
LEMMA CountNext ==
    ASSUME NEW s, NEW c, NEW i \in Nat, NEW j \in Nat, i < j,
           s[j] = SuccessfulContribution(c)
    PROVE  CountIn(s, i, c) + 1 <= CountIn(s, j, c)
<1> DEFINE S(n) == {k \in 1 .. n : s[k] = SuccessfulContribution(c)}
<1>1. \A n \in Nat : IsFiniteSet(S(n))
  <2> TAKE n \in Nat
  <2>1. IsFiniteSet(1 .. n)
    BY FS_Interval
  <2>2. S(n) \subseteq 1 .. n
    OBVIOUS
  <2> QED
    BY <2>1, <2>2, FS_Subset
<1>2. S(i) \cup {j} \subseteq S(j) /\ j \notin S(i)
  OBVIOUS
<1>3. IsFiniteSet(S(i) \cup {j}) /\ Cardinality(S(i) \cup {j}) = Cardinality(S(i)) + 1
  BY <1>1, <1>2, FS_AddElement
<1>4. Cardinality(S(i) \cup {j}) <= Cardinality(S(j))
  BY <1>1, <1>2, FS_Subset
<1> QED
  BY <1>3, <1>4 DEF CountIn

(* A message at the end changes no count that does not take it in.         *)
LEMMA CountStays ==
    ASSUME NEW s \in Seq(CeremonyMessage), NEW m \in CeremonyMessage, NEW c,
           NEW n \in Nat, n <= Len(s)
    PROVE  CountIn(Append(s, m), n, c) = CountIn(s, n, c)
<1>1. \A k \in 1 .. n : Append(s, m)[k] = s[k]
  BY Appending
<1>2. {k \in 1 .. n : Append(s, m)[k] = SuccessfulContribution(c)}
        = {k \in 1 .. n : s[k] = SuccessfulContribution(c)}
  BY <1>1
<1> QED
  BY <1>2 DEF CountIn

(* What was asked for stays asked for.                                     *)
LEMMA AskedStays ==
    ASSUME NEW s \in Seq(CeremonyMessage), NEW m \in CeremonyMessage, NEW p, AskedFor(s, p)
    PROVE  AskedFor(Append(s, m), p)
<1> DEFINE t == Append(s, m)
<1>1. /\ Len(s) \in Nat /\ Len(t) = Len(s) + 1
      /\ \A k \in 1 .. Len(s) : t[k] = s[k]
  BY Appending
<1>2. CASE \E k \in 1 .. Len(s) : s[k].type = "RoundFinished"
  <2>1. \E k \in 1 .. Len(t) : t[k].type = "RoundFinished"
    BY <1>1, <1>2
  <2> QED
    BY <2>1 DEF AskedFor
<1>3. CASE p \in DOMAIN DropAfter /\ CountIn(s, Len(s), p) >= DropAfter[p]
  <2>1. CountIn(t, Len(s), p) = CountIn(s, Len(s), p)
    BY <1>1, CountStays
  <2>2. /\ CountIn(t, Len(s), p) \in Nat /\ CountIn(t, Len(t), p) \in Nat
        /\ CountIn(t, Len(s), p) <= CountIn(t, Len(t), p)
    BY <1>1, CountGrows
  <2>3. p \in Contributors /\ DropAfter[p] \in Nat
    BY <1>3, ProcessesAssumption
  <2>4. CountIn(t, Len(t), p) >= DropAfter[p]
    BY <1>3, <2>1, <2>2, <2>3
  <2> QED
    BY <1>3, <2>3, <2>4 DEF AskedFor
<1> QED
  BY <1>2, <1>3 DEF AskedFor

(* KilledWithCause in these terms.                                         *)
Killed(s, p) == child[p] = "stopping" =>
                    \/ \E k \in (messagesRx[p] + 1) .. Len(s) : s[k].type = "Shutdown"
                    \/ AskedFor(s, p)

LEMMA KilledMeans == KilledWithCause <=> \A p \in Processes : Killed(log, p)
<1>1. \A p : Cardinality(ContributionsOf(p)) = CountIn(log, Len(log), p)
  BY DEF ContributionsOf, CountIn, Unread
<1>2. RoundOver(0) <=> \E k \in 1 .. Len(log) : log[k].type = "RoundFinished"
  BY DEF RoundOver, Unread
<1>3. \A p : ShutdownUnread(messagesRx[p])
               <=> \E k \in (messagesRx[p] + 1) .. Len(log) : log[k].type = "Shutdown"
  BY DEF ShutdownUnread, Unread, IsShutdownMessage
<1> QED
  BY <1>1, <1>2, <1>3 DEF KilledWithCause, Killed, AskedFor

(* The same of the next state.                                             *)
LEMMA KilledMeansNext == (\A p \in Processes : Killed(log, p))' => KilledWithCause'
<1>1. \A p : Cardinality(ContributionsOf(p))' = CountIn(log', Len(log'), p)
  BY DEF ContributionsOf, CountIn, Unread
<1>2. RoundOver(0)' <=> \E k \in 1 .. Len(log') : log'[k].type = "RoundFinished"
  BY DEF RoundOver, Unread
<1>3. \A p : ShutdownUnread(messagesRx[p])'
               <=> \E k \in (messagesRx'[p] + 1) .. Len(log') : log'[k].type = "Shutdown"
  BY DEF ShutdownUnread, Unread, IsShutdownMessage
<1> QED
  BY <1>1, <1>2, <1>3 DEF KilledWithCause, Killed, AskedFor

--------------------------------------------------------------------------------
(* Steps that broadcast a message and change nothing but who has said so.   *)
LEMMA LogStep ==
    ASSUME CauseInv, TypeOK', NEW m \in CeremonyMessage, log' = Append(log, m),
           UNCHANGED <<child, messagesRx, terminate, ceremony, ceremonyRx, contributions>>,
           \A p \in Processes : messages'[p] = "terminating" => messages[p] = "terminating"
    PROVE  CauseInv'
<1>1. /\ log \in Seq(CeremonyMessage) /\ Len(log) \in Nat
      /\ Len(log') = Len(log) + 1 /\ \A k \in 1 .. Len(log) : log'[k] = log[k]
  BY Appending DEF CauseInv, TypeOK
<1>2. \A c \in Contributors : ceremonyRx[c] \in Nat /\ ceremonyRx[c] <= Len(log)
  BY DEF CauseInv, TypeOK, ProcessTypeOK, InTheLog
<1>3. InTheLog' /\ NotStarted'
  BY <1>1, <1>2 DEF CauseInv, InTheLog, NotStarted
<1>4. CountSound'
  <2>1. \A c \in Contributors : CountIn(log', ceremonyRx[c], c) = CountIn(log, ceremonyRx[c], c)
    BY <1>1, <1>2, CountStays
  <2> QED
    BY <2>1 DEF CauseInv, CountSound
<1>5. \A p : AskedFor(log, p) => AskedFor(log', p)
  BY <1>1, AskedStays
<1>6. FlagHasCause'
  BY <1>5 DEF CauseInv, FlagHasCause, Processes
<1>7. \A p \in Processes : Killed(log, p)
  BY KilledMeans DEF CauseInv
<1>8. \A p \in Processes : messagesRx[p] \in Nat
  BY DEF CauseInv, TypeOK, ProcessTypeOK
<1>9. ASSUME NEW p \in Processes,
             \/ \E k \in (messagesRx[p] + 1) .. Len(log) : log[k].type = "Shutdown"
             \/ AskedFor(log, p)
      PROVE  \/ \E k \in (messagesRx[p] + 1) .. Len(log') : log'[k].type = "Shutdown"
             \/ AskedFor(log', p)
  <2>1. CASE \E k \in (messagesRx[p] + 1) .. Len(log) : log[k].type = "Shutdown"
    <3>1. PICK k \in (messagesRx[p] + 1) .. Len(log) : log[k].type = "Shutdown"
      BY <2>1
    <3>2. k \in 1 .. Len(log) /\ k \in (messagesRx[p] + 1) .. Len(log')
      BY <1>1, <1>8, <3>1
    <3> QED
      BY <1>1, <3>1, <3>2
  <2>2. CASE AskedFor(log, p)
    BY <1>5, <2>2
  <2> QED
    BY <1>9, <2>1, <2>2
<1>10. KilledWithCause'
  <2> SUFFICES ASSUME NEW p \in Processes, child[p] = "stopping"
               PROVE  \/ \E k \in (messagesRx[p] + 1) .. Len(log') : log'[k].type = "Shutdown"
                      \/ AskedFor(log', p)
    BY KilledMeansNext DEF Killed, Processes
  <2> QED
    BY <1>7, <1>9 DEF Killed
<1>11. SigtermHasCause'
  <2> SUFFICES ASSUME NEW p \in Processes, messages'[p] = "terminating"
               PROVE  \/ \E k \in (messagesRx[p] + 1) .. Len(log') : log'[k].type = "Shutdown"
                      \/ AskedFor(log', p)
    BY DEF SigtermHasCause, Processes
  <2> QED
    BY <1>9 DEF CauseInv, SigtermHasCause
<1> QED
  BY <1>3, <1>4, <1>6, <1>10, <1>11 DEF CauseInv

(* Steps that leave the log and the ceremony threads alone: what is stopped *)
(* by them was about to be, and what is about to be has been told.          *)
LEMMA ChildStep ==
    ASSUME CauseInv, TypeOK',
           UNCHANGED <<log, messagesRx, terminate, ceremonyVars>>,
           \A p \in Processes : child'[p] = "none" => child[p] = "none",
           \A p \in Processes : child'[p] = "stopping" =>
               child[p] = "stopping" \/ messages[p] = "terminating",
           \A p \in Processes : messages'[p] = "terminating" =>
               messages[p] = "terminating" \/ ToldToTerminate(p)
    PROVE  CauseInv'
<1>1. InTheLog' /\ CountSound' /\ FlagHasCause'
  BY DEF CauseInv, ceremonyVars, InTheLog, CountSound, FlagHasCause, Processes
<1>2. NotStarted'
  BY DEF CauseInv, ceremonyVars, NotStarted, Processes
<1>3. \A p \in Processes : Killed(log, p)
  BY KilledMeans DEF CauseInv
<1>4. \A p \in Processes : ToldToTerminate(p) =>
          \/ \E k \in (messagesRx[p] + 1) .. Len(log) : log[k].type = "Shutdown"
          \/ AskedFor(log, p)
  BY DEF ToldToTerminate, ShutdownUnread, Unread, IsShutdownMessage, CauseInv, FlagHasCause
<1>5. KilledWithCause'
  <2> SUFFICES ASSUME NEW p \in Processes, child'[p] = "stopping"
               PROVE  \/ \E k \in (messagesRx[p] + 1) .. Len(log) : log[k].type = "Shutdown"
                      \/ AskedFor(log, p)
    BY KilledMeansNext DEF Killed, Processes
  <2> QED
    BY <1>3 DEF CauseInv, SigtermHasCause, Killed
<1>6. SigtermHasCause'
  <2> SUFFICES ASSUME NEW p \in Processes, messages'[p] = "terminating"
               PROVE  \/ \E k \in (messagesRx[p] + 1) .. Len(log) : log[k].type = "Shutdown"
                      \/ AskedFor(log, p)
    BY DEF SigtermHasCause, Processes
  <2> QED
    BY <1>4 DEF CauseInv, SigtermHasCause
<1> QED
  BY <1>1, <1>2, <1>5, <1>6 DEF CauseInv

(* Steps of a ceremony thread: it handles a message, counts it or not, and  *)
(* sets the flag of its process only if that was asked for.                *)
LEMMA CeremonyMoves ==
    ASSUME CauseInv, TypeOK',
           NEW c \in Contributors, NEW k \in Unread(ceremonyRx[c]),
           ceremony[c] = "listening",
           ceremonyRx' = [ceremonyRx EXCEPT ![c] = k],
           \/ contributions' = contributions
           \/ contributions' = [contributions EXCEPT ![c] = Counted(c, log[k])],
           UNCHANGED <<log, child, messages, messagesRx>>,
           \A d \in Contributors : d # c => ceremony'[d] = ceremony[d],
           \A p \in Processes : terminate'[p] => terminate[p] \/ AskedFor(log, p)
    PROVE  CauseInv'
<1>1. /\ log \in Seq(CeremonyMessage) /\ Len(log) \in Nat
      /\ ceremonyRx \in [Contributors -> Nat] /\ contributions \in [Contributors -> Nat]
  BY DEF CauseInv, TypeOK, ProcessTypeOK
<1>2. k \in Nat /\ ceremonyRx[c] \in Nat /\ ceremonyRx[c] < k /\ k <= Len(log)
  BY <1>1 DEF Unread
<1>3. InTheLog'
  BY <1>1, <1>2 DEF CauseInv, InTheLog
<1>4. NotStarted'
  <2> SUFFICES ASSUME NEW d \in Contributors, child[d] = "none"
               PROVE  ceremony'[d] = "none" /\ contributions'[d] = 0
    BY DEF NotStarted
  <2>1. ceremony[d] = "none" /\ contributions[d] = 0
    BY DEF CauseInv, NotStarted
  <2>2. d # c
    BY <2>1
  <2> QED
    BY <1>1, <2>1, <2>2
<1>5. CountSound'
  <2> SUFFICES ASSUME NEW d \in Contributors
               PROVE  contributions'[d] <= CountIn(log, ceremonyRx'[d], d)
    BY DEF CountSound
  <2>1. contributions[d] <= CountIn(log, ceremonyRx[d], d)
    BY DEF CauseInv, CountSound
  <2>2. CASE d # c
    BY <1>1, <2>1, <2>2
  <2>3. CASE d = c
    <3>1. ceremonyRx'[d] = k
      BY <1>1, <2>3
    <3>2. /\ CountIn(log, ceremonyRx[c], c) \in Nat /\ CountIn(log, k, c) \in Nat
          /\ CountIn(log, ceremonyRx[c], c) <= CountIn(log, k, c)
      BY <1>2, CountGrows
    <3>3. log[k] = SuccessfulContribution(c)
            => CountIn(log, ceremonyRx[c], c) + 1 <= CountIn(log, k, c)
      BY <1>2, CountNext
    <3>4. contributions'[c] = contributions[c] \/ contributions'[c] = Counted(c, log[k])
      BY <1>1
    <3>5. contributions'[c] <= CountIn(log, k, c)
      BY <1>1, <2>1, <2>3, <3>2, <3>3, <3>4 DEF Counted
    <3> QED
      BY <2>3, <3>1, <3>5
  <2> QED
    BY <2>2, <2>3
<1>6. FlagHasCause'
  BY DEF CauseInv, FlagHasCause, Processes
<1>7. KilledWithCause'
  <2>1. \A p \in Processes : Killed(log, p)
    BY KilledMeans DEF CauseInv
  <2>2. (\A p \in Processes : Killed(log, p))'
    BY <2>1 DEF Killed, Processes
  <2> QED
    BY <2>2, KilledMeansNext
<1>8. SigtermHasCause'
  BY DEF CauseInv, SigtermHasCause, Processes
<1> QED
  BY <1>3, <1>4, <1>5, <1>6, <1>7, <1>8 DEF CauseInv

(* Steps that start a process: it has asked for nothing, and its ceremony   *)
(* thread starts at a place of the log.                                    *)
LEMMA StartStep == ASSUME CauseInv, TypeOK', OthersStart PROVE CauseInv'
<1>1. /\ log \in Seq(CeremonyMessage) /\ Len(log) \in Nat
      /\ ceremonyRx \in [Contributors -> Nat] /\ contributions \in [Contributors -> Nat]
      /\ ceremony \in [Contributors -> CeremonyStates] /\ child \in [Processes -> ChildStates]
      /\ messagesRx \in [Processes -> Nat]
  BY DEF CauseInv, TypeOK, ProcessTypeOK
<1>2. PICK p \in Processes : RunMonitorProcess(p)
  BY DEF OthersStart, RunService, RunContributor, Processes
<1>3. log' = log /\ contributions' = contributions
  BY DEF OthersStart, RunService, RunContributor, ceremonyVars
<1>4. /\ child[p] = "none" /\ child' = [child EXCEPT ![p] = "running"]
      /\ messagesRx' = [messagesRx EXCEPT ![p] = Len(log)] /\ terminate' = terminate
  BY <1>2 DEF RunMonitorProcess, LogEnd
<1>5. \/ ceremony' = ceremony /\ ceremonyRx' = ceremonyRx
      \/ \E c \in Contributors, rx \in 0 .. Len(log) :
            /\ child[c] = "none" /\ child'[c] = "running"
            /\ ceremony' = [ceremony EXCEPT ![c] = "listening"]
            /\ ceremonyRx' = [ceremonyRx EXCEPT ![c] = rx]
  BY <1>1 DEF OthersStart, RunService, RunContributor, RunMonitorProcess, ceremonyVars,
              LogEnd, Processes
<1>6. InTheLog'
  BY <1>1, <1>3, <1>5 DEF CauseInv, InTheLog
<1>7. \A d \in Processes : child'[d] = "none" => child[d] = "none"
  BY <1>1, <1>4
<1>8. NotStarted'
  BY <1>1, <1>3, <1>5, <1>7 DEF CauseInv, NotStarted, Processes
<1>9. CountSound'
  <2> SUFFICES ASSUME NEW c \in Contributors
               PROVE  contributions[c] <= CountIn(log, ceremonyRx'[c], c)
    BY <1>3 DEF CountSound
  <2>1. CASE ceremonyRx'[c] = ceremonyRx[c]
    BY <2>1 DEF CauseInv, CountSound
  <2>2. CASE child[c] = "none" /\ ceremonyRx'[c] \in 0 .. Len(log)
    <3>1. contributions[c] = 0
      BY <2>2 DEF CauseInv, NotStarted
    <3>2. CountIn(log, ceremonyRx'[c], c) \in Nat
      BY <2>2, CountGrows
    <3> QED
      BY <3>1, <3>2
  <2> QED
    BY <1>1, <1>5, <2>1, <2>2
<1>10. FlagHasCause'
  BY <1>3, <1>4 DEF CauseInv, FlagHasCause, Processes
<1>11. KilledWithCause'
  <2>1. \A d \in Processes : Killed(log, d)
    BY KilledMeans DEF CauseInv
  <2>2. ASSUME NEW d \in Processes, child'[d] = "stopping"
        PROVE  child[d] = "stopping" /\ messagesRx'[d] = messagesRx[d]
    BY <1>1, <1>4, <2>2
  <2>3. (\A d \in Processes : Killed(log, d))'
    BY <1>3, <2>1, <2>2 DEF Killed, Processes
  <2> QED
    BY <2>3, KilledMeansNext
<1>12. SigtermHasCause'
  <2> SUFFICES ASSUME NEW d \in Processes, messages'[d] = "terminating"
               PROVE  \/ \E k \in (messagesRx'[d] + 1) .. Len(log) : log[k].type = "Shutdown"
                      \/ AskedFor(log, d)
    BY <1>3 DEF SigtermHasCause, Processes
  <2>1. messages[d] = "terminating" /\ messagesRx'[d] = messagesRx[d]
    BY <1>1, <1>2, <1>4 DEF RunMonitorProcess, CauseInv, TypeOK, ProcessTypeOK
  <2> QED
    BY <2>1 DEF CauseInv, SigtermHasCause
<1> QED
  BY <1>6, <1>8, <1>9, <1>10, <1>11, <1>12 DEF CauseInv

--------------------------------------------------------------------------------
(* Every message of the model is one the buses carry.                      *)
LEMMA MessagesTyped ==
    /\ Shutdown("Error") \in CeremonyMessage
    /\ OthersMessages \subseteq CeremonyMessage
  BY DEF OthersMessages, Shutdown, RoundMessage, SuccessfulContribution, CeremonyMessage,
         ShutdownReasons, RoundMessageTypes

LEMMA TypeStep == ASSUME TypeOK, Next PROVE TypeOK'
<1> USE DEF TypeOK, ProcessTypeOK, ChildStates, MessagesStates, CeremonyStates
<1>1. CASE OthersBroadcast
  BY <1>1, MessagesTyped, Appending DEF OthersBroadcast, Broadcast, processVars
<1>2. CASE OthersStart
  <2>1. LogEnd \in Nat
    BY DEF LogEnd
  <2>2. ASSUME NEW p \in Processes, RunMonitorProcess(p)
        PROVE  /\ child' \in [Processes -> ChildStates]
               /\ messages' \in [Processes -> MessagesStates]
               /\ messagesRx' \in [Processes -> Nat]
               /\ monitor' = monitor /\ terminate' = terminate
    BY <2>1, <2>2 DEF RunMonitorProcess
  <2>3. CASE \E p \in Services : RunService(p)
    BY <1>2, <2>2, <2>3 DEF OthersStart, RunService, ceremonyVars, Processes
  <2>4. CASE \E c \in Contributors, rx \in 0 .. LogEnd : RunContributor(c, rx)
    BY <1>2, <2>1, <2>2, <2>4 DEF OthersStart, RunContributor, Processes
  <2> QED
    BY <1>2, <2>3, <2>4 DEF OthersStart
<1>3. ASSUME NEW p \in Processes, MessagesStep(p) PROVE TypeOK'
  <2>1. CASE MessagesSubscribe(p)
    BY <2>1 DEF MessagesSubscribe, ceremonyVars
  <2>2. CASE FindsRunning(p)
    BY <2>2 DEF FindsRunning, ceremonyVars
  <2>5. CASE TerminateProcess(p)
    BY <2>5 DEF TerminateProcess, ceremonyVars
  <2>3. CASE ProcessExited(p)
    BY <2>3 DEF ProcessExited, ceremonyVars
  <2>4. CASE ProcessFailed(p)
    BY <2>4, MessagesTyped, Appending DEF ProcessFailed, Broadcast, ceremonyVars
  <2> QED
    BY <1>3, <2>1, <2>2, <2>3, <2>4, <2>5 DEF MessagesStep
<1>4. ASSUME NEW p \in Processes, MonitorFails(p) PROVE TypeOK'
  BY <1>4, MessagesTyped, Appending DEF MonitorFails, Broadcast, ceremonyVars
<1>5. ASSUME NEW p \in Processes, ChildTerminated(p) PROVE TypeOK'
  BY <1>5 DEF ChildTerminated, ceremonyVars
<1>6. ASSUME NEW p \in Processes, NEW status \in {"exited", "failed"}, ChildExits(p, status)
      PROVE  TypeOK'
  BY <1>6 DEF ChildExits, ceremonyVars
<1>7. ASSUME NEW c \in Contributors, CeremonyStep(c) PROVE TypeOK'
  <2>1. ASSUME NEW k, Receives(c, k) PROVE ceremonyRx' \in [Contributors -> Nat]
    BY <2>1 DEF Receives, Unread
  <2>2. ASSUME SendTerminate(c)
        PROVE  /\ terminate' \in [Processes -> BOOLEAN]
               /\ ceremony' \in [Contributors -> CeremonyStates]
               /\ UNCHANGED <<log, child, monitor, messages, messagesRx>>
    BY <2>2 DEF SendTerminate, Processes
  <2>3. ASSUME NEW m PROVE [contributions EXCEPT ![c] = Counted(c, m)] \in [Contributors -> Nat]
    BY DEF Counted
  <2>4. CASE CeremonyShutdown(c)
    BY <2>1, <2>4 DEF CeremonyShutdown, threadVars
  <2>5. CASE CeremonyRoundFinished(c)
    BY <2>1, <2>2, <2>5 DEF CeremonyRoundFinished
  <2>6. CASE CeremonyDrops(c)
    BY <2>1, <2>2, <2>3, <2>6 DEF CeremonyDrops
  <2>7. CASE CeremonyCounts(c)
    BY <2>1, <2>3, <2>7 DEF CeremonyCounts, threadVars
  <2> QED
    BY <1>7, <2>4, <2>5, <2>6, <2>7 DEF CeremonyStep
<1> QED
  BY <1>1, <1>2, <1>3, <1>4, <1>5, <1>6, <1>7 DEF Next

(* The ceremony thread asks for the end of its process only when its round  *)
(* is over or its drop is due by its count, which CountSound relates to the *)
(* log.                                                                    *)
LEMMA CeremonyStepKeeps ==
    ASSUME CauseInv, TypeOK', NEW c \in Contributors, CeremonyStep(c)
    PROVE  CauseInv'
<1>1. /\ log \in Seq(CeremonyMessage) /\ Len(log) \in Nat
      /\ ceremonyRx \in [Contributors -> Nat] /\ contributions \in [Contributors -> Nat]
      /\ ceremony \in [Contributors -> CeremonyStates] /\ terminate \in [Processes -> BOOLEAN]
  BY DEF CauseInv, TypeOK, ProcessTypeOK
<1>2. ASSUME NEW k, Receives(c, k)
      PROVE  /\ k \in Unread(ceremonyRx[c]) /\ k \in 1 .. Len(log)
             /\ ceremony[c] = "listening" /\ ceremonyRx' = [ceremonyRx EXCEPT ![c] = k]
  BY <1>1, <1>2 DEF Receives, Unread
<1>3. ASSUME SendTerminate(c)
      PROVE  /\ UNCHANGED <<log, child, messages, messagesRx>>
             /\ \A d \in Contributors : d # c => ceremony'[d] = ceremony[d]
             /\ \A p \in Processes : terminate'[p] => terminate[p] \/ p = c
  BY <1>1, <1>3 DEF SendTerminate
<1>4. CASE CeremonyShutdown(c)
  <2>1. PICK k \in Unread(ceremonyRx[c]) : Receives(c, k)
    BY <1>4 DEF CeremonyShutdown
  <2>2. /\ UNCHANGED <<log, child, messages, messagesRx, terminate, contributions>>
        /\ \A d \in Contributors : d # c => ceremony'[d] = ceremony[d]
    BY <1>1, <1>4 DEF CeremonyShutdown, threadVars
  <2> QED
    BY <1>2, <2>1, <2>2, CeremonyMoves
<1>5. CASE CeremonyRoundFinished(c)
  <2>1. PICK k \in Unread(ceremonyRx[c]) : Receives(c, k) /\ log[k].type = "RoundFinished"
    BY <1>5 DEF CeremonyRoundFinished
  <2>2. SendTerminate(c) /\ contributions' = contributions
    BY <1>5 DEF CeremonyRoundFinished
  <2>3. AskedFor(log, c)
    BY <1>2, <2>1 DEF AskedFor
  <2> QED
    BY <1>2, <1>3, <2>1, <2>2, <2>3, CeremonyMoves
<1>6. CASE CeremonyDrops(c)
  <2>1. PICK k \in Unread(ceremonyRx[c]) :
          /\ Receives(c, k)
          /\ DropDue(c, Counted(c, log[k]))
          /\ contributions' = [contributions EXCEPT ![c] = Counted(c, log[k])]
          /\ SendTerminate(c)
    BY <1>6 DEF CeremonyDrops
  <2>2. k \in Nat /\ ceremonyRx[c] \in Nat /\ ceremonyRx[c] < k /\ k <= Len(log)
    BY <1>1, <2>1 DEF Unread
  <2>3. Counted(c, log[k]) <= CountIn(log, Len(log), c)
    <3>1. contributions[c] <= CountIn(log, ceremonyRx[c], c) /\ contributions[c] \in Nat
      BY <1>1 DEF CauseInv, CountSound
    <3>2. /\ CountIn(log, ceremonyRx[c], c) \in Nat /\ CountIn(log, k, c) \in Nat
          /\ CountIn(log, ceremonyRx[c], c) <= CountIn(log, k, c)
      BY <2>2, CountGrows
    <3>3. CountIn(log, Len(log), c) \in Nat /\ CountIn(log, k, c) <= CountIn(log, Len(log), c)
      BY <1>1, <2>2, CountGrows
    <3>4. log[k] = SuccessfulContribution(c)
            => CountIn(log, ceremonyRx[c], c) + 1 <= CountIn(log, k, c)
      BY <2>2, CountNext
    <3> QED
      BY <3>1, <3>2, <3>3, <3>4 DEF Counted
  <2>4. c \in DOMAIN DropAfter /\ CountIn(log, Len(log), c) >= DropAfter[c]
    <3>1. c \in DOMAIN DropAfter /\ Counted(c, log[k]) >= DropAfter[c] /\ DropAfter[c] \in Nat
      BY <2>1, ProcessesAssumption DEF DropDue
    <3>2. Counted(c, log[k]) \in Nat /\ CountIn(log, Len(log), c) \in Nat
      BY <1>1, CountGrows DEF Counted
    <3> QED
      BY <2>3, <3>1, <3>2
  <2>5. AskedFor(log, c)
    BY <2>4 DEF AskedFor
  <2> QED
    BY <1>2, <1>3, <2>1, <2>5, CeremonyMoves
<1>7. CASE CeremonyCounts(c)
  <2>1. PICK k \in Unread(ceremonyRx[c]) :
          /\ Receives(c, k)
          /\ contributions' = [contributions EXCEPT ![c] = Counted(c, log[k])]
          /\ UNCHANGED <<log, threadVars, ceremony>>
    BY <1>7 DEF CeremonyCounts
  <2>2. UNCHANGED <<log, child, messages, messagesRx, terminate, ceremony>>
    BY <2>1 DEF threadVars
  <2> QED
    BY <1>2, <2>1, <2>2, CeremonyMoves
<1> QED
  BY <1>4, <1>5, <1>6, <1>7 DEF CeremonyStep

LEMMA MessagesStepKeeps ==
    ASSUME CauseInv, TypeOK', NEW p \in Processes, MessagesStep(p)
    PROVE  CauseInv'
<1>1. child \in [Processes -> ChildStates]
  BY DEF CauseInv, TypeOK, ProcessTypeOK
<1>2. messages \in [Processes -> MessagesStates]
  BY DEF CauseInv, TypeOK, ProcessTypeOK
<1>3. CASE MessagesSubscribe(p)
  BY <1>2, <1>3, ChildStep DEF MessagesSubscribe
<1>4. CASE FindsRunning(p)
  BY <1>2, <1>4, ChildStep DEF FindsRunning
<1>5. CASE TerminateProcess(p)
  <2>1. /\ UNCHANGED <<log, messagesRx, terminate, ceremonyVars>>
        /\ messages[p] = "terminating" /\ messages' = [messages EXCEPT ![p] = "closed"]
        /\ child' = child \/ child' = [child EXCEPT ![p] = "stopping"]
    BY <1>1, <1>5 DEF TerminateProcess
  <2> QED
    BY <1>1, <1>2, <2>1, ChildStep
<1>6. CASE ProcessExited(p)
  BY <1>2, <1>6, ChildStep DEF ProcessExited
<1>7. CASE ProcessFailed(p)
  BY <1>2, <1>7, MessagesTyped, LogStep DEF ProcessFailed, Broadcast, ceremonyVars
<1> QED
  BY <1>3, <1>4, <1>5, <1>6, <1>7 DEF MessagesStep

(* The inductive invariant, and what the theorems are drawn from.          *)
LEMMA CauseStep == CauseInv /\ [Next]_vars => CauseInv'
<1> SUFFICES ASSUME CauseInv, [Next]_vars PROVE CauseInv'
  OBVIOUS
<1>1. CASE UNCHANGED vars
  <2>1. UNCHANGED <<log, child, monitor, messages, messagesRx, terminate,
                    ceremony, ceremonyRx, contributions>>
    BY <1>1 DEF vars, processVars
  <2>2. TypeOK'
    BY <2>1 DEF CauseInv, TypeOK, ProcessTypeOK
  <2> QED
    BY <2>1, <2>2, ChildStep DEF ceremonyVars
<1>2. CASE Next
  <2> TypeOK'
    BY <1>2, TypeStep DEF CauseInv
  <2> child \in [Processes -> ChildStates]
    BY DEF CauseInv, TypeOK, ProcessTypeOK
  <2>1. CASE OthersBroadcast
    BY <2>1, MessagesTyped, LogStep DEF OthersBroadcast, Broadcast, processVars
  <2>2. CASE OthersStart
    BY <2>2, StartStep
  <2>3. ASSUME NEW p \in Processes, MessagesStep(p) PROVE CauseInv'
    BY <2>3, MessagesStepKeeps
  <2>4. ASSUME NEW p \in Processes, MonitorFails(p) PROVE CauseInv'
    BY <2>4, MessagesTyped, LogStep DEF MonitorFails, Broadcast, ceremonyVars
  <2>5. ASSUME NEW p \in Processes, ChildTerminated(p) PROVE CauseInv'
    BY <2>5, ChildStep DEF ChildTerminated
  <2>6. ASSUME NEW p \in Processes, NEW status \in {"exited", "failed"}, ChildExits(p, status)
        PROVE  CauseInv'
    BY <2>6, ChildStep DEF ChildExits
  <2>7. ASSUME NEW c \in Contributors, CeremonyStep(c) PROVE CauseInv'
    BY <2>7, CeremonyStepKeeps
  <2> QED
    BY <1>2, <2>1, <2>2, <2>3, <2>4, <2>5, <2>6, <2>7 DEF Next
<1> QED
  BY <1>1, <1>2

LEMMA CauseStart == Init => CauseInv
<1> SUFFICES ASSUME Init PROVE CauseInv
  OBVIOUS
<1>1. /\ TypeOK /\ InTheLog /\ NotStarted /\ FlagHasCause /\ SigtermHasCause
      /\ \A c \in Contributors : contributions[c] = 0 /\ ceremonyRx[c] = 0
  BY DEF Init, ProcessInit, TypeOK, ProcessTypeOK, InTheLog, NotStarted, FlagHasCause,
         SigtermHasCause, ChildStates, MessagesStates, CeremonyStates, Processes
<1>2. CountSound
  <2> SUFFICES ASSUME NEW c \in Contributors
               PROVE  contributions[c] <= CountIn(log, ceremonyRx[c], c)
    BY DEF CountSound
  <2>1. CountIn(log, 0, c) \in Nat
    BY CountGrows
  <2> QED
    BY <1>1, <2>1
<1>3. KilledWithCause
  BY DEF Init, ProcessInit, KilledWithCause
<1> QED
  BY <1>1, <1>2, <1>3 DEF CauseInv

(* CauseInv holds throughout: of every child that is killed or about to be,  *)
(* and of every flag that will kill one, the cause is in the log.          *)
THEOREM CauseInvariant == Spec => []CauseInv
  BY CauseStart, CauseStep, PTL DEF Spec

(* The types of the processes and their threads.                           *)
THEOREM ProcessTypeCorrect == Spec => []TypeOK
<1>1. CauseInv => TypeOK
  BY DEF CauseInv
<1> QED
  BY <1>1, CauseInvariant, PTL

(* No SIGTERM without a Shutdown since the start of the process, the end of *)
(* a round, or as many contributions as the configured drop asks for.       *)
THEOREM KilledWithCauseCorrect == Spec => []KilledWithCause
<1>1. CauseInv => KilledWithCause
  BY DEF CauseInv
<1> QED
  BY <1>1, CauseInvariant, PTL
================================================================================
