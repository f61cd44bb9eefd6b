---------------------------- MODULE DropMonitorProofs ----------------------------
(***************************************************************************)
(* The verdict of the drop monitor is right, for every number of            *)
(* participants, rounds and messages.                                      *)
(*                                                                         *)
(* VerdictSound is about the end; while the thread listens, what it goes by *)
(* is the set of the drops it misses.  Bookkeeping says that this set is    *)
(* the configured drops without those announced in the part of the log the  *)
(* thread has handled, and that nobody else was dropped there.             *)
(***************************************************************************)
EXTENDS DropMonitor, TLAPS

Bookkeeping ==
    drops.status = "listening" =>
        /\ DroppedInRound \subseteq drops.expected
        /\ drops.missing = drops.expected \ DroppedInRound

InTheLog == /\ drops.since <= drops.rx /\ drops.rx <= Len(log)
            /\ drops.status \in {"ok", "failed"} => drops.rx > 0

VerdictInv == TypeOK /\ InTheLog /\ Bookkeeping /\ VerdictSound /\ FailureJustified

--------------------------------------------------------------------------------
LEMMA Appending ==
    ASSUME NEW s \in Seq(CeremonyMessage), NEW m \in CeremonyMessage
    PROVE  /\ Append(s, m) \in Seq(CeremonyMessage)
           /\ Len(s) \in Nat
           /\ Len(Append(s, m)) = Len(s) + 1
           /\ \A k \in 1 .. Len(s) : Append(s, m)[k] = s[k]
OBVIOUS

(* The others broadcast messages, and so does the thread.                  *)
LEMMA OthersTyped ==
    OthersMessages \cup {Shutdown("Error")} \subseteq CeremonyMessage
BY DEF OthersMessages, CeremonyMessage, Shutdown, ParticipantDropped, RoundMessage,
       RoundMessageTypes, ShutdownReasons

(* Messages that are not handled one by one hold no drop: handling the one  *)
(* at k adds to the drops of the round at most the one it announces.       *)
LEMMA HandlesOne ==
    ASSUME TypeOK, InTheLog, NEW k \in Unread(drops.rx), DropReceives(k)
    PROVE  /\ k \in 1 .. Len(log) /\ drops.rx < k /\ drops.since < k
           /\ DroppedWithin(drops.since + 1, k)
                = DroppedInRound \cup {p \in Participants : log[k] = ParticipantDropped(p)}
           /\ DroppedWithin(drops.since + 1, k - 1) = DroppedInRound
<1>1. /\ drops.since \in Nat /\ drops.rx \in Nat /\ k \in Nat /\ Len(log) \in Nat
      /\ drops.since <= drops.rx /\ drops.rx < k /\ k <= Len(log)
  BY DEF TypeOK, DropTypeOK, InTheLog, Unread
<1>2. \A j \in (drops.rx + 1) .. (k - 1), p \in Participants : log[j] # ParticipantDropped(p)
  <2>1. \A j \in (drops.rx + 1) .. (k - 1) : log[j].type \notin DropTypes
    BY <1>1 DEF DropReceives, Unread
  <2>2. \A p : ParticipantDropped(p).type \in DropTypes
    BY DEF ParticipantDropped, DropTypes
  <2> QED
    BY <2>1, <2>2
<1>3. \A j \in (drops.since + 1) .. (k - 1) :
          j \in (drops.since + 1) .. drops.rx \/ j \in (drops.rx + 1) .. (k - 1)
  BY <1>1
<1>4. DroppedWithin(drops.since + 1, k - 1) = DroppedInRound
  <2>1. \A j \in (drops.since + 1) .. drops.rx : j \in (drops.since + 1) .. (k - 1)
    BY <1>1
  <2> QED
    BY <1>2, <1>3, <2>1 DEF DroppedInRound, DroppedWithin
<1>5. \A j : j \in (drops.since + 1) .. k
                <=> j \in (drops.since + 1) .. (k - 1) \/ j = k
  BY <1>1
<1>6. DroppedWithin(drops.since + 1, k)
        = DroppedInRound \cup {p \in Participants : log[k] = ParticipantDropped(p)}
  BY <1>4, <1>5 DEF DroppedWithin
<1> QED
  BY <1>1, <1>4, <1>6

(* What was announced does not change when the log grows.                  *)
LEMMA DroppedWithinStays ==
    ASSUME log \in Seq(CeremonyMessage), NEW m \in CeremonyMessage, log' = Append(log, m),
           NEW a \in Nat \ {0}, NEW b \in Nat, b <= Len(log)
    PROVE  DroppedWithin(a, b)' = DroppedWithin(a, b)
<1>1. \A k \in a .. b : log'[k] = log[k]
  BY Appending
<1> QED
  BY <1>1 DEF DroppedWithin

(* The drops and the shutdowns among the messages.                         *)
LEMMA MessageKinds ==
    ASSUME NEW m \in CeremonyMessage
    PROVE  /\ m.type = "ParticipantDropped" =>
                 m.participant \in Participants /\ m = ParticipantDropped(m.participant)
           /\ m.type # "ParticipantDropped" => \A p : m # ParticipantDropped(p)
           /\ m.type = "Shutdown" =>
                 m.reason \in ShutdownReasons /\ m = Shutdown(m.reason)
           /\ m.type # "Shutdown" => m # Shutdown("Error")
BY DEF CeremonyMessage, ParticipantDropped, Shutdown, RoundMessageTypes

--------------------------------------------------------------------------------
(* A message of the others leaves the verdict, and its reasons, alone.      *)
LEMMA OthersKeepVerdict ==
    ASSUME VerdictInv, OthersBroadcast
    PROVE  VerdictInv'
<1>1. PICK m \in CeremonyMessage : log' = Append(log, m)
  BY OthersTyped DEF OthersBroadcast, Broadcast
<1>2. drops' = drops /\ log \in Seq(CeremonyMessage)
  BY DEF OthersBroadcast, VerdictInv, TypeOK
<1>3. /\ log' \in Seq(CeremonyMessage) /\ Len(log) \in Nat /\ Len(log') = Len(log) + 1
      /\ \A k \in 1 .. Len(log) : log'[k] = log[k]
  BY <1>1, <1>2, Appending
<1>4. drops.since \in Nat /\ drops.rx \in Nat /\ drops.rx <= Len(log)
  BY DEF VerdictInv, TypeOK, DropTypeOK, InTheLog
<1>5. TypeOK' /\ InTheLog'
  BY <1>2, <1>3, <1>4 DEF VerdictInv, TypeOK, DropTypeOK, InTheLog
<1>6. DroppedInRound' = DroppedInRound
  <2>1. drops.since + 1 \in Nat \ {0}
    BY <1>4
  <2> QED
    BY <1>1, <1>2, <1>4, <2>1, DroppedWithinStays DEF DroppedInRound, DroppedWithin
<1>7. drops.rx > 0 =>
          /\ EndOfRound' = EndOfRound
          /\ DroppedWithin(drops.since + 1, drops.rx - 1)'
                = DroppedWithin(drops.since + 1, drops.rx - 1)
  <2> SUFFICES ASSUME drops.rx > 0
               PROVE  /\ EndOfRound' = EndOfRound
                      /\ DroppedWithin(drops.since + 1, drops.rx - 1)'
                            = DroppedWithin(drops.since + 1, drops.rx - 1)
    OBVIOUS
  <2>1. EndOfRound' = EndOfRound
    BY <1>2, <1>3, <1>4 DEF EndOfRound
  <2>2. drops.since + 1 \in Nat \ {0} /\ drops.rx - 1 \in Nat /\ drops.rx - 1 <= Len(log)
    BY <1>3, <1>4
  <2> QED
    BY <1>1, <1>2, <2>1, <2>2, DroppedWithinStays DEF DroppedWithin
<1>8. Bookkeeping'
  BY <1>2, <1>6 DEF VerdictInv, Bookkeeping
<1>9. VerdictSound'
  BY <1>2, <1>6, <1>7 DEF VerdictInv, VerdictSound, InTheLog
<1>10. FailureJustified'
  BY <1>2, <1>6, <1>7 DEF VerdictInv, FailureJustified, InTheLog
<1> QED
  BY <1>5, <1>8, <1>9, <1>10 DEF VerdictInv

(* At the start of a round nothing has been handled and everything is      *)
(* missing.                                                                *)
LEMMA BeginKeepsVerdict ==
    ASSUME VerdictInv, RoundBegins
    PROVE  VerdictInv'
<1>1. PICK expected \in SUBSET Contributors :
          drops' = [status |-> "listening", since |-> Len(log), rx |-> Len(log),
                    expected |-> expected, missing |-> expected]
  BY DEF RoundBegins, MonitorDrops, LogEnd
<1>2. log' = log /\ log \in Seq(CeremonyMessage) /\ Len(log) \in Nat
  BY DEF RoundBegins, VerdictInv, TypeOK
<1>3. TypeOK' /\ InTheLog'
  BY <1>1, <1>2 DEF TypeOK, DropTypeOK, DropStatus, InTheLog
<1>4. DroppedInRound' = {}
  BY <1>1, <1>2 DEF DroppedInRound, DroppedWithin
<1> QED
  BY <1>1, <1>3, <1>4 DEF VerdictInv, Bookkeeping, VerdictSound, FailureJustified

VerdictAt(k) == IF log[k] = Shutdown("Error") THEN "ok" ELSE CheckDrops

(* The end of the thread at a message that is not a drop, with the verdict  *)
(* of check_drops or, after an error, none.                                *)
LEMMA EndKeepsVerdict ==
    ASSUME VerdictInv, NEW k \in Unread(drops.rx), DropReceives(k), log' = log,
           log[k].type \in {"RoundFinished", "Shutdown"},
           Ends(k, VerdictAt(k))
    PROVE  VerdictInv'
<1> DEFINE status == VerdictAt(k)
<1>1. /\ TypeOK /\ InTheLog /\ drops.status = "listening"
      /\ DroppedInRound \subseteq drops.expected
      /\ drops.missing = drops.expected \ DroppedInRound
  BY DEF VerdictInv, DropReceives, Bookkeeping
<1>2. /\ k \in 1 .. Len(log) /\ drops.rx < k /\ drops.since < k
      /\ DroppedWithin(drops.since + 1, k)
            = DroppedInRound \cup {p \in Participants : log[k] = ParticipantDropped(p)}
  BY <1>1, HandlesOne
<1>3. /\ drops'.status = status /\ drops'.rx = k /\ drops'.since = drops.since
      /\ drops'.expected = drops.expected /\ drops'.missing = drops.missing
      /\ status \in {"ok", "failed"}
  BY <1>1 DEF Ends, TypeOK, DropTypeOK, CheckDrops, VerdictAt
<1>4. TypeOK' /\ InTheLog'
  <2>1. drops' \in [status : DropStatus, since : Nat, rx : Nat,
                    expected : SUBSET Contributors, missing : SUBSET Contributors]
    <3>1. drops' = [drops EXCEPT !.status = status, !.rx = k]
      BY DEF Ends
    <3>2. k \in Nat /\ status \in DropStatus
      BY <1>2, <1>3 DEF DropStatus
    <3> QED
      BY <1>1, <3>1, <3>2 DEF TypeOK, DropTypeOK
  <2> QED
    BY <1>1, <1>2, <1>3, <2>1 DEF TypeOK, DropTypeOK, InTheLog
<1>5. log[k] \in CeremonyMessage /\ \A p : log[k] # ParticipantDropped(p)
  <2>1. log[k] \in CeremonyMessage
    BY <1>1, <1>2 DEF TypeOK
  <2> QED
    BY <2>1, MessageKinds
<1>6. DroppedInRound' = DroppedInRound /\ EndOfRound' = log[k]
  <2>1. DroppedInRound' = DroppedWithin(drops.since + 1, k)
    BY <1>3 DEF DroppedInRound, DroppedWithin
  <2> QED
    BY <1>2, <1>3, <1>5, <2>1 DEF EndOfRound
<1>7. VerdictSound'
  BY <1>1, <1>3, <1>6 DEF VerdictSound, CheckDrops, VerdictAt
<1>8. FailureJustified'
  BY <1>1, <1>3, <1>6 DEF FailureJustified, CheckDrops, VerdictAt
<1> QED
  BY <1>3, <1>4, <1>7, <1>8 DEF VerdictInv, Bookkeeping

(* An expected drop goes from the missing ones to those announced.         *)
LEMMA ExpectedKeepsVerdict ==
    ASSUME VerdictInv, DropExpected
    PROVE  VerdictInv'
<1>1. /\ TypeOK /\ InTheLog
      /\ DroppedInRound \subseteq drops.expected \/ drops.status # "listening"
  BY DEF VerdictInv, Bookkeeping
<1>2. PICK k \in Unread(drops.rx) :
          /\ DropReceives(k)
          /\ log[k].type = "ParticipantDropped"
          /\ log[k].participant \in drops.missing
          /\ drops' = [drops EXCEPT !.missing = drops.missing \ {log[k].participant}, !.rx = k]
          /\ log' = log
  BY DEF DropExpected
<1> DEFINE p == log[k].participant
<1>3. /\ drops.status = "listening" /\ DroppedInRound \subseteq drops.expected
      /\ drops.missing = drops.expected \ DroppedInRound
  BY <1>2 DEF VerdictInv, DropReceives, Bookkeeping
<1>4. /\ k \in 1 .. Len(log) /\ drops.rx < k /\ drops.since < k
      /\ DroppedWithin(drops.since + 1, k)
            = DroppedInRound \cup {q \in Participants : log[k] = ParticipantDropped(q)}
  BY <1>1, <1>2, HandlesOne
<1>5. {q \in Participants : log[k] = ParticipantDropped(q)} = {p}
  <2>1. log[k] \in CeremonyMessage
    BY <1>1, <1>4 DEF TypeOK
  <2>2. p \in Participants /\ log[k] = ParticipantDropped(p)
    BY <1>2, <2>1, MessageKinds
  <2>3. \A q : ParticipantDropped(q) = ParticipantDropped(p) => q = p
    <3>1. \A q : ParticipantDropped(q).participant = q
      BY DEF ParticipantDropped
    <3> QED
      BY <3>1
  <2> HIDE DEF p
  <2> QED
    BY <2>2, <2>3
<1>6. p \in drops.missing
  BY <1>2
<1>7. /\ drops'.status = "listening" /\ drops'.rx = k /\ drops'.since = drops.since
      /\ drops'.expected = drops.expected /\ drops'.missing = drops.missing \ {p}
  BY <1>1, <1>2, <1>3 DEF TypeOK, DropTypeOK
<1>8. TypeOK' /\ InTheLog'
  <2>1. k \in Nat /\ drops.missing \ {p} \in SUBSET Contributors
    BY <1>1, <1>4 DEF TypeOK, DropTypeOK
  <2>2. drops' \in [status : DropStatus, since : Nat, rx : Nat,
                    expected : SUBSET Contributors, missing : SUBSET Contributors]
    BY <1>1, <1>2, <2>1 DEF TypeOK, DropTypeOK
  <2> QED
    BY <1>1, <1>2, <1>4, <1>7, <2>2 DEF TypeOK, DropTypeOK, InTheLog
<1>9. DroppedInRound' = DroppedInRound \cup {p}
  <2>1. DroppedInRound' = DroppedWithin(drops.since + 1, k)
    BY <1>2, <1>7 DEF DroppedInRound, DroppedWithin
  <2> QED
    BY <1>4, <1>5, <2>1
<1>10. Bookkeeping'
  <2> HIDE DEF p
  <2> QED
    BY <1>3, <1>6, <1>7, <1>9 DEF Bookkeeping
<1> QED
  BY <1>7, <1>8, <1>10 DEF VerdictInv, VerdictSound, FailureJustified

(* An unexpected drop is that of somebody who was to stay, or who was gone. *)
LEMMA UnexpectedKeepsVerdict ==
    ASSUME VerdictInv, DropUnexpected
    PROVE  VerdictInv'
<1>1. TypeOK /\ InTheLog
  BY DEF VerdictInv
<1>2. PICK k \in Unread(drops.rx) :
          /\ DropReceives(k)
          /\ log[k].type = "ParticipantDropped"
          /\ log[k].participant \notin drops.missing
          /\ drops' = [drops EXCEPT !.status = "failed", !.rx = k]
          /\ log' = Append(log, Shutdown("Error"))
  BY DEF DropUnexpected, Ends, Broadcast
<1>3. drops.missing = drops.expected \ DroppedInRound
  BY <1>2 DEF VerdictInv, DropReceives, Bookkeeping
<1>4. /\ k \in 1 .. Len(log) /\ drops.rx < k /\ drops.since < k
      /\ DroppedWithin(drops.since + 1, k - 1) = DroppedInRound
  BY <1>1, <1>2, HandlesOne
<1>5. /\ log' \in Seq(CeremonyMessage) /\ Len(log) \in Nat /\ Len(log') = Len(log) + 1
      /\ log'[k] = log[k] /\ Shutdown("Error") \in CeremonyMessage
  BY <1>1, <1>2, <1>4, OthersTyped, Appending DEF TypeOK
<1>6. /\ drops'.status = "failed" /\ drops'.rx = k /\ drops'.since = drops.since
      /\ drops'.expected = drops.expected
  BY <1>1, <1>2 DEF TypeOK, DropTypeOK
<1>7. TypeOK' /\ InTheLog'
  <2>1. k \in Nat /\ "failed" \in DropStatus
    BY <1>4 DEF DropStatus
  <2>2. drops' \in [status : DropStatus, since : Nat, rx : Nat,
                    expected : SUBSET Contributors, missing : SUBSET Contributors]
    BY <1>1, <1>2, <2>1 DEF TypeOK, DropTypeOK
  <2> QED
    BY <1>1, <1>4, <1>5, <1>6, <2>2 DEF TypeOK, DropTypeOK, InTheLog
<1>8. DroppedWithin(drops.since + 1, drops.rx - 1)' = DroppedInRound
  <2>1. drops.since + 1 \in Nat \ {0} /\ k - 1 \in Nat /\ k - 1 <= Len(log)
    BY <1>1, <1>4 DEF TypeOK, DropTypeOK
  <2>2. DroppedWithin(drops.since + 1, drops.rx - 1)'
            = {p \in Participants :
                  \E j \in (drops.since + 1) .. (k - 1) : log'[j] = ParticipantDropped(p)}
    BY <1>6 DEF DroppedWithin
  <2>3. \A j \in (drops.since + 1) .. (k - 1) : log'[j] = log[j]
    BY <1>1, <1>2, <1>5, <2>1, Appending DEF TypeOK
  <2> QED
    BY <1>4, <2>2, <2>3 DEF DroppedWithin
<1>9. EndOfRound' = log[k]
  BY <1>5, <1>6 DEF EndOfRound
<1>10. log[k].participant \in drops.expected => log[k].participant \in DroppedInRound
  BY <1>2, <1>3
<1>11. FailureJustified'
  BY <1>2, <1>6, <1>8, <1>9, <1>10 DEF FailureJustified
<1> QED
  BY <1>6, <1>7, <1>11 DEF VerdictInv, Bookkeeping, VerdictSound

(* The thread's own steps.                                                 *)
LEMMA DropStepKeepsVerdict ==
    ASSUME VerdictInv, DropStep
    PROVE  VerdictInv'
<1>1. \A k \in Unread(drops.rx) : log[k] \in CeremonyMessage
  BY DEF VerdictInv, TypeOK, DropTypeOK, Unread
<1>2. CASE DropsRoundFinished
  <2>1. PICK k \in Unread(drops.rx) : /\ DropReceives(k) /\ log[k].type = "RoundFinished"
                                      /\ Ends(k, CheckDrops) /\ log' = log
    BY <1>2 DEF DropsRoundFinished
  <2>2. log[k] # Shutdown("Error")
    BY <2>1, <1>1, MessageKinds
  <2>3. Ends(k, VerdictAt(k))
    BY <2>1, <2>2 DEF VerdictAt
  <2> QED
    BY <2>1, <2>3, EndKeepsVerdict
<1>3. CASE DropsShutdown
  <2>1. PICK k \in Unread(drops.rx) :
            /\ DropReceives(k) /\ log[k].type = "Shutdown"
            /\ Ends(k, IF log[k].reason = "TestFinished" THEN CheckDrops ELSE "ok")
            /\ log' = log
    BY <1>3 DEF DropsShutdown, IsShutdownMessage
  <2>2. log[k].reason \in ShutdownReasons /\ log[k] = Shutdown(log[k].reason)
    BY <2>1, <1>1, MessageKinds
  <2>3. Ends(k, VerdictAt(k))
    <3>1. CASE log[k].reason = "TestFinished"
      <4>1. log[k] # Shutdown("Error")
        BY <3>1 DEF Shutdown
      <4> QED
        BY <2>1, <3>1, <4>1 DEF VerdictAt
    <3>2. CASE log[k].reason = "Error"
      BY <2>1, <2>2, <3>2 DEF VerdictAt
    <3> QED
      BY <2>2, <3>1, <3>2 DEF ShutdownReasons
  <2> QED
    BY <2>1, <2>3, EndKeepsVerdict
<1> QED
  BY <1>2, <1>3, ExpectedKeepsVerdict, UnexpectedKeepsVerdict DEF DropStep

--------------------------------------------------------------------------------
(* VerdictInv holds throughout: while the thread listens, what is missing is  *)
(* what is expected less what was dropped within what it has read.          *)
THEOREM VerdictInvariant == Spec => []VerdictInv
<1>1. Init => VerdictInv
  <2> SUFFICES ASSUME Init PROVE VerdictInv
    OBVIOUS
  <2>1. TypeOK /\ InTheLog
    BY DEF Init, DropInit, TypeOK, DropTypeOK, DropStatus, InTheLog
  <2> QED
    BY <2>1 DEF Init, DropInit, VerdictInv, Bookkeeping, VerdictSound, FailureJustified
<1>2. VerdictInv /\ [Next]_vars => VerdictInv'
  <2>1. ASSUME VerdictInv, UNCHANGED vars PROVE VerdictInv'
    BY <2>1 DEF vars, VerdictInv, TypeOK, DropTypeOK, InTheLog, Bookkeeping, VerdictSound,
                FailureJustified, DroppedInRound, DroppedWithin, EndOfRound
  <2> QED
    BY <2>1, OthersKeepVerdict, BeginKeepsVerdict, DropStepKeepsVerdict DEF Next
<1> QED
  BY <1>1, <1>2, PTL DEF Spec

(* The types of the log and of the thread.                                 *)
THEOREM DropTypeCorrect == Spec => []TypeOK
BY VerdictInvariant, PTL DEF VerdictInv

(* A good verdict: the drops of the round are the configured ones.         *)
THEOREM VerdictSoundCorrect == Spec => []VerdictSound
BY VerdictInvariant, PTL DEF VerdictInv

(* A bad verdict: there is a drop too many, or one too few.                *)
THEOREM FailureJustifiedCorrect == Spec => []FailureJustified
BY VerdictInvariant, PTL DEF VerdictInv
================================================================================
