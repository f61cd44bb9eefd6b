------------------------------ MODULE CeremonyBus ------------------------------
(***************************************************************************)
(* The bus on which every thread of an integration test talks: the type    *)
(* CeremonyMessage of lib.rs, and the mpmc_bus channel created in test.rs. *)
(*                                                                         *)
(* The channel is a library and is modelled from its use.  Every message   *)
(* reaches every receiver, in one order that is the same for all of them:  *)
(* the channel is the sequence log of what was broadcast, and a receiver   *)
(* is a position in it.  A receiver made by subscribe or by cloning        *)
(* another one starts at the end of the log: the threads of the second     *)
(* round are given clones of a receiver that never read the first round,   *)
(* and must not be told of the first round again.                          *)
(***************************************************************************)
EXTENDS Naturals, Sequences

CONSTANTS Contributors,  \* the contributors (ContributorRef), replacements included
          Verifiers      \* the verifiers (VerifierRef)

VARIABLE log             \* everything broadcast so far

ASSUME ParticipantsAssumption == Contributors \cap Verifiers = {}

Participants == Contributors \cup Verifiers

ShutdownReasons == {"Error", "TestFinished"}

(* CeremonyMessage.  The chunk of a contribution is left out: no thread     *)
(* reads it.                                                               *)
RoundMessageTypes == {"RoundWaitingForParticipants", "RoundStarted",
                      "RoundStartedAggregation", "RoundAggregated", "RoundFinished"}

RoundMessage(t, r) == [type |-> t, round |-> r]
ParticipantDropped(p) == [type |-> "ParticipantDropped", participant |-> p]
SuccessfulContribution(c) == [type |-> "SuccessfulContribution", contributor |-> c]
Shutdown(reason) == [type |-> "Shutdown", reason |-> reason]

CeremonyMessage ==
         [type : RoundMessageTypes, round : Nat]
    \cup [type : {"ParticipantDropped"}, participant : Participants]
    \cup [type : {"SuccessfulContribution"}, contributor : Contributors]
    \cup [type : {"Shutdown"}, reason : ShutdownReasons]

IsShutdownMessage(m) == m.type = "Shutdown"

(* Sender::broadcast, and the receivers' side: LogEnd is where a new        *)
(* receiver starts, Unread what one that starts at rx has not been given.  *)
Broadcast(m) == log' = Append(log, m)
LogEnd == Len(log)
Unread(rx) == (rx + 1) .. Len(log)
Sent(m) == \E k \in 1 .. Len(log) : log[k] = m
ShutdownUnread(rx) == \E k \in Unread(rx) : IsShutdownMessage(log[k])
================================================================================
