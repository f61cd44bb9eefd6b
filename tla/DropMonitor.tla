------------------------------ MODULE DropMonitor ------------------------------
(***************************************************************************)
(* The thread of drop_participant.rs that decides whether the drops of a   *)
(* round are the ones its configuration asks for.  test_round starts one   *)
(* for each round and joins it at the end of the round.                    *)
(***************************************************************************)
EXTENDS CeremonyBus

CONSTANT MaxLog      \* bound: the messages the rest of the test broadcasts

VARIABLE drops       \* status: of the thread; since: where its receiver started;
                     \* rx: the last message it handled; expected: the drops
                     \* configured; missing: those yet to come (contributor_drops)

DropStatus == {"none", "listening", "ok", "failed"}

ASSUME DropBoundAssumption == MaxLog \in Nat

DropTypeOK == drops \in [status : DropStatus, since : Nat, rx : Nat,
                         expected : SUBSET Contributors, missing : SUBSET Contributors]

DropInit == drops = [status |-> "none", since |-> 0, rx |-> 0,
                     expected |-> {}, missing |-> {}]

(* Mutation: the verifiers are expected to be dropped as well.             *)
MonitorDropsVerifiers(expected) ==
    /\ drops.status # "listening"
    /\ drops' = [status |-> "listening", since |-> LogEnd, rx |-> LogEnd,
                 expected |-> expected, missing |-> expected \cup Verifiers]

MonitorDrops(expected) ==
    /\ drops.status # "listening"
    /\ drops' = [status |-> "listening", since |-> LogEnd, rx |-> LogEnd,
                 expected |-> expected, missing |-> expected]

(* Mutation: a Shutdown is passed over.                                    *)
DropTypesNoShutdown == {"RoundFinished", "ParticipantDropped"}

(* The message types that are not passed over.                             *)
DropTypes == {"RoundFinished", "Shutdown", "ParticipantDropped"}

(* The next message to handle is at place k.                               *)
DropReceives(k) == /\ drops.status = "listening"
                   /\ k \in Unread(drops.rx)
                   /\ log[k].type \in DropTypes
                   /\ \A j \in Unread(drops.rx) : j < k => log[j].type \notin DropTypes

Ends(k, status) == drops' = [drops EXCEPT !.status = status, !.rx = k]

(* check_drops *)
CheckDrops == IF drops.missing = {} THEN "ok" ELSE "failed"

(* Mutation: the end of the round is the end of the thread, unchecked.      *)
DropsRoundUnchecked ==
    \E k \in Unread(drops.rx) : /\ DropReceives(k)
                                /\ log[k].type = "RoundFinished"
                                /\ Ends(k, "ok")
                                /\ UNCHANGED log

DropsRoundFinished ==
    \E k \in Unread(drops.rx) : /\ DropReceives(k)
                                /\ log[k].type = "RoundFinished"
                                /\ Ends(k, CheckDrops)
                                /\ UNCHANGED log

(* Mutation: checked whatever the reason.                                  *)
DropsShutdownChecked ==
    \E k \in Unread(drops.rx) : /\ DropReceives(k)
                                /\ IsShutdownMessage(log[k])
                                /\ Ends(k, CheckDrops)
                                /\ UNCHANGED log

(* After an error nothing is checked: the drops may well be unfinished.    *)
DropsShutdown ==
    \E k \in Unread(drops.rx) :
        /\ DropReceives(k)
        /\ IsShutdownMessage(log[k])
        /\ Ends(k, IF log[k].reason = "TestFinished" THEN CheckDrops ELSE "ok")
        /\ UNCHANGED log

DropExpected ==
    \E k \in Unread(drops.rx) :
        /\ DropReceives(k)
        /\ log[k].type = "ParticipantDropped"
        /\ log[k].participant \in drops.missing
        /\ drops' = [drops EXCEPT !.missing = @ \ {log[k].participant}, !.rx = k]
        /\ UNCHANGED log

(* A verifier, a contributor that is to stay, or one dropped already.      *)
DropUnexpected ==
    \E k \in Unread(drops.rx) :
        /\ DropReceives(k)
        /\ log[k].type = "ParticipantDropped"
        /\ log[k].participant \notin drops.missing
        /\ Ends(k, "failed")
        /\ Broadcast(Shutdown("Error"))

DropStep == DropsRoundFinished \/ DropsShutdown \/ DropExpected \/ DropUnexpected

--------------------------------------------------------------------------------
(* The thread alone, round after round, among whatever the rest of the test *)
(* broadcasts.                                                             *)
OthersMessages == { Shutdown(reason) : reason \in ShutdownReasons }
             \cup { ParticipantDropped(p) : p \in Participants }
             \cup { RoundMessage("RoundStarted", 1), RoundMessage("RoundFinished", 1) }

OthersBroadcast == /\ Len(log) < MaxLog
                   /\ \E m \in OthersMessages : Broadcast(m)
                   /\ UNCHANGED drops

RoundBegins == /\ \E expected \in SUBSET Contributors : MonitorDrops(expected)
               /\ UNCHANGED log

Init == log = <<>> /\ DropInit

Next == OthersBroadcast \/ RoundBegins \/ DropStep

vars == <<log, drops>>

Spec == Init /\ [][Next]_vars

FairSpec == Spec /\ WF_vars(DropStep)

TypeOK == log \in Seq(CeremonyMessage) /\ DropTypeOK

(* The participants whose drop is announced at a place in a .. b.          *)
DroppedWithin(a, b) ==
    {p \in Participants : \E k \in a .. b : log[k] = ParticipantDropped(p)}

DroppedInRound == DroppedWithin(drops.since + 1, drops.rx)

EndOfRound == log[drops.rx]

(* What a good verdict is worth (the doc of monitor_drops: "Returns an error *)
(* if an unexpected drop occurs or if not all expected drops have           *)
(* occurred"): nobody but the configured contributors was dropped between   *)
(* the start of the thread and the message that ended it, and all of them   *)
(* were, unless it was ended by an error.                                  *)
VerdictSound ==
    drops.status = "ok" =>
        /\ DroppedInRound \subseteq drops.expected
        /\ EndOfRound # Shutdown("Error") => DroppedInRound = drops.expected

(* A bad verdict has a reason in what was broadcast: the last message is    *)
(* the drop of a participant that was not to be dropped, or had been, or    *)
(* the end of the round with a drop yet to come.                           *)
FailureJustified ==
    drops.status = "failed" =>
        \/ /\ EndOfRound.type = "ParticipantDropped"
           /\ EndOfRound.participant \in drops.expected =>
                  EndOfRound.participant \in DroppedWithin(drops.since + 1, drops.rx - 1)
        \/ /\ EndOfRound.type \in {"RoundFinished", "Shutdown"}
           /\ EndOfRound # Shutdown("Error")
           /\ \E c \in drops.expected : c \notin DroppedInRound

(* The thread is over soon after the round or the test is: test_round joins *)
(* it with nothing to wake it up.                                          *)
RoundEndEndsThread ==
    (drops.status = "listening"
        /\ \E k \in Unread(drops.rx) : log[k].type \in {"RoundFinished", "Shutdown"})
        ~> drops.status # "listening"
================================================================================
