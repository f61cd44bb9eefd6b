---------------------------- MODULE SetupCoordinator ----------------------------
(***************************************************************************)
(* The coordinator process, as far as the test can see it.  Its code is    *)
(* another repository: it is modelled from the lines coordinator.rs looks  *)
(* for and from the order in which coordinator.rs and test.rs expect them. *)
(*                                                                         *)
(* It runs with RUST_LOG=debug: a line that matches nothing may come at any *)
(* moment, and so may a drop, once it has booted.  Assumptions: one line    *)
(* per event, and some line of its log when it begins to wait for a round   *)
(* after the first, be it the next one or, after a roll-back, round 1.      *)
(***************************************************************************)
EXTENDS CoordinatorReporter

CONSTANTS MaxRound,   \* bound: how often the coordinator waits for participants
          Chunks,     \* the contributions a round takes
          PipeBound   \* bound: the lines the pipe holds

VARIABLE coord        \* phase: what it is doing; round: the number it gives
                      \* to its round; waits: how often it has waited for
                      \* participants; chunks: the contributions made in
                      \* this round; rosters: the contributors in each
                      \* round's state.json ({}: no such file); taken: those
                      \* that have been in a round; dropped: the participants
                      \* dropped so far; late: those dropped while no round
                      \* was waiting or running

ASSUME CoordinatorAssumption ==
    MaxRound \in Nat \ {0} /\ Chunks \in Nat /\ PipeBound \in Nat

coordinatorVars == <<coord, pipe, reporter, reporting, log>>

CoordinatorPhases == {"starting", "waiting", "running", "restarted",
                      "aggregating", "aggregated", "finished"}

CoordinatorTypeOK ==
    /\ coord \in [phase : CoordinatorPhases, round : Nat, waits : 0 .. MaxRound,
                  chunks : 0 .. Chunks, rosters : [1 .. MaxRound -> SUBSET Contributors],
                  taken : SUBSET Contributors,
                  dropped : SUBSET Participants, late : SUBSET Participants]
    /\ coord.round <= coord.waits
    /\ coord.phase # "starting" => coord.round > 0

CoordinatorInit == coord = [phase |-> "starting", round |-> 0, waits |-> 0, chunks |-> 0,
                            rosters |-> [r \in 1 .. MaxRound |-> {}], taken |-> {},
                            dropped |-> {}, late |-> {}]

(* It has given up a round, and counts its rounds from 1 again.             *)
RolledBack == coord.phase = "restarted" \/ coord.round < coord.waits

--------------------------------------------------------------------------------
Says(line) == Len(pipe) < PipeBound /\ WriteLine(line)

Moves(from, to, line) == /\ coord.phase = from
                         /\ Says(line)
                         /\ coord' = [coord EXCEPT !.phase = to]

CoordinatorBoots == /\ coord.phase = "starting"
                    /\ Says(PlainLine("booted"))
                    /\ coord' = [coord EXCEPT !.phase = "waiting", !.round = 1, !.waits = 1]

(* The round starts with some of the contributors that have come for it.    *)
CoordinatorStarts(contributors) ==
    /\ coord.phase = "waiting"
    /\ contributors # {}
    /\ contributors \cap (coord.dropped \cup coord.taken) = {}
    /\ Says(PlainLine("advanced"))
    /\ coord' = [coord EXCEPT !.phase = "running", !.chunks = 0,
                              !.rosters = [@ EXCEPT ![coord.round] = contributors],
                              !.taken = @ \cup contributors]

CoordinatorTakesChunk(c) ==
    /\ coord.phase = "running"
    /\ coord.chunks < Chunks
    /\ c \notin coord.dropped
    /\ Says(ParticipantLine("contribution", c))
    /\ coord' = [coord EXCEPT !.chunks = @ + 1]

(* A round waits or runs.                                                  *)
InRound == coord.phase \in {"waiting", "running"}

CoordinatorDrops(p) ==
    /\ coord.phase # "starting"
    /\ p \notin coord.dropped
    /\ Says(ParticipantLine("dropping", p))
    /\ coord' = [coord EXCEPT !.dropped = @ \cup {p},
                              !.late = IF InRound THEN @ ELSE @ \cup {p}]

(* Every contributor of the round is gone, and no replacement stands by.    *)
CoordinatorRestarts(standby) ==
    /\ Moves("running", "restarted", PlainLine("restart"))
    /\ coord.rosters[coord.round] \cup standby \subseteq coord.dropped

CoordinatorAggregates == /\ coord.chunks = Chunks
                         /\ Moves("running", "aggregating", PlainLine("aggregating"))

CoordinatorAggregated == Moves("aggregating", "aggregated", PlainLine("aggregated"))

CoordinatorFinishes == Moves("aggregated", "finished", PlainLine("finished"))

WaitsAgain(from, round) ==
    /\ coord.phase = from
    /\ coord.waits < MaxRound
    /\ Says(PlainLine("other"))
    /\ coord' = [coord EXCEPT !.phase = "waiting", !.round = round, !.waits = @ + 1]

CoordinatorNextRound == WaitsAgain("finished", coord.round + 1)

(* "Rolling back to round 0 to wait and accept new participants": the round *)
(* it advances to next is round 1.                                         *)
CoordinatorRollsBack == WaitsAgain("restarted", 1)

(* A line of its log.                                                      *)
CoordinatorChats == Says(PlainLine("other")) /\ UNCHANGED coord

OverPhases == {"finished", "restarted"}

(* Two threads writing at once can spoil a line.                           *)
CoordinatorGarbles == /\ coord.phase # "starting"
                      /\ \E k \in {"dropping", "contribution"} :
                            Says(ParticipantLine(k, Garbled))
                      /\ UNCHANGED coord

(* The contributors that came for the round; those that can contribute to   *)
(* it; the replacements; the participants that may be dropped; and the       *)
(* phases in which its log is of interest.                                 *)
CoordinatorNext(came, present, standby, droppable, chatty) ==
    \/ CoordinatorBoots
    \/ \E contributors \in SUBSET came : CoordinatorStarts(contributors)
    \/ \E c \in present : CoordinatorTakesChunk(c)
    \/ \E p \in droppable : CoordinatorDrops(p)
    \/ CoordinatorRestarts(standby) \/ CoordinatorAggregates \/ CoordinatorAggregated
    \/ CoordinatorFinishes \/ CoordinatorNextRound \/ CoordinatorRollsBack
    \/ coord.phase \in chatty /\ CoordinatorChats

--------------------------------------------------------------------------------
(* The coordinator, its reporter, and a Shutdown from elsewhere (bound: one, *)
(* and of one reason, which nobody here looks at).                         *)
Init == log = <<>> /\ ReporterInit /\ CoordinatorInit

Next == \/ ReadsALine /\ UNCHANGED coord
        \/ LogFileFails /\ UNCHANGED coord
        \/ CoordinatorNext(Contributors, Contributors, {}, Participants, CoordinatorPhases)
        \/ CoordinatorGarbles
        \/ ~ ShutdownUnread(0) /\ OthersBroadcast("TestFinished") /\ UNCHANGED coord

Spec == Init /\ [][Next]_coordinatorVars

(* The reporter reads while there is a line to read; the coordinator owes  *)
(* nothing.                                                                *)
FairSpec == Spec /\ WF_coordinatorVars(ReadsALine /\ UNCHANGED coord)

TypeOK == ReporterTypeOK /\ CoordinatorTypeOK

CaughtUp == reporting /\ pipe = <<>>

(* The state of the reporter that goes with each phase of the coordinator.  *)
Mirror(phase) == CASE phase = "starting"   -> "ProcessStarted"
                   [] phase = "waiting"    -> "RoundWaitingForParticipants"
                   [] phase = "running"    -> "RoundRunning"
                   [] phase = "aggregating"-> "RoundAggregating"
                   [] phase = "aggregated" -> "RoundWaitingForFinish"
                   [] phase \in OverPhases -> "RoundFinished"

(* The reporter in this state is where the coordinator is; or the           *)
(* coordinator is done with a round, and it takes the next one to be waiting *)
(* already, on the strength of any line.                                   *)
InSync(state) ==
    \/ /\ state.phase = Mirror(coord.phase)
       /\ state.round = coord.waits
    \/ /\ coord.phase \in OverPhases
       /\ state = [phase |-> "RoundWaitingForParticipants", round |-> coord.waits + 1]

(* A reporter that has read everything is in the phase of the coordinator or *)
(* one step early, and that only once a round is over; it never looks at the *)
(* number in a line (the TODO of parse_output_line), but has counted the     *)
(* rounds the coordinator waited for, which is the coordinator's own number *)
(* until that rolls back.                                                  *)
ReporterInSync == CaughtUp => InSync(reporter)

(* No drop is lost between the coordinator and the ceremony that is made    *)
(* while a round waits or runs, however far the reporter is behind and in    *)
(* whichever round: monitor_drops sees drops through these messages alone.  *)
(* A drop made later, while the round is aggregated or over, may be          *)
(* swallowed by an arm that does not look for it.                          *)
DropsReachTheBus ==
    CaughtUp => \A p \in coord.dropped \ coord.late : Sent(ParticipantDropped(p))

(* A round the coordinator finishes is announced as finished, or the        *)
(* reporter has failed and has told everybody.                             *)
FinishReported ==
    \A r \in 1 .. MaxRound :
        (coord.waits = r /\ coord.phase = "finished")
            ~> Sent(RoundMessage("RoundFinished", r)) \/ (~ reporting /\ Sent(Shutdown("Error")))
================================================================================
