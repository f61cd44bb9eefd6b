----------------------------- MODULE ProcessMonitor -----------------------------
(***************************************************************************)
(* The processes of a test and the threads that watch them (process.rs,    *)
(* contributor.rs, verifier.rs, state_monitor.rs).  Each process has       *)
(*   - a child, the operating-system process;                              *)
(*   - a monitor thread, which copies the child's output to a log file     *)
(*     until the output is closed;                                         *)
(*   - a messages thread, which polls the monitor bus, the ceremony bus    *)
(*     and the child's exit status, and sends the child its SIGTERM;       *)
(* and a contributor has besides                                           *)
(*   - a ceremony thread, which asks for the end of the process when its    *)
(*     round is over or its configured drop is due.                        *)
(*                                                                         *)
(* A thread that has nothing to do for a message is not modelled as taking *)
(* a step for it: a receiver goes in one step to the next message that     *)
(* concerns it, at any moment after the message was sent.                  *)
(***************************************************************************)
EXTENDS CeremonyBus, FiniteSets

CONSTANTS Services,    \* the processes that are not contributors
          DropAfter,   \* for the contributors configured to be dropped, the
                       \* contributions they make first (after_contributions)
          MaxLog       \* bound: the messages the rest of the test broadcasts

VARIABLES child, monitor, messages, messagesRx, terminate,
          ceremony, ceremonyRx, contributions

ASSUME ProcessesAssumption ==
    /\ Services \cap Contributors = {}
    /\ DOMAIN DropAfter \subseteq Contributors
    /\ \A c \in DOMAIN DropAfter : DropAfter[c] \in Nat
    /\ MaxLog \in Nat

Processes == Services \cup Contributors

threadVars == <<child, monitor, messages, messagesRx, terminate>>
ceremonyVars == <<ceremony, ceremonyRx, contributions>>
processVars == <<child, monitor, messages, messagesRx, terminate,
                 ceremony, ceremonyRx, contributions>>

(* A child is "stopping" between SIGTERM and its end, "failed" once it has  *)
(* ended with a status default_parse_exit_status refuses.                  *)
ChildStates == {"none", "running", "stopping", "exited", "failed"}
MessagesStates == {"none", "starting", "polling", "terminating", "closed", "panicked"}
CeremonyStates == {"none", "listening", "closed", "panicked"}

ProcessTypeOK ==
    /\ child \in [Processes -> ChildStates]
    /\ monitor \in [Processes -> {"reading", "panicked"}]
    /\ messages \in [Processes -> MessagesStates]
    /\ messagesRx \in [Processes -> Nat]
    /\ terminate \in [Processes -> BOOLEAN]
    /\ ceremony \in [Contributors -> CeremonyStates]
    /\ ceremonyRx \in [Contributors -> Nat]
    /\ contributions \in [Contributors -> Nat]

ProcessInit ==
    /\ child = [p \in Processes |-> "none"]
    /\ monitor = [p \in Processes |-> "reading"]
    /\ messages = [p \in Processes |-> "none"]
    /\ messagesRx = [p \in Processes |-> 0]
    /\ terminate = [p \in Processes |-> FALSE]
    /\ ceremony = [c \in Contributors |-> "none"]
    /\ ceremonyRx = [c \in Contributors |-> 0]
    /\ contributions = [c \in Contributors |-> 0]

--------------------------------------------------------------------------------
(* run_monitor_process: the child runs, and its two threads are spawned.   *)
(* The messages thread subscribes to the monitor bus only once it runs,     *)
(* which is told apart for a contributor alone: nobody sends a Terminate    *)
(* to the others.                                                          *)
RunMonitorProcess(p) ==
    /\ child[p] = "none"
    /\ child' = [child EXCEPT ![p] = "running"]
    /\ messages' = [messages EXCEPT ![p] = IF p \in Services THEN "polling" ELSE "starting"]
    /\ messagesRx' = [messagesRx EXCEPT ![p] = LogEnd]
    /\ UNCHANGED <<monitor, terminate>>

(* run_coordinator, run_state_monitor, run_verifier *)
RunService(p) == /\ p \in Services
                 /\ RunMonitorProcess(p)
                 /\ UNCHANGED ceremonyVars

(* run_contributor: the ceremony thread keeps the receiver it is given,     *)
(* which may be at rx since long before; the messages thread has a clone.  *)
RunContributor(c, rx) ==
    /\ c \in Contributors
    /\ RunMonitorProcess(c)
    /\ ceremony' = [ceremony EXCEPT ![c] = "listening"]
    /\ ceremonyRx' = [ceremonyRx EXCEPT ![c] = rx]
    /\ UNCHANGED contributions

MessagesSubscribe(p) == /\ messages[p] = "starting"
                        /\ messages' = [messages EXCEPT ![p] = "polling"]
                        /\ UNCHANGED <<log, child, monitor, messagesRx, terminate, ceremonyVars>>

(* Mutation: the ceremony bus is not polled.                               *)
ToldByTerminateOnly(p) == terminate[p]

(* The messages thread is told to stop by a Terminate of the ceremony       *)
(* thread or by a Shutdown of anybody.                                     *)
ToldToTerminate(p) == terminate[p] \/ ShutdownUnread(messagesRx[p])

(* The thread polls the child, finds it running, and has been told to stop; *)
(* what the child does from here on it will not look at.                   *)
FindsRunning(p) ==
    /\ messages[p] = "polling"
    /\ child[p] = "running"
    /\ ToldToTerminate(p)
    /\ messages' = [messages EXCEPT ![p] = "terminating"]
    /\ UNCHANGED <<log, child, monitor, messagesRx, terminate, ceremonyVars>>

(* SIGTERM is sent once and the thread is over, however the child takes it, *)
(* which may have ended since it was polled.                               *)
TerminateProcess(p) ==
    /\ messages[p] = "terminating"
    /\ child' = [child EXCEPT ![p] = IF @ = "running" THEN "stopping" ELSE @]
    /\ messages' = [messages EXCEPT ![p] = "closed"]
    /\ UNCHANGED <<log, monitor, messagesRx, terminate, ceremonyVars>>

ProcessExited(p) ==
    /\ messages[p] = "polling"
    /\ child[p] = "exited"
    /\ messages' = [messages EXCEPT ![p] = "closed"]
    /\ UNCHANGED <<log, child, monitor, messagesRx, terminate, ceremonyVars>>

(* Mutation: the other threads are not told.                               *)
ProcessFailedQuietly(p) ==
    /\ messages[p] = "polling"
    /\ child[p] = "failed"
    /\ messages' = [messages EXCEPT ![p] = "panicked"]
    /\ UNCHANGED <<log, child, monitor, messagesRx, terminate, ceremonyVars>>

(* A bad exit status shuts the ceremony down, and the thread panics.       *)
ProcessFailed(p) ==
    /\ messages[p] = "polling"
    /\ child[p] = "failed"
    /\ Broadcast(Shutdown("Error"))
    /\ messages' = [messages EXCEPT ![p] = "panicked"]
    /\ UNCHANGED <<child, monitor, messagesRx, terminate, ceremonyVars>>

(* fallible_monitor: the log file cannot be opened or written, while the    *)
(* child has output to copy.  (That what is left in the pipe after the child *)
(* has ended cannot be written is left out.)                               *)
MonitorFails(p) ==
    /\ child[p] \in {"running", "stopping"}
    /\ monitor[p] = "reading"
    /\ Broadcast(Shutdown("Error"))
    /\ monitor' = [monitor EXCEPT ![p] = "panicked"]
    /\ UNCHANGED <<child, messages, messagesRx, terminate, ceremonyVars>>

--------------------------------------------------------------------------------
(* The ceremony thread of a contributor.                                   *)

(* Mutation: one contribution too early.                                   *)
DropDueEarly(c, n) == c \in DOMAIN DropAfter /\ n + 1 >= DropAfter[c]

(* A contributor with a drop configured looks at its count after every     *)
(* message, so a drop after no contribution is due at the first of any     *)
(* kind; the others have something to do for two kinds only.               *)
DropDue(c, n) == c \in DOMAIN DropAfter /\ n >= DropAfter[c]

Concerns(c, m) == \/ m.type \in {"Shutdown", "RoundFinished"}
                  \/ c \in DOMAIN DropAfter /\ m = SuccessfulContribution(c)
                  \/ DropDue(c, 0)

(* The next message the thread has something to do for is at place k.      *)
Receives(c, k) == /\ ceremony[c] = "listening"
                  /\ k \in Unread(ceremonyRx[c])
                  /\ Concerns(c, log[k])
                  /\ \A j \in Unread(ceremonyRx[c]) : j < k => ~ Concerns(c, log[j])
                  /\ ceremonyRx' = [ceremonyRx EXCEPT ![c] = k]

CeremonyShutdown(c) ==
    /\ \E k \in Unread(ceremonyRx[c]) : Receives(c, k) /\ IsShutdownMessage(log[k])
    /\ ceremony' = [ceremony EXCEPT ![c] = "closed"]
    /\ UNCHANGED <<log, threadVars, contributions>>

(* monitor_tx.broadcast(Terminate).expect(..): on the monitor bus, which    *)
(* lives in the messages thread.  Before that thread has subscribed the     *)
(* message is lost; once it is over, whether sending is an error, and so a  *)
(* panic, is up to the bus.                                                *)
SendTerminate(c) ==
    /\ terminate' = [terminate EXCEPT ![c] = @ \/ messages[c] = "polling"]
    /\ \E outcome \in {"closed", "panicked"} :
          /\ outcome = "panicked" => messages[c] \in {"closed", "panicked"}
          /\ ceremony' = [ceremony EXCEPT ![c] = outcome]
    /\ UNCHANGED <<log, child, monitor, messages, messagesRx>>

(* Mutation: the thread leaves its loop without a word.                    *)
CeremonyLeavesQuietly(c) ==
    /\ \E k \in Unread(ceremonyRx[c]) : Receives(c, k) /\ log[k].type = "RoundFinished"
    /\ ceremony' = [ceremony EXCEPT ![c] = "closed"]
    /\ UNCHANGED <<log, threadVars, contributions>>

CeremonyRoundFinished(c) ==
    /\ \E k \in Unread(ceremonyRx[c]) : Receives(c, k) /\ log[k].type = "RoundFinished"
    /\ SendTerminate(c)
    /\ UNCHANGED contributions

(* Mutation: counting down.                                                *)
CountedDown(c, m) == IF m = SuccessfulContribution(c) THEN contributions[c] - 1
                                                      ELSE contributions[c]

(* What is counted is the thread's own contributions, if it has a drop.    *)
Counted(c, m) == IF m = SuccessfulContribution(c) THEN contributions[c] + 1
                                                  ELSE contributions[c]

CeremonyDrops(c) ==
    \E k \in Unread(ceremonyRx[c]) :
        /\ Receives(c, k)
        /\ log[k].type \notin {"Shutdown", "RoundFinished"}
        /\ DropDue(c, Counted(c, log[k]))
        /\ contributions' = [contributions EXCEPT ![c] = Counted(c, log[k])]
        /\ SendTerminate(c)

CeremonyCounts(c) ==
    \E k \in Unread(ceremonyRx[c]) :
        /\ Receives(c, k)
        /\ log[k] = SuccessfulContribution(c)
        /\ ~ DropDue(c, Counted(c, log[k]))
        /\ contributions' = [contributions EXCEPT ![c] = Counted(c, log[k])]
        /\ UNCHANGED <<log, threadVars, ceremony>>

--------------------------------------------------------------------------------
(* The children, which are not the code's: a child may end at any time, and *)
(* ends after a SIGTERM.                                                   *)
ChildExits(p, status) ==
    /\ child[p] = "running"
    /\ child' = [child EXCEPT ![p] = status]
    /\ UNCHANGED <<log, monitor, messages, messagesRx, terminate, ceremonyVars>>

ChildTerminated(p) ==
    /\ child[p] = "stopping"
    /\ child' = [child EXCEPT ![p] = "exited"]
    /\ UNCHANGED <<log, monitor, messages, messagesRx, terminate, ceremonyVars>>

MessagesStep(p) == \/ MessagesSubscribe(p) \/ FindsRunning(p) \/ TerminateProcess(p)
                   \/ ProcessExited(p) \/ ProcessFailed(p)

CeremonyStep(c) == \/ CeremonyShutdown(c) \/ CeremonyRoundFinished(c)
                   \/ CeremonyDrops(c) \/ CeremonyCounts(c)

--------------------------------------------------------------------------------
(* Joining.  A monitor thread is over when its child has ended and closed   *)
(* its output, or when it has panicked; MonitorProcessJoin joins it first. *)
Ended(p) == child[p] \in {"exited", "failed"}

(* Mutation: the monitor thread is not joined.                             *)
JoinReturnsEarly(p) ==
    /\ messages[p] \in {"closed", "panicked"}
    /\ p \in Contributors => ceremony[p] \in {"closed", "panicked"}

JoinReturns(p) ==
    \/ monitor[p] = "panicked"
    \/ Ended(p) /\ messages[p] = "panicked"
    \/ /\ Ended(p) /\ messages[p] = "closed"
       /\ p \in Contributors => ceremony[p] \in {"closed", "panicked"}

(* Mutation: the panic of a messages thread is not looked at.               *)
JoinFailsMonitor(p) == monitor[p] = "panicked"

JoinFails(p) == \/ monitor[p] = "panicked"
                \/ messages[p] = "panicked"
                \/ p \in Contributors /\ ceremony[p] = "panicked"

--------------------------------------------------------------------------------
(* The processes alone: the rest of the test starts each of them at some    *)
(* moment, a contributor with a receiver as old as it pleases, and          *)
(* broadcasts what it pleases of what the threads react to.  They do not    *)
(* look at the reason of a Shutdown.                                       *)
OthersMessages == { Shutdown("TestFinished"), RoundMessage("RoundFinished", 1) }
             \cup { SuccessfulContribution(c) : c \in Contributors }

OthersBroadcast == /\ Len(log) < MaxLog
                   /\ \E m \in OthersMessages : Broadcast(m)
                   /\ UNCHANGED processVars

OthersStart == /\ \/ \E p \in Services : RunService(p)
                  \/ \E c \in Contributors, rx \in 0 .. LogEnd : RunContributor(c, rx)
               /\ UNCHANGED log

Init == log = <<>> /\ ProcessInit

Next == \/ OthersBroadcast \/ OthersStart
        \/ \E p \in Processes : MessagesStep(p) \/ MonitorFails(p) \/ ChildTerminated(p)
        \/ \E p \in Processes, status \in {"exited", "failed"} : ChildExits(p, status)
        \/ \E c \in Contributors : CeremonyStep(c)

vars == <<log, processVars>>

Spec == Init /\ [][Next]_vars

(* The threads run; a child does not outlive a SIGTERM for ever.  Nothing   *)
(* obliges a child to end otherwise.                                       *)
Fairness == /\ \A p \in Processes : WF_vars(MessagesStep(p)) /\ WF_vars(ChildTerminated(p))
            /\ \A c \in Contributors : WF_vars(CeremonyStep(c))

FairSpec == Spec /\ Fairness

TypeOK == log \in Seq(CeremonyMessage) /\ ProcessTypeOK

ContributionsOf(c) == {k \in Unread(0) : log[k] = SuccessfulContribution(c)}

RoundOver(rx) == \E k \in Unread(rx) : log[k].type = "RoundFinished"

(* No process is killed without cause: somebody asked for a shutdown after  *)
(* it was started, or it is a contributor whose round is over, or whose      *)
(* configured drop is due by the contributions announced (the doc of        *)
(* DropContributorConfig: "after having made this number").                *)
KilledWithCause ==
    \A p \in Processes : child[p] = "stopping" =>
        \/ ShutdownUnread(messagesRx[p])
        \/ /\ p \in Contributors
           /\ \/ RoundOver(0)
              \/ /\ p \in DOMAIN DropAfter
                 /\ Cardinality(ContributionsOf(p)) >= DropAfter[p]

(* Once a shutdown is broadcast, every process started before it ends and   *)
(* its threads can be joined: integration_test joins them all at the end.   *)
ShutdownLetsJoin ==
    \A p \in Processes :
        (child[p] # "none" /\ ShutdownUnread(messagesRx[p])) ~> JoinReturns(p)

(* A contributor whose messages thread is polling when the round is over    *)
(* does not run on into the next round.  Not so if its ceremony thread was   *)
(* given a receiver with a Shutdown the messages thread is too late for: it *)
(* stops at that one without a word.                                       *)
DeafToShutdown(c) ==
    \E k \in (ceremonyRx[c] + 1) .. messagesRx[c] : IsShutdownMessage(log[k])

RoundEndStopsContributor ==
    \A c \in Contributors :
        (/\ messages[c] = "polling" /\ ceremony[c] = "listening"
         /\ RoundOver(ceremonyRx[c]) /\ ~ DeafToShutdown(c))
            ~> child[c] # "running"

(* A process that fails is announced, however the failure races with the    *)
(* start of its threads, unless it is being told to stop: one that fails     *)
(* between the poll that finds it running and its SIGTERM never is, though   *)
(* the thread is there to "monitor the exit status of the process" as well. *)
FailureIsAnnounced ==
    \A p \in Processes : child[p] = "failed" ~> Sent(Shutdown("Error")) \/ ToldToTerminate(p)
================================================================================
