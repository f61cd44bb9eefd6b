------------------------- MODULE SpecificationRunProofs -------------------------
(***************************************************************************)
(* What Specification::run promises for any specification, command line,    *)
(* state of the directory, and number of log entries and faults.            *)
(*                                                                         *)
(* Every step of the run is a step of LogFileWriter or leaves the log alone,  *)
(* so that what is proved of the log (LogFileWriterProofs) holds here.  The   *)
(* rest rests on RunInv, which says how far the run is: how many results and  *)
(* marks there are at each point, and how it comes to its end.               *)
(***************************************************************************)
EXTENDS SpecificationRun, LogFileWriterProofs, RoundConfigurationProofs

(* The points at which integration_test has been called and has not returned. *)
Within == {"open", "clone", "build", "configure", "ceremony"}

Running == [pc : RunPoints, test : Nat, built : BOOLEAN, alone : BOOLEAN]

Binaries == [Crates -> {"absent", "old", "fresh"}]

RunTyped == /\ run \in Running /\ results \in Seq(Outcomes) /\ marks \in Seq(Nat)
            /\ bins \in Binaries

AllOk == \A k \in 1 .. Len(results) : results[k].outcome = "ok"

(* One result for every test before this one, and one mark for every test    *)
(* that has begun.                                                          *)
Counts == /\ run.test = 0 => run.pc \in {"begin", "error"}
          /\ run.pc = "begin" => run.test = 0 /\ results = <<>> /\ marks = <<>>
          /\ run.test > 0 => Len(results) = run.test - 1
          /\ run.pc \in Within => Len(marks) = run.test /\ run.test <= Len(Asked)
          /\ run.pc = "next" => Len(marks) = run.test - 1 /\ run.test <= Len(Asked) + 1

Verdict == (At("ok") \/ At("error")) /\ run.test > 0 =>
               run.test = Len(Asked) + 1 /\ (At("ok") <=> AllOk)

RunInv == RunTyped /\ Counts /\ Verdict

--------------------------------------------------------------------------------
LEMMA AskedSame == ASSUME input' = input PROVE Asked' = Asked
BY DEF Asked

LEMMA AskedLen == Len(Asked) \in Nat
BY DEF Asked, AskedOf

(* Every step is one of the log writer, or leaves the log alone.             *)
LEMMA RunStepsLog == [Next]_vars => [LogNext]_logVars
<1> SUFFICES ASSUME [Next]_vars PROVE [LogNext]_logVars
  OBVIOUS
<1> USE DEF logVars
<1>1. CASE RunBegins
  BY <1>1 DEF RunBegins, LogNext
<1>2. CASE TestBegins
  BY <1>2 DEF TestBegins, LogNext
<1>3. CASE TestOpens
  BY <1>3 DEF TestOpens, LogNext, SetOutFile
<1>4. CASE TestOpeningFails
  BY <1>4 DEF TestOpeningFails, LogNext, SetOutFile, CopyFails
<1>5. CASE SomebodyLogs
  BY <1>5 DEF SomebodyLogs, LogNext
<1>6. CASE LogWorkerStep
  BY <1>6 DEF LogWorkerStep, LogNext, WorkerStep
<1>7. CASE \/ RunFails \/ ClonesRepos \/ CloneFails \/ InstallFails \/ Builds \/ BuildFails
           \/ Configures \/ ConfigureFails \/ ConfigurePanics
  BY <1>7 DEF RunFails, ClonesRepos, CloneFails, InstallFails, Builds, BuildFails,
              Configures, ConfigureFails, ConfigurePanics
<1>8. CASE CeremonyGoesOn \/ CeremonyReturns \/ CeremonyPanics \/ LeftoverEnds \/ RunReturns
  BY <1>8 DEF CeremonyGoesOn, CeremonyReturns, CeremonyPanics, LeftoverEnds, RunReturns
<1>9. CASE UNCHANGED vars
  BY <1>9 DEF vars
<1> QED  BY <1>1, <1>2, <1>3, <1>4, <1>5, <1>6, <1>7, <1>8, <1>9 DEF Next

(* The tests of a specification use the log as LogFileWriter says it is used:  *)
(* what is proved of any such use holds of them.                             *)
THEOREM RunImplementsLog == Spec => LogSpec
<1>1. Init => LogInit
  BY DEF Init
<1> QED  BY <1>1, RunStepsLog, PTL DEF Spec, LogSpec

(* So nothing that any test logs is lost,                                   *)
THEOREM RunLosesNothing == Spec => []NothingLost
BY RunImplementsLog, NothingLostCorrect, PTL

(* every log is in order,                                                   *)
THEOREM RunLogsInOrder == Spec => []FilesInOrder
BY RunImplementsLog, FilesInOrderCorrect, PTL

(* and no entry is in the logs of two tests.                                *)
THEOREM RunLogsOnce == Spec => []InOneFile
BY RunImplementsLog, InOneFileCorrect, PTL

--------------------------------------------------------------------------------
(* The two ways the run goes on.                                           *)
LEMMA GotoMoves ==
    ASSUME run \in Running, NEW pc \in RunPoints, Goto(pc)
    PROVE  /\ run' \in Running /\ run'.pc = pc /\ run'.test = run.test
           /\ run'.built = run.built /\ run'.alone = run.alone
BY DEF Goto, Running

LEMMA ReturnsMoves ==
    ASSUME RunTyped, NEW outcome \in {"ok", "error"}, Returns(outcome)
    PROVE  /\ run' \in Running /\ run'.pc = "next" /\ run'.test = run.test + 1
           /\ results' \in Seq(Outcomes) /\ Len(results') = Len(results) + 1
           /\ \A k \in 1 .. Len(results) : results'[k] = results[k]
           /\ results'[Len(results) + 1].outcome = outcome
           /\ results'[Len(results) + 1].built = run.built
           /\ results'[Len(results) + 1].alone = run.alone
           /\ UNCHANGED <<input, marks>>
<1> DEFINE result == [outcome |-> outcome, built |-> run.built, alone |-> run.alone]
<1>1. result \in Outcomes
  BY DEF RunTyped, Running, Outcomes
<1>2. results' = Append(results, result)
  BY DEF Returns
<1>3. run' = [pc |-> "next", test |-> run.test + 1, built |-> FALSE, alone |-> FALSE]
  BY DEF Returns
<1>4. run' \in Running /\ run'.pc = "next" /\ run'.test = run.test + 1
  BY <1>3 DEF RunTyped, Running, RunPoints
<1> HIDE DEF result
<1>5. /\ results' \in Seq(Outcomes) /\ Len(results') = Len(results) + 1
      /\ \A k \in 1 .. Len(results) : results'[k] = results[k]
      /\ results'[Len(results) + 1] = result
  BY <1>1, <1>2 DEF RunTyped
<1>6. result.outcome = outcome /\ result.built = run.built /\ result.alone = run.alone
  BY DEF result
<1> QED  BY <1>4, <1>5, <1>6 DEF Returns

LEMMA BuiltTyped == ASSUME bins \in Binaries, NEW n PROVE Built(n) \in Binaries
BY DEF Built, Binaries

LEMMA RunTypedInit == Init => RunTyped
<1> SUFFICES ASSUME Init PROVE RunTyped
  OBVIOUS
<1>1. run \in Running
  BY DEF Init, Running, RunPoints
<1>2. bins \in Binaries
  BY DEF Init, Binaries
<1> QED  BY <1>1, <1>2 DEF Init, RunTyped

(* One step per action.                                                    *)
LEMMA RunInvStep == LogTypeOK /\ RunInv /\ [Next]_vars => RunInv'
<1> SUFFICES ASSUME LogTypeOK, RunInv, [Next]_vars PROVE RunInv'
  OBVIOUS
<1>t. /\ run \in Running /\ run.test \in Nat /\ results \in Seq(Outcomes) /\ marks \in Seq(Nat)
      /\ bins \in Binaries /\ emitted \in Nat /\ Len(Asked) \in Nat
  BY AskedLen DEF RunInv, RunTyped, Running, LogTypeOK
<1>i. RunTyped /\ Counts /\ Verdict
  BY DEF RunInv
(* Between the beginning and the end of a test, and when it returns.         *)
<1>w. ASSUME NEW to \in Within, run.pc \in Within, run' \in Running, run'.pc = to,
             run'.test = run.test, UNCHANGED <<input, results, marks>>, bins' \in Binaries
      PROVE  RunInv'
  <2>1. Asked' = Asked
    BY <1>w, AskedSame
  <2>2. RunTyped'
    BY <1>t, <1>w DEF RunTyped
  <2>3. Counts'
    BY <1>i, <1>w, <2>1 DEF Counts, Within
  <2>4. Verdict'
    BY <1>w DEF Verdict, At, Within
  <2> QED  BY <2>2, <2>3, <2>4 DEF RunInv
<1>r. ASSUME NEW outcome \in {"ok", "error"}, Returns(outcome), run.pc \in Within, bins' \in Binaries
      PROVE  RunInv'
  <2>1. /\ run' \in Running /\ run'.pc = "next" /\ run'.test = run.test + 1
        /\ results' \in Seq(Outcomes) /\ Len(results') = Len(results) + 1
        /\ UNCHANGED <<input, marks>>
    BY <1>i, <1>r, ReturnsMoves
  <2>2. Asked' = Asked
    BY <2>1, AskedSame
  <2>3. RunTyped'
    BY <1>t, <1>r, <2>1 DEF RunTyped
  <2>4. run.test > 0
    BY <1>t, <1>i, <1>r DEF Counts, Within
  <2>5. Counts'
    BY <1>t, <1>i, <1>r, <2>1, <2>2, <2>4 DEF Counts, Within
  <2>6. Verdict'
    BY <2>1 DEF Verdict, At
  <2> QED  BY <2>3, <2>5, <2>6 DEF RunInv
<1>u. ASSUME UNCHANGED <<input, run, results, marks, bins>> PROVE RunInv'
  <2>1. Asked' = Asked
    BY <1>u, AskedSame
  <2> QED  BY <1>i, <1>u, <2>1 DEF RunInv, RunTyped, Counts, Verdict, At, AllOk
<1>1. CASE RunBegins
  <2>1. /\ run.pc = "begin" /\ UNCHANGED <<input, results, marks, bins>>
        /\ \/ Goto("error")
           \/ run' = [run EXCEPT !.pc = "next", !.test = 1]
    BY <1>1 DEF RunBegins, At, diskVars
  <2>2. Asked' = Asked
    BY <2>1, AskedSame
  <2>3. run.test = 0 /\ results = <<>> /\ marks = <<>>
    BY <1>i, <2>1 DEF Counts
  <2>4. CASE Goto("error")
    <3>1. run' \in Running /\ run'.pc = "error" /\ run'.test = 0
      BY <1>t, <2>3, <2>4, GotoMoves DEF RunPoints
    <3> QED  BY <1>t, <2>1, <2>2, <3>1 DEF RunInv, RunTyped, Counts, Verdict, At, Within
  <2>5. CASE run' = [run EXCEPT !.pc = "next", !.test = 1]
    <3>1. run' \in Running /\ run'.pc = "next" /\ run'.test = 1
      BY <1>t, <2>5 DEF Running, RunPoints
    <3> QED  BY <1>t, <2>1, <2>2, <2>3, <3>1 DEF RunInv, RunTyped, Counts, Verdict, At, Within
  <2> QED  BY <2>1, <2>4, <2>5
<1>2. CASE RunFails
  <2>1. run.pc = "begin" /\ Goto("error") /\ UNCHANGED <<input, results, marks, bins>>
    BY <1>2 DEF RunFails, At, diskVars
  <2>2. Asked' = Asked
    BY <2>1, AskedSame
  <2>3. run' \in Running /\ run'.pc = "error" /\ run'.test = 0
    BY <1>t, <1>i, <2>1, GotoMoves DEF Counts, RunPoints
  <2> QED  BY <1>t, <2>1, <2>2, <2>3 DEF RunInv, RunTyped, Counts, Verdict, At, Within
<1>3. CASE TestBegins
  <2>1. /\ run.pc = "next" /\ run.test <= Len(Asked) /\ marks' = Append(marks, emitted)
        /\ Goto("open") /\ UNCHANGED <<input, results, bins>>
    BY <1>3 DEF TestBegins, At, diskVars
  <2>2. Asked' = Asked
    BY <2>1, AskedSame
  <2>3. run' \in Running /\ run'.pc = "open" /\ run'.test = run.test
    BY <1>t, <2>1, GotoMoves DEF RunPoints
  <2>4. marks' \in Seq(Nat) /\ Len(marks') = Len(marks) + 1 /\ Len(marks) \in Nat
    BY <1>t, <2>1
  <2>5. RunTyped'
    BY <1>t, <2>1, <2>3, <2>4 DEF RunTyped
  <2>6. Counts'
    BY <1>t, <1>i, <2>1, <2>2, <2>3, <2>4 DEF Counts, Within
  <2> QED  BY <2>3, <2>5, <2>6 DEF RunInv, Verdict, At
<1>4. CASE TestOpens
  <2>1. run.pc = "open" /\ Goto("clone") /\ UNCHANGED <<input, results, marks, bins>>
    BY <1>4 DEF TestOpens, At, diskVars
  <2> QED  BY <1>t, <1>w, <2>1, GotoMoves DEF Within, RunPoints
<1>5. CASE ClonesRepos
  <2>1. run.pc = "clone" /\ Goto("build") /\ UNCHANGED <<input, results, marks, bins>>
    BY <1>5 DEF ClonesRepos, At
  <2> QED  BY <1>t, <1>w, <2>1, GotoMoves DEF Within, RunPoints
<1>6. CASE Builds
  <2>1. /\ run.pc = "build" /\ Goto("configure") /\ UNCHANGED <<input, results, marks>>
        /\ bins' = bins \/ bins' = Built(Len(CrateOrder))
    BY <1>6 DEF Builds, At
  <2>2. bins' \in Binaries
    BY <1>t, <2>1, BuiltTyped
  <2> QED  BY <1>t, <1>w, <2>1, <2>2, GotoMoves DEF Within, RunPoints
<1>7. CASE Configures
  <2>1. run.pc = "configure" /\ UNCHANGED <<input, results, marks, bins>>
    BY <1>7 DEF Configures, At, diskVars
  <2>2. run' = [run EXCEPT !.pc = "ceremony", !.built = \A c \in Crates : bins[c] = "fresh",
                           !.alone = ~ leftover]
    BY <1>7 DEF Configures
  <2>3. run' \in Running /\ run'.pc = "ceremony" /\ run'.test = run.test
    BY <1>t, <2>2 DEF Running, RunPoints
  <2> QED  BY <1>t, <1>w, <2>1, <2>3 DEF Within
<1>8. CASE TestOpeningFails
  BY <1>t, <1>r, <1>8 DEF TestOpeningFails, At, Within, diskVars
<1>9. CASE CloneFails
  BY <1>t, <1>r, <1>9 DEF CloneFails, At, Within
<1>10. CASE InstallFails
  BY <1>t, <1>r, <1>10 DEF InstallFails, At, Within, diskVars
<1>11. CASE BuildFails
  BY <1>t, <1>r, <1>11, BuiltTyped DEF BuildFails, At, Within
<1>12. CASE ConfigureFails
  BY <1>t, <1>r, <1>12 DEF ConfigureFails, At, Within, diskVars
<1>13. CASE CeremonyReturns
  BY <1>t, <1>r, <1>13 DEF CeremonyReturns, At, Within, diskVars
<1>14. CASE ConfigurePanics \/ CeremonyPanics
  <2>1. /\ run.pc \in Within /\ Goto("panicked") /\ UNCHANGED <<input, results, marks, bins>>
    BY <1>14 DEF ConfigurePanics, CeremonyPanics, At, Within, diskVars
  <2>2. Asked' = Asked
    BY <2>1, AskedSame
  <2>3. run' \in Running /\ run'.pc = "panicked" /\ run'.test = run.test
    BY <1>t, <2>1, GotoMoves DEF RunPoints
  <2> QED  BY <1>t, <1>i, <2>1, <2>2, <2>3 DEF RunInv, RunTyped, Counts, Verdict, At, Within
<1>15. CASE RunReturns
  <2>1. /\ run.pc = "next" /\ run.test > Len(Asked) /\ UNCHANGED <<input, results, marks, bins>>
        /\ Goto(IF AllOk THEN "ok" ELSE "error")
    <3>1. \A k \in 1 .. Len(results) : results[k].outcome \in {"ok", "error"}
      <4>1. \A k \in 1 .. Len(results) : results[k] \in Outcomes
        BY <1>t
      <4> QED  BY <4>1 DEF Outcomes
    <3>2. (\E k \in 1 .. Len(results) : results[k].outcome = "error") <=> ~ AllOk
      BY <3>1 DEF AllOk
    <3> QED  BY <1>15, <3>2 DEF RunReturns, At, diskVars
  <2>2. Asked' = Asked /\ AllOk' = AllOk
    BY <2>1, AskedSame DEF AllOk
  <2>3. /\ run' \in Running /\ run'.pc = (IF AllOk THEN "ok" ELSE "error")
        /\ run'.test = run.test
    BY <1>t, <2>1, GotoMoves DEF RunPoints
  <2>4. run.test = Len(Asked) + 1
    BY <1>t, <1>i, <2>1 DEF Counts
  <2>5. RunTyped'
    BY <1>t, <2>1, <2>3 DEF RunTyped
  <2>6. Counts'
    BY <1>t, <1>i, <2>1, <2>2, <2>3, <2>4 DEF Counts, Within
  <2>7. Verdict'
    BY <2>2, <2>3, <2>4 DEF Verdict, At
  <2> QED  BY <2>5, <2>6, <2>7 DEF RunInv
<1>16. CASE CeremonyGoesOn
  BY <1>u, <1>16 DEF CeremonyGoesOn, runVars, diskVars
<1>17. CASE LeftoverEnds
  BY <1>u, <1>17 DEF LeftoverEnds, runVars, diskVars
<1>18. CASE SomebodyLogs
  BY <1>u, <1>18 DEF SomebodyLogs, runVars, diskVars
<1>19. CASE LogWorkerStep
  BY <1>u, <1>19 DEF LogWorkerStep, runVars, diskVars
<1>20. CASE UNCHANGED vars
  BY <1>u, <1>20 DEF vars, runVars, diskVars
<1> QED  BY <1>1, <1>2, <1>3, <1>4, <1>5, <1>6, <1>7, <1>8, <1>9, <1>10, <1>11, <1>12, <1>13,
            <1>14, <1>15, <1>16, <1>17, <1>18, <1>19, <1>20 DEF Next

(* How far the run is.                                                     *)
THEOREM RunInvCorrect == Spec => []RunInv
<1>1. Init => RunInv
  BY RunTypedInit DEF Init, RunInv, Counts, Verdict, At, Within
<1>2. Spec => []LogTypeOK
  BY RunImplementsLog, LogTypeCorrect, PTL
<1> QED  BY <1>1, <1>2, RunInvStep, PTL DEF Spec

(* No test is left out because of another, and one error among them is one of *)
(* the program.                                                            *)
THEOREM EveryTestHasItsTurnCorrect == Spec => []EveryTestHasItsTurn
<1>1. RunInv => EveryTestHasItsTurn
  <2> SUFFICES ASSUME RunInv, At("ok") \/ At("error"), run.test > 0
               PROVE  Len(results) = Len(Asked) /\ (At("ok") <=> AllOk)
    BY DEF EveryTestHasItsTurn, AllOk
  <2> QED  BY AskedLen DEF RunInv, Counts, Verdict
<1> QED  BY <1>1, RunInvCorrect, PTL

--------------------------------------------------------------------------------
(* Where the log of a test goes: to a file only once the test has opened it,  *)
(* and then to that one until the next test begins.                         *)
FileOfTest == /\ file # NoFile => Len(marks) > 0 /\ file = Asked[Len(marks)].id
              /\ run.pc \in Within \ {"open"} => file # NoFile
              /\ run.pc \in {"next", "ok"} /\ results # <<>>
                    /\ results[Len(results)].outcome = "ok" => file # NoFile

FileInv == FileOfTest /\ LinesStayForward

(* What a step adds to a file is of the test that has begun last.             *)
LEMMA FileInvStep ==
    LogTypeOK /\ LogTypeOK' /\ OrderInv /\ RunInv /\ RunInv' /\ FileInv /\ [Next]_vars => FileInv'
<1> SUFFICES ASSUME LogTypeOK, LogTypeOK', OrderInv, RunInv, RunInv', FileInv, [Next]_vars
             PROVE  FileInv'
  OBVIOUS
<1>t. /\ run \in Running /\ run.test \in Nat /\ results \in Seq(Outcomes) /\ marks \in Seq(Nat)
      /\ emitted \in Nat /\ queue \in Seq(Nat) /\ buffer \in Seq(Nat)
      /\ file \in Files \cup {NoFile} /\ content \in [Files -> Seq(Nat)]
      /\ \A f \in Files : content[f] \in Seq(Nat)
      /\ RunTyped /\ Counts
  BY DEF RunInv, RunTyped, Running, LogTypeOK
<1>i. FileOfTest /\ LinesStayForward
  BY DEF FileInv
<1>c. \A f \in Files : \A n : Has(content[f], n) => n <= emitted
  BY <1>t, BoundedHas DEF OrderInv, AllBounded
<1>l. \A k \in 1 .. Len(marks) : \A f \in Files : \A n \in 1 .. emitted :
         n > marks[k] /\ Has(content[f], n) => \E j \in k .. Len(marks) : Asked[j].id = f
  BY <1>i DEF LinesStayForward, Entries
(* Entries come to no file, or to that of the last test.                      *)
<1>f. ASSUME NEW f \in Files, Len(marks) > 0, f = Asked[Len(marks)].id,
             \A g \in Files : g # f => content'[g] = content[g],
             UNCHANGED <<input, marks, emitted>>
      PROVE  LinesStayForward'
  <2>1. Asked' = Asked
    BY <1>f, AskedSame
  <2>2. ASSUME NEW k \in 1 .. Len(marks), NEW g \in Files, NEW n \in 1 .. emitted,
               n > marks[k], Has(content'[g], n)
        PROVE  \E j \in k .. Len(marks) : Asked[j].id = g
    <3>1. CASE g = f
      <4>1. Len(marks) \in k .. Len(marks)
        BY <1>t, <1>f
      <4> QED  BY <1>f, <3>1, <4>1
    <3>2. CASE g # f
      BY <1>f, <1>l, <2>2, <3>2
    <3> QED  BY <3>1, <3>2
  <2> QED  BY <1>f, <2>1, <2>2 DEF LinesStayForward, Entries
<1>n. ASSUME \A g \in Files, n \in Nat : n > 0 /\ Has(content'[g], n) => Has(content[g], n),
             UNCHANGED <<input, marks, emitted>>
      PROVE  LinesStayForward'
  <2>1. Asked' = Asked
    BY <1>n, AskedSame
  <2> QED  BY <1>t, <1>n, <1>l, <2>1 DEF LinesStayForward, Entries
(* The log is left alone.                                                   *)
<1>s. ASSUME UNCHANGED <<input, marks, logVars>>
      PROVE  /\ LinesStayForward'
             /\ file' # NoFile => Len(marks') > 0 /\ file' = Asked'[Len(marks')].id
  <2>1. Asked' = Asked
    BY <1>s, AskedSame
  <2>2. UNCHANGED <<content, emitted, file>>
    BY <1>s DEF logVars
  <2> QED  BY <1>s, <1>i, <1>n, <2>1, <2>2 DEF FileOfTest
<1>g. ASSUME NEW pc \in RunPoints, Goto(pc), UNCHANGED <<input, results, marks, logVars>>,
             \/ run.pc \in Within \ {"open"}
             \/ pc \in {"error", "panicked"}
             \/ pc = "ok" /\ run.pc = "next"
      PROVE  FileInv'
  <2>1. run'.pc = pc
    BY <1>t, <1>g, GotoMoves
  <2>2. file' = file
    BY <1>g DEF logVars
  <2>3. pc \in {"next", "ok"} => (pc = "ok" /\ run.pc = "next") \/ file # NoFile
    BY <1>i, <1>g DEF FileOfTest
  <2>4. pc \in Within \ {"open"} => file # NoFile
    BY <1>i, <1>g DEF FileOfTest, Within
  <2> QED  BY <1>g, <1>s, <1>i, <2>1, <2>2, <2>3, <2>4 DEF FileInv, FileOfTest
<1>r. ASSUME NEW outcome \in {"ok", "error"}, Returns(outcome), LinesStayForward',
             outcome = "ok" => file' # NoFile,
             file' # NoFile => Len(marks) > 0 /\ file' = Asked[Len(marks)].id
      PROVE  FileInv'
  <2>1. /\ run'.pc = "next" /\ Len(results') = Len(results) + 1
        /\ results'[Len(results) + 1].outcome = outcome
        /\ UNCHANGED <<input, marks>>
    BY <1>t, <1>r, ReturnsMoves
  <2>2. Asked' = Asked
    BY <2>1, AskedSame
  <2> QED  BY <1>t, <1>r, <2>1, <2>2 DEF FileInv, FileOfTest, Within
<1>1. CASE RunBegins
  <2>1. /\ run.pc = "begin" /\ UNCHANGED <<input, results, marks>>
        /\ \/ Goto("error")
           \/ run' = [run EXCEPT !.pc = "next", !.test = 1]
        /\ OutDirRemoved \/ UNCHANGED logVars
    BY <1>1 DEF RunBegins, At
  <2>2. results = <<>> /\ marks = <<>>
    BY <1>t, <2>1 DEF Counts
  <2>3. run'.pc \in {"error", "next"}
    BY <1>t, <2>1, GotoMoves DEF Running, RunPoints
  <2>4. file' = NoFile
    <3>1. file = NoFile
      BY <1>i, <2>2 DEF FileOfTest
    <3> QED  BY <2>1, <3>1 DEF OutDirRemoved, logVars
  <2>5. LinesStayForward'
    BY <2>1, <2>2 DEF LinesStayForward
  <2> QED  BY <2>1, <2>2, <2>3, <2>4, <2>5 DEF FileInv, FileOfTest, Within
<1>2. CASE RunFails
  BY <1>g, <1>2 DEF RunFails, RunPoints
<1>3. CASE TestBegins
  <2>1. /\ run.pc = "next" /\ marks' = Append(marks, emitted) /\ Goto("open") /\ file' = NoFile
        /\ UNCHANGED <<input, results, emitted, content>>
    BY <1>3 DEF TestBegins, SetNoOutFile, At
  <2>2. Asked' = Asked /\ run'.pc = "open"
    BY <1>t, <2>1, AskedSame, GotoMoves DEF RunPoints
  <2>3. /\ Len(marks') = Len(marks) + 1 /\ marks'[Len(marks) + 1] = emitted
        /\ \A k \in 1 .. Len(marks) : marks'[k] = marks[k]
    BY <1>t, <2>1
  <2>4. ASSUME NEW k \in 1 .. Len(marks'), NEW f \in Files, NEW n \in 1 .. emitted,
               n > marks'[k], Has(content[f], n)
        PROVE  \E j \in k .. Len(marks') : Asked[j].id = f
    <3>1. k \in 1 .. Len(marks)
      BY <1>t, <2>3, <2>4
    <3>2. PICK j \in k .. Len(marks) : Asked[j].id = f
      BY <1>l, <2>3, <2>4, <3>1
    <3>3. j \in k .. Len(marks')
      BY <1>t, <2>3, <3>1, <3>2
    <3> QED  BY <3>2, <3>3
  <2>5. LinesStayForward'
    BY <2>1, <2>2, <2>4 DEF LinesStayForward, Entries
  <2> QED  BY <2>1, <2>2, <2>5 DEF FileInv, FileOfTest, Within
<1>o. ASSUME run.pc = "open", SetOutFile(Test.id), UNCHANGED <<input, marks>>
      PROVE  /\ LinesStayForward' /\ file' # NoFile
             /\ Len(marks) > 0 /\ file' = Asked[Len(marks)].id
  <2>1. Len(marks) = run.test /\ run.test > 0
    BY <1>t, <1>o DEF Counts, Within
  <2>2. Test.id \in Files /\ file' = Test.id /\ Test.id = Asked[Len(marks)].id
    BY <1>o, <2>1 DEF SetOutFile, Test
  <2>3. \A g \in Files : g # Test.id => content'[g] = content[g]
    <3>1. file # NoFile => file = Test.id
      BY <1>i, <2>2 DEF FileOfTest
    <3> QED  BY <1>t, <1>o, <3>1 DEF SetOutFile, Flushed
  <2> QED  BY <1>f, <1>o, <2>1, <2>2, <2>3, LogFilesAssumption DEF SetOutFile
<1>4. CASE TestOpens
  <2>1. run.pc = "open" /\ SetOutFile(Test.id) /\ Goto("clone") /\ UNCHANGED <<input, results, marks>>
    BY <1>4 DEF TestOpens, At
  <2>2. run'.pc = "clone"
    BY <1>t, <2>1, GotoMoves DEF RunPoints
  <2>3. Asked' = Asked
    BY <2>1, AskedSame
  <2> QED  BY <1>o, <2>1, <2>2, <2>3 DEF FileInv, FileOfTest
<1>5. CASE TestOpeningFails
  <2>1. /\ run.pc = "open" /\ Returns("error") /\ UNCHANGED <<input, marks>>
        /\ OpenFails \/ CopyFails(Test.id) \/ SetOutFile(Test.id)
    BY <1>5 DEF TestOpeningFails, Returns, At
  <2>2. file # NoFile => file \in Files /\ Len(marks) > 0 /\ file = Asked[Len(marks)].id
    BY <1>t, <1>i DEF FileOfTest
  <2>3. CASE OpenFails
    <3>1. UNCHANGED <<emitted, file>>
      BY <2>3 DEF OpenFails
    <3>2. CASE file = NoFile
      <4>1. LinesStayForward'
        BY <1>n, <2>1, <2>3, <3>1, <3>2 DEF OpenFails
      <4> QED  BY <1>r, <2>1, <3>1, <3>2, <4>1
    <3>3. CASE file # NoFile
      <4>1. \A g \in Files : g # file => content'[g] = content[g]
        BY <1>t, <2>3, <3>3 DEF OpenFails, Flushed
      <4>2. LinesStayForward'
        BY <1>f, <2>1, <2>2, <3>1, <3>3, <4>1
      <4> QED  BY <1>r, <2>1, <2>2, <3>1, <3>3, <4>2
    <3> QED  BY <3>2, <3>3
  <2>4. CASE CopyFails(Test.id)
    <3>1. Test.id \in Files /\ file' = NoFile /\ UNCHANGED emitted
      BY <2>4 DEF CopyFails
    <3>2. Len(marks) > 0 /\ Test.id = Asked[Len(marks)].id
      BY <1>t, <2>1 DEF Counts, Within, Test
    <3>3. \A g \in Files : g # Test.id => content'[g] = content[g]
      BY <1>t, <2>4 DEF CopyFails
    <3>4. LinesStayForward'
      BY <1>f, <2>1, <3>1, <3>2, <3>3
    <3> QED  BY <1>r, <2>1, <3>1, <3>4
  <2>5. CASE SetOutFile(Test.id)
    BY <1>o, <1>r, <2>1, <2>5
  <2> QED  BY <2>1, <2>3, <2>4, <2>5
<1>6. CASE ClonesRepos
  BY <1>g, <1>6 DEF ClonesRepos, At, Within, RunPoints
<1>7. CASE Builds
  BY <1>g, <1>7 DEF Builds, At, Within, RunPoints
<1>8. CASE ConfigurePanics
  BY <1>g, <1>8 DEF ConfigurePanics, At, Within, RunPoints
<1>9. CASE CeremonyPanics
  BY <1>g, <1>9 DEF CeremonyPanics, At, Within, RunPoints
<1>10. CASE RunReturns
  <2>1. \/ Goto("ok") /\ run.pc = "next"
        \/ Goto("error")
    BY <1>10 DEF RunReturns, At
  <2> QED  BY <1>g, <1>10, <2>1 DEF RunReturns, RunPoints
<1>11. CASE Configures
  <2>1. run.pc = "configure" /\ UNCHANGED <<input, results, marks, logVars>>
    BY <1>11 DEF Configures, At
  <2>2. run' = [run EXCEPT !.pc = "ceremony", !.built = \A c \in Crates : bins[c] = "fresh",
                           !.alone = ~ leftover]
    BY <1>11 DEF Configures
  <2>3. run'.pc = "ceremony" /\ file' = file /\ file # NoFile
    BY <1>t, <1>i, <2>1, <2>2 DEF Running, FileOfTest, Within, logVars
  <2> QED  BY <1>s, <2>1, <2>3 DEF FileInv, FileOfTest
(* A test that returns from here leaves the log alone.                       *)
<1>q. ASSUME NEW outcome \in {"ok", "error"}, Returns(outcome), UNCHANGED logVars,
             run.pc \in Within \ {"open"}
      PROVE  FileInv'
  <2>1. UNCHANGED <<input, marks>>
    BY <1>t, <1>q, ReturnsMoves
  <2>2. LinesStayForward' /\ file' = file /\ file # NoFile
    BY <1>s, <1>i, <1>q, <2>1 DEF FileOfTest, logVars
  <2>3. Len(marks) > 0 /\ file = Asked[Len(marks)].id
    BY <1>i, <2>2 DEF FileOfTest
  <2> QED  BY <1>r, <1>q, <2>2, <2>3
<1>12. CASE CloneFails
  BY <1>q, <1>12 DEF CloneFails, At, Within
<1>13. CASE InstallFails
  BY <1>q, <1>13 DEF InstallFails, At, Within
<1>14. CASE BuildFails
  BY <1>q, <1>14 DEF BuildFails, At, Within
<1>15. CASE ConfigureFails
  BY <1>q, <1>15 DEF ConfigureFails, At, Within
<1>16. CASE CeremonyReturns
  BY <1>q, <1>16 DEF CeremonyReturns, At, Within
<1>u. ASSUME UNCHANGED <<runVars, logVars>> PROVE FileInv'
  BY <1>s, <1>i, <1>u DEF FileInv, FileOfTest, runVars, logVars
<1>17. CASE CeremonyGoesOn
  BY <1>u, <1>17 DEF CeremonyGoesOn
<1>18. CASE LeftoverEnds
  BY <1>u, <1>18 DEF LeftoverEnds
<1>19. CASE SomebodyLogs
  <2>1. UNCHANGED <<input, run, results, marks, file, content>> /\ emitted' = emitted + 1
    BY <1>19 DEF SomebodyLogs, Logs, runVars
  <2>2. Asked' = Asked
    BY <2>1, AskedSame
  <2>3. \A n \in 1 .. emitted' : n \in 1 .. emitted \/ n = emitted + 1
    BY <1>t, <2>1
  <2>4. \A f \in Files : ~ Has(content[f], emitted + 1)
    BY <1>t, <1>c
  <2>5. LinesStayForward'
    BY <1>l, <2>1, <2>2, <2>3, <2>4 DEF LinesStayForward, Entries
  <2> QED  BY <1>i, <2>1, <2>2, <2>5 DEF FileInv, FileOfTest
<1>20. CASE LogWorkerStep
  <2>1. /\ UNCHANGED <<input, run, results, marks, emitted, file>>
        /\ Write \/ Flush \/ WriteFails
    BY <1>20 DEF LogWorkerStep, runVars, Write, Flush, WriteFails
  <2>2. Asked' = Asked
    BY <2>1, AskedSame
  <2>3. CASE WriteFails \/ (Write /\ file = NoFile)
    <3>1. content' = content
      BY <2>3 DEF WriteFails, Write
    <3>2. LinesStayForward'
      BY <1>n, <2>1, <3>1
    <3> QED  BY <1>i, <2>1, <2>2, <3>2 DEF FileInv, FileOfTest
  <2>4. CASE Flush \/ (Write /\ file # NoFile)
    <3>1. file # NoFile /\ file \in Files /\ Len(marks) > 0 /\ file = Asked[Len(marks)].id
      BY <1>t, <1>i, <2>4 DEF FileOfTest, Flush
    <3>2. \A g \in Files : g # file => content'[g] = content[g]
      BY <1>t, <2>4, <3>1 DEF Write, Flush, Flushed
    <3>3. LinesStayForward'
      BY <1>f, <2>1, <3>1, <3>2
    <3> QED  BY <1>i, <2>1, <2>2, <3>3 DEF FileInv, FileOfTest
  <2> QED  BY <2>1, <2>3, <2>4
<1>21. CASE UNCHANGED vars
  BY <1>u, <1>21 DEF vars
<1> QED  BY <1>1, <1>2, <1>3, <1>4, <1>5, <1>6, <1>7, <1>8, <1>9, <1>10, <1>11, <1>12, <1>13,
            <1>14, <1>15, <1>16, <1>17, <1>18, <1>19, <1>20, <1>21 DEF Next

(* FileInv holds throughout: the file that is set is that of the last test   *)
(* that has begun, and no file of an earlier test gets a later line.        *)
THEOREM FileInvCorrect == Spec => []FileInv
<1>1. Init => FileInv
  BY DEF Init, LogInit, FileInv, FileOfTest, LinesStayForward, Within
<1>2. Spec => [](LogTypeOK /\ OrderInv)
  BY RunImplementsLog, LogTypeCorrect, OrderCorrect, PTL
<1> QED  BY <1>1, <1>2, RunInvCorrect, FileInvStep, PTL DEF Spec

(* However far behind the writer of the log is, and whatever fails, nothing   *)
(* that is logged once a test has begun goes to the log of an earlier one.    *)
THEOREM LinesStayForwardCorrect == Spec => []LinesStayForward
BY FileInvCorrect, PTL DEF FileInv

(* An Ok leaves no entry in memory, where it would end with the program.      *)
THEOREM LogReachesDiskCorrect == Spec => []LogReachesDisk
<1>1. LogTypeOK /\ OrderInv /\ RunInv /\ FileInv /\ NothingLost => LogReachesDisk
  <2> SUFFICES ASSUME LogTypeOK, OrderInv, RunInv, FileInv, NothingLost, At("ok"), results # <<>>
               PROVE  \A n \in Entries : \/ Has(queue, n) \/ n \in lost
                                         \/ \E f \in Files : Has(content[f], n)
    BY DEF LogReachesDisk
  <2>1. results \in Seq(Outcomes) /\ run.test \in Nat
    BY DEF RunInv, RunTyped, Running
  <2>2. results[Len(results)].outcome = "ok"
    <3>1. run.test > 0
      BY <2>1 DEF RunInv, Counts, At
    <3>2. AllOk
      BY <3>1 DEF RunInv, Verdict
    <3>3. Len(results) \in 1 .. Len(results)
      BY <2>1
    <3> QED  BY <3>2, <3>3 DEF AllOk
  <2>3. buffer = <<>>
    BY <2>2 DEF FileInv, FileOfTest, At, OrderInv, BufferWaits
  <2> QED  BY <2>3, HasEmpty DEF NothingLost
<1>2. Spec => [](LogTypeOK /\ OrderInv /\ NothingLost)
  BY RunImplementsLog, LogTypeCorrect, OrderCorrect, NothingLostCorrect, PTL
<1> QED  BY <1>1, <1>2, RunInvCorrect, FileInvCorrect, PTL

--------------------------------------------------------------------------------
(* The binaries: only the first test builds, and nothing unbuilds.            *)
Fresh == \A c \in Crates : bins[c] = "fresh"

BuiltInv ==
    /\ input.build /\ run.pc \in {"configure", "ceremony"} /\ run.test = 1 => Fresh
    /\ run.pc = "ceremony" => (run.built <=> Fresh)
    /\ input.build /\ results # <<>> /\ results[1].outcome = "ok" =>
          Fresh /\ \A k \in 1 .. Len(results) : results[k].outcome = "ok" => results[k].built

LEMMA BuiltStaysFresh == ASSUME NEW n, Fresh, bins' = Built(n) PROVE Fresh'
BY DEF Fresh, Built

LEMMA BuildsAll == ASSUME bins' = Built(Len(CrateOrder)) PROVE Fresh'
<1>1. CrateOrder \in Seq(Crates)
  BY RunAssumption
<1>2. \A i \in 1 .. Len(CrateOrder) : SubSeq(CrateOrder, 1, Len(CrateOrder))[i] = CrateOrder[i]
  BY <1>1
<1>3. /\ DOMAIN CrateOrder = 1 .. Len(CrateOrder)
      /\ DOMAIN SubSeq(CrateOrder, 1, Len(CrateOrder)) = 1 .. Len(CrateOrder)
  BY <1>1
<1>4. ToSet(SubSeq(CrateOrder, 1, Len(CrateOrder))) = Crates
  BY <1>2, <1>3 DEF ToSet, Crates
<1> QED  BY <1>4 DEF Fresh, Built

LEMMA BuiltInvStep == RunInv /\ BuiltInv /\ [Next]_vars => BuiltInv'
<1> SUFFICES ASSUME RunInv, BuiltInv, [Next]_vars PROVE BuiltInv'
  OBVIOUS
<1>t. run \in Running /\ run.test \in Nat /\ results \in Seq(Outcomes) /\ RunTyped /\ Counts
  BY DEF RunInv, RunTyped, Running
(* What is built stays so, and no ceremony begins.                          *)
<1>g. ASSUME run'.pc \notin {"configure", "ceremony"}, UNCHANGED <<input, results, bins>>
      PROVE  BuiltInv'
  BY <1>g DEF BuiltInv, Fresh
<1>m. ASSUME NEW pc \in RunPoints \ {"configure", "ceremony"}, Goto(pc),
             UNCHANGED <<input, results, bins>>
      PROVE  BuiltInv'
  BY <1>t, <1>g, <1>m, GotoMoves
<1>r. ASSUME Returns("error"), Fresh => Fresh'
      PROVE  BuiltInv'
  <2>1. /\ run'.pc = "next" /\ Len(results') = Len(results) + 1
        /\ \A k \in 1 .. Len(results) : results'[k] = results[k]
        /\ results'[Len(results) + 1].outcome = "error"
        /\ UNCHANGED input
    BY <1>t, <1>r, ReturnsMoves
  <2>2. ASSUME input.build, results'[1].outcome = "ok"
        PROVE  /\ Fresh'
               /\ \A k \in 1 .. Len(results') : results'[k].outcome = "ok" => results'[k].built
    <3>1. results # <<>> /\ 1 \in 1 .. Len(results)
      BY <1>t, <2>1, <2>2
    <3>2. /\ Fresh
          /\ \A k \in 1 .. Len(results) : results[k].outcome = "ok" => results[k].built
      BY <2>1, <2>2, <3>1 DEF BuiltInv
    <3> QED  BY <1>t, <1>r, <2>1, <3>2
  <2> QED  BY <2>1, <2>2 DEF BuiltInv
<1>u. ASSUME UNCHANGED <<input, run, results, bins>> PROVE BuiltInv'
  BY <1>u DEF BuiltInv, Fresh
<1>1. CASE RunBegins
  <2>1. /\ UNCHANGED <<input, results, bins>>
        /\ Goto("error") \/ run' = [run EXCEPT !.pc = "next", !.test = 1]
    BY <1>1 DEF RunBegins, diskVars
  <2>2. run'.pc \in {"error", "next"}
    BY <1>t, <2>1, GotoMoves DEF Running, RunPoints
  <2> QED  BY <1>g, <2>1, <2>2
<1>2. CASE RunFails
  BY <1>m, <1>2 DEF RunFails, diskVars, RunPoints
<1>3. CASE TestBegins
  BY <1>m, <1>3 DEF TestBegins, diskVars, RunPoints
<1>4. CASE TestOpens
  BY <1>m, <1>4 DEF TestOpens, diskVars, RunPoints
<1>5. CASE ClonesRepos
  BY <1>m, <1>5 DEF ClonesRepos, RunPoints
<1>6. CASE ConfigurePanics
  BY <1>m, <1>6 DEF ConfigurePanics, diskVars, RunPoints
<1>7. CASE CeremonyPanics
  BY <1>m, <1>7 DEF CeremonyPanics, diskVars, RunPoints
<1>8. CASE RunReturns
  <2>1. Goto("ok") \/ Goto("error")
    BY <1>8 DEF RunReturns
  <2> QED  BY <1>m, <1>8, <2>1 DEF RunReturns, diskVars, RunPoints
<1>9. CASE TestOpeningFails
  BY <1>r, <1>9 DEF TestOpeningFails, diskVars, Fresh
<1>10. CASE CloneFails
  BY <1>r, <1>10 DEF CloneFails, Fresh
<1>11. CASE InstallFails
  BY <1>r, <1>11 DEF InstallFails, diskVars, Fresh
<1>12. CASE BuildFails
  BY <1>r, <1>12, BuiltStaysFresh DEF BuildFails
<1>13. CASE ConfigureFails
  BY <1>r, <1>13 DEF ConfigureFails, diskVars, Fresh
<1>14. CASE Builds
  <2>1. Goto("configure") /\ UNCHANGED <<input, results>>
    BY <1>14 DEF Builds
  <2>2. run'.pc = "configure" /\ run'.test = run.test
    BY <1>t, <2>1, GotoMoves DEF RunPoints
  <2>3. input.build /\ run.test = 1 => Fresh'
    BY <1>14, BuildsAll DEF Builds, Options
  <2>4. Fresh => Fresh'
    <3>1. bins' = bins \/ bins' = Built(Len(CrateOrder))
      BY <1>14 DEF Builds
    <3> QED  BY <3>1, BuildsAll DEF Fresh
  <2> QED  BY <2>1, <2>2, <2>3, <2>4 DEF BuiltInv
<1>15. CASE Configures
  <2>1. run.pc = "configure" /\ UNCHANGED <<input, results, bins>>
    BY <1>15 DEF Configures, At, diskVars
  <2>2. run' = [run EXCEPT !.pc = "ceremony", !.built = Fresh, !.alone = ~ leftover]
    BY <1>15 DEF Configures, Fresh
  <2>3. run'.pc = "ceremony" /\ run'.test = run.test /\ run'.built = Fresh
    BY <1>t, <2>2 DEF Running
  <2> QED  BY <2>1, <2>3 DEF BuiltInv, Fresh
<1>16. CASE CeremonyReturns
  <2>1. /\ run.pc = "ceremony" /\ UNCHANGED bins
        /\ Returns("ok") \/ Returns("error")
    BY <1>16 DEF CeremonyReturns, At, diskVars
  <2>2. CASE Returns("error")
    BY <1>r, <2>1, <2>2 DEF Fresh
  <2>3. CASE Returns("ok")
    <3>1. /\ run'.pc = "next" /\ Len(results') = Len(results) + 1
          /\ \A k \in 1 .. Len(results) : results'[k] = results[k]
          /\ results'[Len(results) + 1].built = run.built
          /\ UNCHANGED input
      BY <1>t, <2>3, ReturnsMoves
    <3>2. ASSUME input.build, results'[1].outcome = "ok" PROVE Fresh
      <4>1. CASE results = <<>>
        <5>1. run.test = 1
          BY <1>t, <2>1, <4>1 DEF Counts, Within
        <5> QED  BY <2>1, <3>2, <5>1 DEF BuiltInv
      <4>2. CASE results # <<>>
        <5>1. results'[1] = results[1]
          BY <1>t, <3>1, <4>2
        <5> QED  BY <3>2, <4>2, <5>1 DEF BuiltInv
      <4> QED  BY <4>1, <4>2
    <3>3. ASSUME input.build, results'[1].outcome = "ok", NEW k \in 1 .. Len(results'),
                 results'[k].outcome = "ok"
          PROVE  results'[k].built
      <4>1. run.built
        BY <2>1, <3>2, <3>3 DEF BuiltInv
      <4>2. CASE k = Len(results) + 1
        BY <3>1, <4>1, <4>2
      <4>3. CASE k \in 1 .. Len(results)
        <5>1. results # <<>> /\ results[1] = results'[1] /\ results[k] = results'[k]
          BY <1>t, <3>1, <4>3
        <5> QED  BY <3>3, <4>3, <5>1 DEF BuiltInv
      <4> QED  BY <1>t, <3>1, <4>2, <4>3
    <3> QED  BY <2>1, <3>1, <3>2, <3>3 DEF BuiltInv, Fresh
  <2> QED  BY <2>1, <2>2, <2>3
<1>17. CASE CeremonyGoesOn
  BY <1>u, <1>17 DEF CeremonyGoesOn, runVars, diskVars
<1>18. CASE LeftoverEnds
  BY <1>u, <1>18 DEF LeftoverEnds, runVars, diskVars
<1>19. CASE SomebodyLogs
  BY <1>u, <1>19 DEF SomebodyLogs, runVars, diskVars
<1>20. CASE LogWorkerStep
  BY <1>u, <1>20 DEF LogWorkerStep, runVars, diskVars
<1>21. CASE UNCHANGED vars
  BY <1>u, <1>21 DEF vars, runVars, diskVars
<1> QED  BY <1>1, <1>2, <1>3, <1>4, <1>5, <1>6, <1>7, <1>8, <1>9, <1>10, <1>11, <1>12, <1>13,
            <1>14, <1>15, <1>16, <1>17, <1>18, <1>19, <1>20, <1>21 DEF Next

(* That the first test alone builds is enough for an Ok of the program.       *)
THEOREM OkMeansBuiltCorrect == Spec => []OkMeansBuilt
<1>1. Init => BuiltInv
  BY DEF Init, BuiltInv
<1>2. Spec => []BuiltInv
  BY <1>1, RunInvCorrect, BuiltInvStep, PTL DEF Spec
<1>3. RunInv /\ BuiltInv => OkMeansBuilt
  <2> SUFFICES ASSUME RunInv, BuiltInv, At("ok"), input.build, NEW k \in 1 .. Len(results)
               PROVE  results[k].built
    BY DEF OkMeansBuilt
  <2>1. results \in Seq(Outcomes) /\ run.test \in Nat
    BY DEF RunInv, RunTyped, Running
  <2>2. AllOk
    BY <2>1 DEF RunInv, Counts, Verdict, At
  <2>3. results # <<>> /\ results[1].outcome = "ok" /\ results[k].outcome = "ok"
    BY <2>1, <2>2 DEF AllOk
  <2> QED  BY <2>3 DEF BuiltInv
<1> QED  BY <1>2, <1>3, RunInvCorrect, PTL

--------------------------------------------------------------------------------
(* What is left of one test while another runs.                              *)
ErrorBefore == \E k \in 1 .. Len(results) : results[k].outcome = "error"

AloneInv == /\ leftover => ErrorBefore
            /\ phase = "ok" => ~ SomethingLeft
            /\ run.pc = "ceremony" /\ ~ run.alone => ErrorBefore

LEMMA AloneInvStep == RunInv /\ AloneInv /\ [Next]_vars => AloneInv'
<1> SUFFICES ASSUME RunInv, AloneInv, [Next]_vars PROVE AloneInv'
  OBVIOUS
<1>t. run \in Running /\ results \in Seq(Outcomes) /\ RunTyped
  BY DEF RunInv, RunTyped
<1>m. ASSUME run'.pc # "ceremony", UNCHANGED <<results, leftover, testVars>>
      PROVE  AloneInv'
  BY <1>m DEF AloneInv, ErrorBefore, SomethingLeft, testVars
<1>g. ASSUME NEW pc \in RunPoints \ {"ceremony"}, Goto(pc), UNCHANGED <<results, leftover, testVars>>
      PROVE  AloneInv'
  BY <1>t, <1>m, <1>g, GotoMoves
(* An error counts from now on.                                             *)
<1>r. ASSUME NEW outcome \in {"ok", "error"}, Returns(outcome),
             leftover' => leftover \/ outcome = "error",
             phase' = "ok" => ~ SomethingLeft'
      PROVE  AloneInv'
  <2>1. /\ run'.pc = "next" /\ Len(results') = Len(results) + 1
        /\ \A k \in 1 .. Len(results) : results'[k] = results[k]
        /\ results'[Len(results) + 1].outcome = outcome
    BY <1>t, <1>r, ReturnsMoves
  <2>2. outcome = "error" => ErrorBefore'
    BY <1>t, <2>1 DEF ErrorBefore
  <2>3. ErrorBefore => ErrorBefore'
    BY <1>t, <2>1 DEF ErrorBefore
  <2> QED  BY <1>r, <2>1, <2>2, <2>3 DEF AloneInv
<1>f. ASSUME Returns("error"), UNCHANGED <<leftover, testVars>> PROVE AloneInv'
  BY <1>r, <1>f DEF AloneInv, SomethingLeft, testVars
<1>u. ASSUME UNCHANGED <<run, results>>, leftover' => leftover, phase' = "ok" => ~ SomethingLeft'
      PROVE  AloneInv'
  BY <1>u DEF AloneInv, ErrorBefore
<1>v. ASSUME UNCHANGED <<run, results, testVars>>, leftover' => leftover PROVE AloneInv'
  BY <1>u, <1>v DEF AloneInv, SomethingLeft, testVars
<1>1. CASE RunBegins
  <2>1. /\ UNCHANGED <<results, leftover, testVars>>
        /\ Goto("error") \/ run' = [run EXCEPT !.pc = "next", !.test = 1]
    BY <1>1 DEF RunBegins
  <2>2. run'.pc \in {"error", "next"}
    BY <1>t, <2>1, GotoMoves DEF Running, RunPoints
  <2> QED  BY <1>m, <2>1, <2>2
<1>2. CASE RunFails
  BY <1>g, <1>2 DEF RunFails, RunPoints
<1>3. CASE TestBegins
  BY <1>g, <1>3 DEF TestBegins, RunPoints
<1>4. CASE TestOpens
  BY <1>g, <1>4 DEF TestOpens, RunPoints
<1>5. CASE ClonesRepos
  BY <1>g, <1>5 DEF ClonesRepos, RunPoints
<1>6. CASE Builds
  BY <1>g, <1>6 DEF Builds, RunPoints
<1>7. CASE ConfigurePanics
  BY <1>g, <1>7 DEF ConfigurePanics, RunPoints
<1>8. CASE CeremonyPanics
  BY <1>g, <1>8 DEF CeremonyPanics, RunPoints
<1>9. CASE RunReturns
  <2>1. Goto("ok") \/ Goto("error")
    BY <1>9 DEF RunReturns
  <2> QED  BY <1>g, <1>9, <2>1 DEF RunReturns, RunPoints
<1>10. CASE TestOpeningFails
  BY <1>f, <1>10 DEF TestOpeningFails
<1>11. CASE CloneFails
  BY <1>f, <1>11 DEF CloneFails
<1>12. CASE InstallFails
  BY <1>f, <1>12 DEF InstallFails
<1>13. CASE BuildFails
  BY <1>f, <1>13 DEF BuildFails
<1>14. CASE ConfigureFails
  BY <1>f, <1>14 DEF ConfigureFails
<1>15. CASE Configures
  <2>1. UNCHANGED <<results, leftover, testVars>>
    BY <1>15 DEF Configures
  <2>2. run' = [run EXCEPT !.pc = "ceremony", !.built = \A c \in Crates : bins[c] = "fresh",
                           !.alone = ~ leftover]
    BY <1>15 DEF Configures
  <2>3. run'.alone = ~ leftover
    BY <1>t, <2>2 DEF Running
  <2> QED  BY <2>1, <2>3 DEF AloneInv, ErrorBefore, SomethingLeft, testVars
<1>16. CASE CeremonyReturns
  <2>1. /\ phase \in {"ok", "error"} /\ Returns(phase) /\ phase' = "running"
        /\ leftover' = (leftover \/ SomethingLeft)
    BY <1>16 DEF CeremonyReturns, AnotherTest
  <2>2. leftover' => leftover \/ phase = "error"
    BY <2>1 DEF AloneInv
  <2> QED  BY <1>r, <2>1, <2>2
<1>17. CASE CeremonyGoesOn
  <2>1. UNCHANGED <<run, results, leftover>> /\ TestNext
    BY <1>17 DEF CeremonyGoesOn, runVars
  <2>2. phase' = "ok" => ~ SomethingLeft'
    BY <2>1 DEF TestNext, ProcessesChange, NextRound, TestPasses, TestFails, SomethingLeft
  <2> QED  BY <1>u, <2>1, <2>2
<1>18. CASE LeftoverEnds
  BY <1>v, <1>18 DEF LeftoverEnds, runVars
<1>19. CASE SomebodyLogs
  BY <1>v, <1>19 DEF SomebodyLogs, runVars
<1>20. CASE LogWorkerStep
  BY <1>v, <1>20 DEF LogWorkerStep, runVars
<1>21. CASE UNCHANGED vars
  BY <1>v, <1>21 DEF vars, runVars
<1> QED  BY <1>1, <1>2, <1>3, <1>4, <1>5, <1>6, <1>7, <1>8, <1>9, <1>10, <1>11, <1>12, <1>13,
            <1>14, <1>15, <1>16, <1>17, <1>18, <1>19, <1>20, <1>21 DEF Next

(* A process of an earlier test that leftover tells of - any but a contributor *)
(* that started in the middle of a round, which an Ok test may leave behind -  *)
(* can be there during a ceremony only if one of the tests before has failed.  *)
THEOREM AloneUnlessFailedCorrect == Spec => []AloneUnlessFailed
<1>1. Init => AloneInv
  BY DEF Init, TestInit, AloneInv
<1>2. Spec => []AloneInv
  BY <1>1, RunInvCorrect, AloneInvStep, PTL DEF Spec
<1>3. AloneInv => AloneUnlessFailed
  BY DEF AloneInv, AloneUnlessFailed, ErrorBefore, At
<1> QED  BY <1>2, <1>3, PTL

--------------------------------------------------------------------------------
(* The types of what RunInv leaves out.                                     *)
RestTyped == /\ TestTypeOK /\ input \in Inputs
             /\ emitted <= MaxLines /\ marks \in Seq(0 .. MaxLines)
             /\ run.test <= Len(Asked) + 1 /\ Len(results) <= run.test
             /\ repos \in [Repos -> {"absent", "partial", "whole"}]
             /\ leftover \in BOOLEAN /\ faults \in 0 .. MaxFaults

LEMMA TestStepTyped == TestTypeOK /\ TestNext => TestTypeOK'
<1> SUFFICES ASSUME TestTypeOK, TestNext PROVE TestTypeOK'
  OBVIOUS
<1> USE RoundsAssumption DEF TestTypeOK
<1>1. CASE ProcessesChange
  <2>1. present' \subseteq 1 .. Rounds
    BY <1>1 DEF ProcessesChange
  <2> QED  BY <1>1, <2>1 DEF ProcessesChange
<1>2. CASE NextRound
  BY <1>2 DEF NextRound
<1>3. CASE TestPasses
  BY <1>3 DEF TestPasses
<1>4. CASE TestFails
  BY <1>4 DEF TestFails
<1> QED  BY <1>1, <1>2, <1>3, <1>4 DEF TestNext

LEMMA ClonedTyped ==
    ASSUME repos \in [Repos -> {"absent", "partial", "whole"}], NEW n
    PROVE  Cloned(n) \in [Repos -> {"absent", "partial", "whole"}]
BY DEF Cloned

LEMMA FaultsTyped == faults \in 0 .. MaxFaults /\ [Next]_vars => faults' \in 0 .. MaxFaults
<1> SUFFICES ASSUME faults \in 0 .. MaxFaults, [Next]_vars PROVE faults' \in 0 .. MaxFaults
  OBVIOUS
<1> USE RunAssumption DEF Fault, FaultUnless
<1>1. CASE RunFails \/ TestOpeningFails \/ CloneFails \/ InstallFails \/ BuildFails
           \/ ConfigureFails \/ ConfigurePanics \/ LogWorkerStep
  BY <1>1 DEF RunFails, TestOpeningFails, CloneFails, InstallFails, BuildFails,
              ConfigureFails, ConfigurePanics, LogWorkerStep
<1>2. CASE RunBegins \/ TestBegins \/ TestOpens \/ ClonesRepos \/ Builds \/ Configures
  BY <1>2 DEF RunBegins, TestBegins, TestOpens, ClonesRepos, Builds, Configures
<1>3. CASE CeremonyGoesOn \/ CeremonyReturns \/ CeremonyPanics \/ LeftoverEnds \/ RunReturns
           \/ SomebodyLogs
  BY <1>3 DEF CeremonyGoesOn, CeremonyReturns, CeremonyPanics, LeftoverEnds, RunReturns,
              SomebodyLogs
<1>4. CASE UNCHANGED vars
  BY <1>4 DEF vars
<1> QED  BY <1>1, <1>2, <1>3, <1>4 DEF Next

LEMMA ReposTyped ==
    repos \in [Repos -> {"absent", "partial", "whole"}] /\ [Next]_vars =>
       repos' \in [Repos -> {"absent", "partial", "whole"}]
<1> SUFFICES ASSUME repos \in [Repos -> {"absent", "partial", "whole"}], [Next]_vars
             PROVE  repos' \in [Repos -> {"absent", "partial", "whole"}]
  OBVIOUS
<1>1. CASE ClonesRepos
  BY <1>1, ClonedTyped DEF ClonesRepos
<1>2. CASE CloneFails
  <2>1. PICK n \in 1 .. Len(RepoOrder), state \in {"absent", "partial"} :
           repos' = [Cloned(n - 1) EXCEPT ![RepoOrder[n]] = state]
    BY <1>2 DEF CloneFails
  <2> QED  BY <2>1, ClonedTyped
<1>3. CASE RunBegins \/ RunFails \/ TestBegins \/ TestOpens \/ TestOpeningFails
           \/ InstallFails \/ Builds \/ BuildFails \/ Configures
  BY <1>3 DEF RunBegins, RunFails, TestBegins, TestOpens, TestOpeningFails, InstallFails,
              Builds, BuildFails, Configures, diskVars
<1>4. CASE ConfigureFails \/ ConfigurePanics \/ CeremonyGoesOn \/ CeremonyReturns
           \/ CeremonyPanics \/ LeftoverEnds \/ RunReturns \/ SomebodyLogs \/ LogWorkerStep
  BY <1>4 DEF ConfigureFails, ConfigurePanics, CeremonyGoesOn, CeremonyReturns,
              CeremonyPanics, LeftoverEnds, RunReturns, SomebodyLogs, LogWorkerStep,
              diskVars
<1>5. CASE UNCHANGED vars
  BY <1>5 DEF vars, diskVars
<1> QED  BY <1>1, <1>2, <1>3, <1>4, <1>5 DEF Next

LEMMA TestVarsTyped == TestTypeOK /\ [Next]_vars => TestTypeOK'
<1> SUFFICES ASSUME TestTypeOK, [Next]_vars PROVE TestTypeOK'
  OBVIOUS
<1>u. ASSUME UNCHANGED testVars PROVE TestTypeOK'
  BY <1>u DEF TestTypeOK, testVars
<1>1. CASE CeremonyGoesOn
  BY <1>1, TestStepTyped DEF CeremonyGoesOn
<1>2. CASE CeremonyReturns
  <2>1. /\ phase' = "running" /\ round' = 0
        /\ present' = {} /\ helpers' = FALSE /\ announced' = FALSE
    BY <1>2 DEF CeremonyReturns, AnotherTest
  <2>2. round' \in 0 .. Rounds
    BY <2>1, RoundsAssumption
  <2> QED  BY <2>1, <2>2 DEF TestTypeOK
<1>3. CASE RunBegins \/ RunFails \/ TestBegins \/ TestOpens \/ TestOpeningFails
           \/ ClonesRepos \/ CloneFails \/ InstallFails \/ Builds
  BY <1>u, <1>3 DEF RunBegins, RunFails, TestBegins, TestOpens, TestOpeningFails, ClonesRepos,
              CloneFails, InstallFails, Builds
<1>4. CASE BuildFails \/ Configures \/ ConfigureFails \/ ConfigurePanics \/ CeremonyPanics
           \/ LeftoverEnds \/ RunReturns \/ SomebodyLogs \/ LogWorkerStep
  BY <1>u, <1>4 DEF BuildFails, Configures, ConfigureFails, ConfigurePanics, CeremonyPanics,
              LeftoverEnds, RunReturns, SomebodyLogs, LogWorkerStep
<1>5. CASE UNCHANGED vars
  BY <1>u, <1>5 DEF vars
<1> QED  BY <1>1, <1>2, <1>3, <1>4, <1>5 DEF Next

LEMMA LeftoverTyped == leftover \in BOOLEAN /\ [Next]_vars => leftover' \in BOOLEAN
<1> SUFFICES ASSUME leftover \in BOOLEAN, [Next]_vars PROVE leftover' \in BOOLEAN
  OBVIOUS
<1>1. CASE CeremonyReturns \/ LeftoverEnds
  BY <1>1 DEF CeremonyReturns, LeftoverEnds
<1>2. CASE RunBegins \/ RunFails \/ TestBegins \/ TestOpens \/ TestOpeningFails
           \/ ClonesRepos \/ CloneFails \/ InstallFails \/ Builds
  BY <1>2 DEF RunBegins, RunFails, TestBegins, TestOpens, TestOpeningFails, ClonesRepos,
              CloneFails, InstallFails, Builds
<1>3. CASE BuildFails \/ Configures \/ ConfigureFails \/ ConfigurePanics \/ CeremonyGoesOn
           \/ CeremonyPanics \/ RunReturns \/ SomebodyLogs \/ LogWorkerStep
  BY <1>3 DEF BuildFails, Configures, ConfigureFails, ConfigurePanics, CeremonyGoesOn,
              CeremonyPanics, RunReturns, SomebodyLogs, LogWorkerStep
<1>4. CASE UNCHANGED vars
  BY <1>4 DEF vars
<1> QED  BY <1>1, <1>2, <1>3, <1>4 DEF Next

(* The counters, the marks, and what is asked for.                           *)
LEMMA CountsTyped ==
    LogTypeOK /\ RunInv /\ RunInv' /\ RestTyped /\ [Next]_vars =>
       /\ input' \in Inputs /\ emitted' <= MaxLines /\ marks' \in Seq(0 .. MaxLines)
       /\ run'.test <= Len(Asked') + 1 /\ Len(results') <= run'.test
<1> SUFFICES ASSUME LogTypeOK, RunInv, RunInv', RestTyped, [Next]_vars
             PROVE  /\ input' \in Inputs /\ emitted' <= MaxLines /\ marks' \in Seq(0 .. MaxLines)
                    /\ run'.test <= Len(Asked') + 1 /\ Len(results') <= run'.test
  OBVIOUS
<1>t. /\ run \in Running /\ run.test \in Nat /\ results \in Seq(Outcomes) /\ RunTyped /\ Counts
      /\ input \in Inputs /\ emitted \in Nat /\ emitted <= MaxLines /\ MaxLines \in Nat
      /\ marks \in Seq(0 .. MaxLines) /\ run.test <= Len(Asked) + 1 /\ Len(results) <= run.test
      /\ Len(Asked) \in Nat /\ Len(results) \in Nat
  BY AskedLen, RunAssumption DEF RunInv, RunTyped, Running, RestTyped, LogTypeOK
<1>g. ASSUME UNCHANGED <<input, results, marks>>, emitted' <= MaxLines, run'.test = run.test
      PROVE  /\ input' \in Inputs /\ emitted' <= MaxLines /\ marks' \in Seq(0 .. MaxLines)
             /\ run'.test <= Len(Asked') + 1 /\ Len(results') <= run'.test
  BY <1>t, <1>g, AskedSame
<1>m. ASSUME NEW pc \in RunPoints, Goto(pc), UNCHANGED <<input, results, marks, logVars>>
      PROVE  /\ input' \in Inputs /\ emitted' <= MaxLines /\ marks' \in Seq(0 .. MaxLines)
             /\ run'.test <= Len(Asked') + 1 /\ Len(results') <= run'.test
  BY <1>t, <1>g, <1>m, GotoMoves DEF logVars
<1>r. ASSUME NEW outcome \in {"ok", "error"}, Returns(outcome), run.pc \in Within,
             emitted' = emitted
      PROVE  /\ input' \in Inputs /\ emitted' <= MaxLines /\ marks' \in Seq(0 .. MaxLines)
             /\ run'.test <= Len(Asked') + 1 /\ Len(results') <= run'.test
  <2>1. /\ run'.test = run.test + 1 /\ Len(results') = Len(results) + 1
        /\ UNCHANGED <<input, marks>>
    BY <1>t, <1>r, ReturnsMoves
  <2>2. run.test <= Len(Asked)
    BY <1>t, <1>r DEF Counts
  <2> QED  BY <1>t, <1>r, <2>1, <2>2, AskedSame
<1>1. CASE RunBegins
  <2>1. /\ UNCHANGED <<input, results, marks, emitted>> /\ run.pc = "begin"
        /\ Goto("error") \/ run' = [run EXCEPT !.pc = "next", !.test = 1]
    BY <1>1 DEF RunBegins, OutDirRemoved, logVars, At
  <2>2. CASE Goto("error")
    BY <1>t, <1>g, <2>1, <2>2, GotoMoves DEF RunPoints
  <2>3. CASE run' = [run EXCEPT !.pc = "next", !.test = 1]
    <3>1. run'.test = 1 /\ run.test = 0
      BY <1>t, <2>1, <2>3 DEF Running, Counts
    <3> QED  BY <1>t, <2>1, <3>1, AskedSame
  <2> QED  BY <2>1, <2>2, <2>3
<1>2. CASE RunFails \/ ClonesRepos \/ Builds \/ ConfigurePanics \/ CeremonyPanics
  BY <1>m, <1>2 DEF RunFails, ClonesRepos, Builds, ConfigurePanics, CeremonyPanics, RunPoints
<1>3. CASE TestBegins
  <2>1. /\ UNCHANGED <<input, results, emitted>> /\ marks' = Append(marks, emitted)
        /\ run'.test = run.test
    BY <1>t, <1>3, GotoMoves DEF TestBegins, SetNoOutFile, RunPoints
  <2>2. marks' \in Seq(0 .. MaxLines)
    BY <1>t, <2>1
  <2> QED  BY <1>t, <2>1, <2>2, AskedSame
<1>4. CASE TestOpens
  <2>1. Goto("clone") /\ UNCHANGED <<input, results, marks, emitted>>
    BY <1>4 DEF TestOpens, SetOutFile
  <2>2. run'.test = run.test
    BY <1>t, <2>1, GotoMoves DEF RunPoints
  <2> QED  BY <1>t, <1>g, <2>1, <2>2
<1>5. CASE TestOpeningFails
  BY <1>r, <1>5 DEF TestOpeningFails, OpenFails, CopyFails, SetOutFile, At, Within
<1>6. CASE CloneFails \/ InstallFails \/ BuildFails
  BY <1>r, <1>6 DEF CloneFails, InstallFails, BuildFails, At, Within, logVars
<1>7. CASE ConfigureFails \/ CeremonyReturns
  BY <1>r, <1>7 DEF ConfigureFails, CeremonyReturns, At, Within, logVars
<1>8. CASE Configures
  <2>1. UNCHANGED <<input, results, marks, emitted>> /\ run'.test = run.test
    BY <1>t, <1>8 DEF Configures, Running, logVars
  <2> QED  BY <1>t, <1>g, <2>1
<1>9. CASE RunReturns
  <2>1. Goto("ok") \/ Goto("error")
    BY <1>9 DEF RunReturns
  <2> QED  BY <1>m, <1>9, <2>1 DEF RunReturns, RunPoints
<1>10. CASE CeremonyGoesOn \/ LeftoverEnds
  BY <1>t, <1>g, <1>10 DEF CeremonyGoesOn, LeftoverEnds, runVars, logVars
<1>11. CASE SomebodyLogs
  BY <1>t, <1>g, <1>11 DEF SomebodyLogs, Logs, runVars
<1>12. CASE LogWorkerStep
  BY <1>t, <1>g, <1>12 DEF LogWorkerStep, Write, Flush, WriteFails, runVars
<1>13. CASE UNCHANGED vars
  BY <1>t, <1>g, <1>13 DEF vars, runVars, logVars
<1> QED  BY <1>1, <1>2, <1>3, <1>4, <1>5, <1>6, <1>7, <1>8, <1>9, <1>10, <1>11, <1>12, <1>13
         DEF Next

(* Type correctness of the run of a specification.                           *)
THEOREM RunTypeCorrect == Spec => []TypeOK
<1>1. Init => RestTyped
  <2> SUFFICES ASSUME Init PROVE RestTyped
    OBVIOUS
  <2>1. TestTypeOK
    <3>1. /\ phase = "running" /\ round = 0
          /\ present = {} /\ helpers = FALSE /\ announced = FALSE
      BY DEF Init, TestInit
    <3>2. round \in 0 .. Rounds
      BY <3>1, RoundsAssumption
    <3> QED  BY <3>1, <3>2 DEF TestTypeOK
  <2>2. emitted <= MaxLines /\ faults \in 0 .. MaxFaults
    BY RunAssumption DEF Init, LogInit
  <2>3. repos \in [Repos -> {"absent", "partial", "whole"}]
    BY DEF Init
  <2>4. input \in Inputs /\ leftover \in BOOLEAN
    BY DEF Init
  <2>5. results = <<>> /\ marks = <<>> /\ run.test = 0
    BY DEF Init
  <2>6. run.test <= Len(Asked) + 1 /\ Len(results) <= run.test /\ marks \in Seq(0 .. MaxLines)
    BY <2>5, AskedLen
  <2> QED  BY <2>1, <2>2, <2>3, <2>4, <2>6 DEF RestTyped
<1>2. LogTypeOK /\ RunInv /\ RunInv' /\ RestTyped /\ [Next]_vars => RestTyped'
  BY CountsTyped, TestVarsTyped, ReposTyped, LeftoverTyped, FaultsTyped DEF RestTyped
<1>3. LogTypeOK /\ RunInv /\ RestTyped => TypeOK
  BY AskedLen DEF RunInv, RunTyped, Running, Binaries, RestTyped, TypeOK
<1>4. Spec => []LogTypeOK
  BY RunImplementsLog, LogTypeCorrect, PTL
<1> QED  BY <1>1, <1>2, <1>3, <1>4, RunInvCorrect, PTL DEF Spec

--------------------------------------------------------------------------------
(* A ceremony begins only when no round of its test is invalid,              *)
Configured == At("ceremony") => ~ Invalid

(* since Configures looks at them, and the test stays the same until its end, *)
LEMMA ConfiguredStep == RunInv /\ Configured /\ [Next]_vars => Configured'
<1> SUFFICES ASSUME RunInv, Configured, [Next]_vars, At("ceremony")'
             PROVE  ~ Invalid'
  BY DEF Configured
<1>1. run \in Running /\ run'.pc = "ceremony"
  BY DEF RunInv, RunTyped, At
<1>2. CASE UNCHANGED runVars
  BY <1>1, <1>2 DEF runVars, Configured, At, Invalid, Test, Asked
<1>3. CASE Configures
  <2>1. ~ Invalid /\ input' = input /\ run'.test = run.test
    BY <1>1, <1>3 DEF Configures, Running
  <2> QED
    BY <2>1 DEF Invalid, Test, Asked
<1>4. ASSUME NEW pc \in RunPoints, pc # "ceremony", Goto(pc)
      PROVE  FALSE
  BY <1>1, <1>4, GotoMoves
<1>5. ASSUME NEW outcome, Returns(outcome)
      PROVE  FALSE
  BY <1>1, <1>5 DEF Returns
<1>6. CASE RunBegins
  <2>1. CASE input.tests = <<>>
    BY <1>4, <1>6, <2>1 DEF RunBegins, RunPoints
  <2>2. CASE input.tests # <<>>
    BY <1>1, <1>6, <2>2 DEF RunBegins, Running
  <2> QED
    BY <2>1, <2>2
<1>7. CASE RunFails \/ TestBegins \/ TestOpens \/ ClonesRepos \/ Builds \/ ConfigurePanics
           \/ CeremonyPanics
  BY <1>4, <1>7 DEF RunFails, TestBegins, TestOpens, ClonesRepos, Builds, ConfigurePanics,
                    CeremonyPanics, RunPoints
<1>8. CASE TestOpeningFails \/ CloneFails \/ InstallFails \/ BuildFails \/ ConfigureFails
           \/ CeremonyReturns
  BY <1>5, <1>8 DEF TestOpeningFails, CloneFails, InstallFails, BuildFails, ConfigureFails,
                    CeremonyReturns
<1>9. CASE RunReturns
  BY <1>4, <1>9 DEF RunReturns, RunPoints
<1>10. CASE CeremonyGoesOn \/ LeftoverEnds \/ SomebodyLogs \/ LogWorkerStep \/ UNCHANGED vars
  BY <1>2, <1>10 DEF CeremonyGoesOn, LeftoverEnds, SomebodyLogs, LogWorkerStep, vars
<1> QED
  BY <1>3, <1>6, <1>7, <1>8, <1>9, <1>10 DEF Next

(* so that in a ceremony, whatever the specification file asks for, the drop *)
(* monitor expects the drops that are caused, and every contributor is       *)
(* started once.                                                           *)
THEOREM CeremonyConfigured ==
    Spec => [](At("ceremony") =>
                   \A k \in 1 .. Len(Test.rounds) :
                       Test.rounds[k] \in TestRounds =>
                           DropsAgreeIn(Test.rounds[k]) /\ EachStartsOnceIn(Test.rounds[k]))
<1>1. Init => Configured
  BY DEF Init, Configured, At
<1>2. Configured =>
          (At("ceremony") =>
               \A k \in 1 .. Len(Test.rounds) :
                   Test.rounds[k] \in TestRounds =>
                       DropsAgreeIn(Test.rounds[k]) /\ EachStartsOnceIn(Test.rounds[k]))
  BY DropsAgreeAlways, EachStartsOnceAlways DEF Configured, Invalid
<1> QED
  BY <1>1, <1>2, ConfiguredStep, RunInvCorrect, PTL DEF Spec
================================================================================
