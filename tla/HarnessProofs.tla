---------------------------- MODULE HarnessProofs ----------------------------
(***************************************************************************)
(* Proofs about Harness, for every set of phases and trees and every       *)
(* number of calls: the inductive invariant, the safety invariants it      *)
(* implies, the action property CleanStart, and the safety part of the     *)
(* contract of Environment.                                                *)
(***************************************************************************)
EXTENDS Harness, TLAPS

\* A Run that has begun but has not counted itself yet.
Uncounted ==
  IF op = "run" /\ (pc \in {"up", "reset"} \/ (pc = "test" /\ ~flying)) THEN 1 ELSE 0

\* Runs are counted once per call, so results file names stay within bounds.
Counting ==
  /\ runs + Uncounted <= calls
  /\ \A ph \in Phases : index[ph] <= runs
  /\ pc = "test" /\ flying => index[at] >= 1

\* Which call and which mode each control state belongs to.
Control ==
  /\ pc = "new" => op = "open" /\ runs = 0
  /\ flying => pc \in HookDue
  /\ mode = "none" => pc \in {"new", "failed"}
  /\ op = "open" => pc \in {"new", "up", "down", "ready", "failed"}
  /\ op = "open" /\ pc \in {"up", "down"} => mode = "reused" /\ runs = 0
  /\ op = "run" /\ pc \in {"up", "down"} => mode = "fresh"
  /\ op = "close" => pc \in {"down", "closed"}
  /\ pc = "closed" => op = "close"
  /\ pc = "test" => op = "run"
  /\ pc = "reset" => op = "run" /\ mode = "reused" /\ runs > 0

\* Whether a teardown is owed, at every point of a call.
Owing ==
  /\ pc = "new" => ~owed /\ service = "down"
  /\ pc = "up" /\ ~flying => ~owed
  /\ pc = "up" /\ flying => owed
  /\ pc \in {"reset", "test"} => owed
  /\ pc = "ready" /\ mode = "reused" => owed
  /\ pc = "down" /\ flying => ~owed
  /\ TeardownAttempted

\* Where the services hold no data of an earlier test.
Clean ==
  /\ pc = "test" /\ ~flying => service = "clean"
  /\ pc = "ready" /\ mode = "reused" /\ runs = 0 => service = "clean"

\* The results file of the test in flight was removed before it started.
OwnFile ==
  /\ pc = "test" /\ flying => files[at][index[at]] = 0
  /\ ResultsAreOwn

\* A hook that has a context of its own may be killed under a live run, the
\* others only once the context of the run is dead.
OwnExit ==
  /\ killed => flying
  /\ killed /\ pc # "down" => ctx = "dead"
  /\ KilledNeverAnswers

IInv ==
  TypeOK /\ Counting /\ Control /\ Owing /\ LeakReported /\ Clean /\ OwnFile /\ OwnExit

-----------------------------------------------------------------------------
(* The inductive step, one lemma per conjunct of IInv.                     *)

LEMMA NoAnswerTyped == NoAnswer \in Answers
  BY HarnessAssumption DEF NoAnswer, Answers

\* Setting one entry keeps the table of results files a table.
LEMMA SetFile ==
  ASSUME NEW f \in ResultFiles, NEW ph \in Phases, NEW i \in 1..MaxCalls,
         NEW v \in 0..MaxCalls
  PROVE  /\ [f EXCEPT ![ph][i] = v] \in ResultFiles
         /\ [f EXCEPT ![ph][i] = v][ph][i] = v
<1>1. f[ph] \in [1..MaxCalls -> 0..MaxCalls]
  BY DEF ResultFiles
<1>2. [f[ph] EXCEPT ![i] = v] \in [1..MaxCalls -> 0..MaxCalls]
  BY <1>1
<1>3. QED BY <1>1, <1>2 DEF ResultFiles

LEMMA InitEstablishes == Init => IInv
<1> SUFFICES ASSUME Init PROVE IInv
  OBVIOUS
<1> USE HarnessAssumption DEF Init
<1>1. ControlTyped
  BY DEF ControlTyped, HookDue, Bounded, Ended
<1>0. FlagsTyped
  BY DEF FlagsTyped
<1>2. DiskTyped
  <2>1. files \in ResultFiles
    BY DEF ResultFiles
  <2>2. tree \in [Phases -> Trees \union {NoTree}] /\ index \in [Phases -> 0..MaxCalls]
    OBVIOUS
  <2>3. QED BY <2>1, <2>2, NoAnswerTyped DEF DiskTyped
<1>3. Counting
  BY DEF Counting, Uncounted
<1>4. Control /\ Owing /\ LeakReported /\ Clean /\ OwnFile /\ OwnExit
  BY DEF Control, Owing, TeardownAttempted, LeakReported, AtRest, Clean, OwnFile, OwnExit,
         ResultsAreOwn, KilledNeverAnswers, NoAnswer, HookDue, Bounded, Ended
<1>5. QED BY <1>0, <1>1, <1>2, <1>3, <1>4 DEF IInv, TypeOK

\* The run that is about to start finds its number and its file in bounds.
LEMMA CountRunTyped ==
  ASSUME TypeOK, Counting, Control, pc = "test", ~flying, CountRun,
         files' \in {files, Cleared}
  PROVE  /\ runs' \in 0..MaxCalls
         /\ index' \in [Phases -> 0..MaxCalls]
         /\ files' \in ResultFiles
         /\ index'[at] \in 1..MaxCalls
         /\ files' = Cleared => files'[at][index'[at]] = 0
<1>1. runs + 1 <= calls /\ index[at] <= runs /\ calls <= MaxCalls
  BY DEF Counting, Uncounted, Control, TypeOK, ControlTyped, DiskTyped
<1>2. runs \in Nat /\ index[at] \in Nat /\ calls \in Nat /\ at \in Phases
  BY HarnessAssumption DEF TypeOK, ControlTyped, DiskTyped
<1>3. index[at] + 1 \in 1..MaxCalls /\ runs + 1 \in 0..MaxCalls
  BY <1>1, <1>2, HarnessAssumption
<1>4. index' = [index EXCEPT ![at] = index[at] + 1] /\ runs' = runs + 1
  BY DEF CountRun
<1>5. index' \in [Phases -> 0..MaxCalls] /\ index'[at] = index[at] + 1
  BY <1>2, <1>3, <1>4 DEF TypeOK, DiskTyped
<1>6. Cleared = [files EXCEPT ![at][index[at] + 1] = 0]
  BY DEF Cleared, ClearResults
<1>7. Cleared \in ResultFiles /\ Cleared[at][index[at] + 1] = 0
  <2>1. files \in ResultFiles /\ 0 \in 0..MaxCalls
    BY HarnessAssumption DEF TypeOK, DiskTyped
  <2> DEFINE n == index[at] + 1
  <2>2. n \in 1..MaxCalls /\ at \in Phases
    BY <1>2, <1>3
  <2>3. Cleared = [files EXCEPT ![at][n] = 0]
    BY <1>6
  <2> HIDE DEF n
  <2>4. [files EXCEPT ![at][n] = 0] \in ResultFiles /\ [files EXCEPT ![at][n] = 0][at][n] = 0
    BY <2>1, <2>2, SetFile
  <2>5. Cleared \in ResultFiles /\ Cleared[at][n] = 0
    BY <2>3, <2>4
  <2>6. QED BY <2>5 DEF n
<1>8. files \in ResultFiles
  BY DEF TypeOK, DiskTyped
<1>9. QED BY <1>3, <1>4, <1>5, <1>7, <1>8

\* What a test leaves on disk and in its answer is well typed, and the answer
\* reads the file of its own run if the file was not there before.
LEMMA TestEndsTyped ==
  ASSUME TypeOK, Counting, NEW exit \in Exits, NEW writes \in BOOLEAN,
         NEW broken \in BOOLEAN, TestEnds(exit, writes, broken)
  PROVE  /\ files' \in ResultFiles
         /\ answer' \in Answers
         /\ files[at][index[at]] = 0 => answer'.cases \in {0, answer'.run}
<1> DEFINE i == index[at]
           written == IF writes THEN [files EXCEPT ![at][i] = runs] ELSE files
           failure == \/ ~IsAnswer(exit, ctx = "dead")
                      \/ written[at][i] # 0 /\ broken
<1>1. i \in 1..MaxCalls /\ at \in Phases /\ runs \in 0..MaxCalls /\ files \in ResultFiles
  BY HarnessAssumption DEF TestEnds, Counting, TypeOK, ControlTyped, DiskTyped
<1>2. written \in ResultFiles /\ written[at][i] \in {files[at][i], runs}
  BY <1>1, SetFile
<1>3. written[at][i] \in 0..MaxCalls
  BY <1>1, <1>2 DEF ResultFiles
<1>4. files' = written
  BY DEF TestEnds
<1>5. answer' = IF failure THEN NoAnswer
                ELSE [green |-> exit = "zero", killed |-> killed,
                      cases |-> written[at][i], run |-> runs]
  BY DEF TestEnds
<1>6. CASE failure
  <2>1. answer' = NoAnswer
    BY <1>5, <1>6
  <2>2. QED BY <1>2, <1>4, <2>1, NoAnswerTyped DEF NoAnswer
<1>7. CASE ~failure
  <2> HIDE DEF written
  <2>1. answer' = [green |-> exit = "zero", killed |-> killed,
                   cases |-> written[at][i], run |-> runs]
    BY <1>5, <1>7
  <2>2. killed \in BOOLEAN
    BY DEF TypeOK, FlagsTyped
  <2>3. answer' \in Answers
    BY <1>1, <1>3, <2>1, <2>2 DEF Answers
  <2>5. files[at][index[at]] = 0 => answer'.cases \in {0, answer'.run}
    BY <1>2, <2>1
  <2>6. QED BY <1>2, <1>4, <2>3, <2>5
<1>8. QED BY <1>6, <1>7

LEMMA ControlTypedStep ==
  ASSUME TypeOK, [Next]_vars
  PROVE  ControlTyped'
<1> USE HarnessAssumption DEF TypeOK, ControlTyped, vars, control, process, disk, outside,
         Starts, Finished, Return, Proceed, LeaveTest, LeaveDown, HookDue, Bounded, Ended
<1>1. CASE Cancel
  BY <1>1 DEF Cancel
<1>18. CASE Kill
  BY <1>18 DEF Kill
<1>2. CASE OpenFails
  BY <1>2 DEF OpenFails
<1>3. CASE OpenFindsHooks
  BY <1>3 DEF OpenFindsHooks, ModeOf
<1>4. ASSUME NEW ph \in Phases, NEW t \in Trees, Worktree(ph, t)
      PROVE  ControlTyped'
  BY <1>4 DEF Worktree
<1>5. ASSUME NEW ph \in Phases, Run(ph)
      PROVE  ControlTyped'
  BY <1>5 DEF Run, BeforeRun
<1>6. CASE Close
  BY <1>6 DEF Close
<1>7. CASE LaunchUp
  BY <1>7 DEF LaunchUp
<1>8. CASE LaunchReset
  BY <1>8 DEF LaunchReset
<1>9. CASE LaunchTest
  BY <1>9 DEF LaunchTest
<1>10. CASE LaunchDown
  BY <1>10 DEF LaunchDown
<1>11. CASE NotLaunched
  BY <1>11 DEF NotLaunched
<1>12. ASSUME NEW exit \in Exits, UpEnds(exit)
      PROVE  ControlTyped'
  BY <1>12 DEF UpEnds
<1>13. ASSUME NEW exit \in Exits, ResetEnds(exit)
      PROVE  ControlTyped'
  BY <1>13 DEF ResetEnds
<1>14. ASSUME NEW exit \in Exits, NEW writes \in BOOLEAN, NEW broken \in BOOLEAN, TestEnds(exit, writes, broken)
      PROVE  ControlTyped'
  BY <1>14 DEF TestEnds
<1>15. ASSUME NEW exit \in Exits, DownEnds(exit)
      PROVE  ControlTyped'
  BY <1>15 DEF DownEnds
<1>16. CASE UNCHANGED vars
  BY <1>16 DEF vars
<1>17. QED
  BY <1>1, <1>2, <1>3, <1>4, <1>5, <1>6, <1>7, <1>8, <1>9, <1>10, <1>11, <1>12, <1>13, <1>14, <1>15, <1>16, <1>18 DEF Next, Own, HookEnds, Over

LEMMA FlagsTypedStep ==
  ASSUME TypeOK, [Next]_vars
  PROVE  FlagsTyped'
<1> USE DEF TypeOK, FlagsTyped, vars, control, process, disk, outside,
         Starts, Finished, Return, Proceed, LeaveTest, LeaveDown
<1>1. CASE Cancel
  BY <1>1 DEF Cancel
<1>18. CASE Kill
  BY <1>18 DEF Kill
<1>2. CASE OpenFails
  BY <1>2 DEF OpenFails
<1>3. CASE OpenFindsHooks
  BY <1>3 DEF OpenFindsHooks, ModeOf
<1>4. ASSUME NEW ph \in Phases, NEW t \in Trees, Worktree(ph, t)
      PROVE  FlagsTyped'
  BY <1>4 DEF Worktree
<1>5. ASSUME NEW ph \in Phases, Run(ph)
      PROVE  FlagsTyped'
  BY <1>5 DEF Run, BeforeRun
<1>6. CASE Close
  BY <1>6 DEF Close
<1>7. CASE LaunchUp
  BY <1>7 DEF LaunchUp
<1>8. CASE LaunchReset
  BY <1>8 DEF LaunchReset
<1>9. CASE LaunchTest
  BY <1>9 DEF LaunchTest
<1>10. CASE LaunchDown
  BY <1>10 DEF LaunchDown
<1>11. CASE NotLaunched
  BY <1>11 DEF NotLaunched
<1>12. ASSUME NEW exit \in Exits, UpEnds(exit)
      PROVE  FlagsTyped'
  BY <1>12 DEF UpEnds
<1>13. ASSUME NEW exit \in Exits, ResetEnds(exit)
      PROVE  FlagsTyped'
  BY <1>13 DEF ResetEnds
<1>14. ASSUME NEW exit \in Exits, NEW writes \in BOOLEAN, NEW broken \in BOOLEAN, TestEnds(exit, writes, broken)
      PROVE  FlagsTyped'
  BY <1>14 DEF TestEnds
<1>15. ASSUME NEW exit \in Exits, DownEnds(exit)
      PROVE  FlagsTyped'
  BY <1>15 DEF DownEnds
<1>16. CASE UNCHANGED vars
  BY <1>16 DEF vars
<1>17. QED
  BY <1>1, <1>2, <1>3, <1>4, <1>5, <1>6, <1>7, <1>8, <1>9, <1>10, <1>11, <1>12, <1>13, <1>14, <1>15, <1>16, <1>18 DEF Next, Own, HookEnds, Over

LEMMA DiskTypedStep ==
  ASSUME TypeOK, Counting, Control, [Next]_vars
  PROVE  DiskTyped'
<1>1. CASE LaunchTest
  <2>1. pc = "test" /\ ~flying /\ CountRun /\ files' \in {files, Cleared}
    BY <1>1 DEF LaunchTest, Starts
  <2>2. tree' = tree /\ answer' = answer
    BY <1>1 DEF LaunchTest, Starts
  <2>3. QED BY <2>1, <2>2, CountRunTyped DEF TypeOK, DiskTyped
<1>2. CASE NotLaunched
  <2>1. CASE pc = "test"
    <3>1. ~flying /\ CountRun /\ files' \in {files, Cleared}
      BY <1>2, <2>1 DEF NotLaunched
    <3>2. tree' = tree /\ answer' = answer
      BY <1>2 DEF NotLaunched
    <3>3. QED BY <2>1, <3>1, <3>2, CountRunTyped DEF TypeOK, DiskTyped
  <2>2. CASE pc # "test"
    BY <1>2, <2>2 DEF NotLaunched, TypeOK, DiskTyped
  <2>3. QED BY <2>1, <2>2
<1>3. ASSUME NEW exit \in Exits, NEW writes \in BOOLEAN, NEW broken \in BOOLEAN,
             TestEnds(exit, writes, broken)
      PROVE  DiskTyped'
  <2>1. UNCHANGED <<tree, index, runs>>
    BY <1>3 DEF TestEnds
  <2>2. QED BY <1>3, <2>1, TestEndsTyped DEF TypeOK, DiskTyped
<1>4. ASSUME NEW ph \in Phases, NEW t \in Trees, Worktree(ph, t)
      PROVE  DiskTyped'
  <2>1. UNCHANGED <<runs, files, answer>>
    BY <1>4 DEF Worktree
  <2>2. index' = [index EXCEPT ![ph] = 0] /\ 0 \in 0..MaxCalls
    BY <1>4, HarnessAssumption DEF Worktree
  <2>3. index' \in [Phases -> 0..MaxCalls]
    BY <2>2 DEF TypeOK, DiskTyped
  <2>4. PICK held \in Trees \union {NoTree} : tree' = [tree EXCEPT ![ph] = held]
    BY <1>4 DEF Worktree
  <2>5. tree' \in [Phases -> Trees \union {NoTree}]
    BY <2>4 DEF TypeOK, DiskTyped
  <2>6. QED BY <2>1, <2>3, <2>5 DEF TypeOK, DiskTyped
<1>5. ASSUME NEW ph \in Phases, Run(ph)
      PROVE  DiskTyped'
  BY <1>5, NoAnswerTyped DEF Run, TypeOK, DiskTyped
<1>6. ASSUME UNCHANGED disk
      PROVE  DiskTyped'
  BY <1>6 DEF disk, TypeOK, DiskTyped
<1>7. QED
  BY <1>1, <1>2, <1>3, <1>4, <1>5, <1>6
  DEF Next, Own, HookEnds, Over, vars, disk, Cancel, Kill, OpenFails, OpenFindsHooks,
      Close, Starts, LaunchUp, LaunchReset, LaunchDown, UpEnds, ResetEnds, DownEnds

LEMMA CountingStep ==
  ASSUME TypeOK, Counting, Control, [Next]_vars
  PROVE  Counting'
<1> USE HarnessAssumption DEF vars, control, process, disk, outside, Starts, Finished, Return, Proceed, LeaveTest,
         LeaveDown, CountRun, HookDue, Bounded, Ended, TypeOK, ControlTyped, DiskTyped,
         Counting, Uncounted, Control, BeforeRun
<1>1. CASE Cancel
  BY <1>1 DEF Cancel
<1>18. CASE Kill
  BY <1>18 DEF Kill
<1>2. CASE OpenFails
  BY <1>2 DEF OpenFails
<1>3. CASE OpenFindsHooks
  BY <1>3 DEF OpenFindsHooks
<1>4. ASSUME NEW ph \in Phases, NEW t \in Trees, Worktree(ph, t)
      PROVE  Counting'
  BY <1>4 DEF Worktree
<1>5. ASSUME NEW ph \in Phases, Run(ph)
      PROVE  Counting'
  BY <1>5 DEF Run
<1>6. CASE Close
  BY <1>6 DEF Close
<1>7. CASE LaunchUp
  BY <1>7 DEF LaunchUp
<1>8. CASE LaunchReset
  BY <1>8 DEF LaunchReset
<1>9. CASE LaunchTest
  BY <1>9 DEF LaunchTest
<1>10. CASE LaunchDown
  BY <1>10 DEF LaunchDown
<1>11. CASE NotLaunched
  BY <1>11 DEF NotLaunched
<1>12. ASSUME NEW exit \in Exits, UpEnds(exit)
      PROVE  Counting'
  BY <1>12 DEF UpEnds
<1>13. ASSUME NEW exit \in Exits, ResetEnds(exit)
      PROVE  Counting'
  BY <1>13 DEF ResetEnds
<1>14. ASSUME NEW exit \in Exits, NEW writes \in BOOLEAN, NEW broken \in BOOLEAN, TestEnds(exit, writes, broken)
      PROVE  Counting'
  BY <1>14 DEF TestEnds
<1>15. ASSUME NEW exit \in Exits, DownEnds(exit)
      PROVE  Counting'
  BY <1>15 DEF DownEnds
<1>16. CASE UNCHANGED vars
  BY <1>16 DEF vars
<1>17. QED
  BY <1>1, <1>2, <1>3, <1>4, <1>5, <1>6, <1>7, <1>8, <1>9, <1>10, <1>11, <1>12, <1>13, <1>14, <1>15, <1>16, <1>18 DEF Next, Own, HookEnds, Over

LEMMA ControlStep ==
  ASSUME TypeOK, Control, [Next]_vars
  PROVE  Control'
<1> USE HarnessAssumption DEF vars, control, process, disk, outside, Starts, Finished, Return, Proceed, LeaveTest,
         LeaveDown, CountRun, HookDue, Bounded, Ended, TypeOK, ControlTyped, DiskTyped,
         Control, BeforeRun, ModeOf
<1>1. CASE Cancel
  BY <1>1 DEF Cancel
<1>18. CASE Kill
  BY <1>18 DEF Kill
<1>2. CASE OpenFails
  BY <1>2 DEF OpenFails
<1>3. CASE OpenFindsHooks
  <2>1. pc = "new" /\ op' = op /\ flying' = flying /\ runs' = runs
    BY <1>3 DEF OpenFindsHooks
  <2>2. \/ mode' = "reused" /\ pc' = "up"
        \/ mode' = "fresh" /\ pc' = "ready"
    BY <1>3 DEF OpenFindsHooks
  <2>3. op = "open" /\ flying = FALSE
    BY <2>1
  <2>4. QED BY <2>1, <2>2, <2>3
<1>4. ASSUME NEW ph \in Phases, NEW t \in Trees, Worktree(ph, t)
      PROVE  Control'
  BY <1>4 DEF Worktree
<1>5. ASSUME NEW ph \in Phases, Run(ph)
      PROVE  Control'
  BY <1>5 DEF Run
<1>6. CASE Close
  BY <1>6 DEF Close
<1>7. CASE LaunchUp
  BY <1>7 DEF LaunchUp
<1>8. CASE LaunchReset
  BY <1>8 DEF LaunchReset
<1>9. CASE LaunchTest
  BY <1>9 DEF LaunchTest
<1>10. CASE LaunchDown
  BY <1>10 DEF LaunchDown
<1>11. CASE NotLaunched
  BY <1>11 DEF NotLaunched
<1>12. ASSUME NEW exit \in Exits, UpEnds(exit)
      PROVE  Control'
  BY <1>12 DEF UpEnds
<1>13. ASSUME NEW exit \in Exits, ResetEnds(exit)
      PROVE  Control'
  BY <1>13 DEF ResetEnds
<1>14. ASSUME NEW exit \in Exits, NEW writes \in BOOLEAN, NEW broken \in BOOLEAN, TestEnds(exit, writes, broken)
      PROVE  Control'
  BY <1>14 DEF TestEnds
<1>15. ASSUME NEW exit \in Exits, DownEnds(exit)
      PROVE  Control'
  BY <1>15 DEF DownEnds
<1>16. CASE UNCHANGED vars
  BY <1>16 DEF vars
<1>17. QED
  BY <1>1, <1>2, <1>3, <1>4, <1>5, <1>6, <1>7, <1>8, <1>9, <1>10, <1>11, <1>12, <1>13, <1>14, <1>15, <1>16, <1>18 DEF Next, Own, HookEnds, Over

LEMMA OwingStep ==
  ASSUME TypeOK, Control, Owing, [Next]_vars
  PROVE  Owing'
<1> USE HarnessAssumption DEF vars, control, process, disk, outside, Starts, Finished, Return, Proceed, LeaveTest,
         LeaveDown, CountRun, HookDue, Bounded, Ended, TypeOK, ControlTyped, DiskTyped,
         Control, Owing, TeardownAttempted, AtRest, BeforeRun, ModeOf
<1>1. CASE Cancel
  BY <1>1 DEF Cancel
<1>18. CASE Kill
  BY <1>18 DEF Kill
<1>2. CASE OpenFails
  BY <1>2 DEF OpenFails
<1>3. CASE OpenFindsHooks
  BY <1>3 DEF OpenFindsHooks
<1>4. ASSUME NEW ph \in Phases, NEW t \in Trees, Worktree(ph, t)
      PROVE  Owing'
  BY <1>4 DEF Worktree
<1>5. ASSUME NEW ph \in Phases, Run(ph)
      PROVE  Owing'
  BY <1>5 DEF Run
<1>6. CASE Close
  BY <1>6 DEF Close
<1>7. CASE LaunchUp
  BY <1>7 DEF LaunchUp
<1>8. CASE LaunchReset
  BY <1>8 DEF LaunchReset
<1>9. CASE LaunchTest
  BY <1>9 DEF LaunchTest
<1>10. CASE LaunchDown
  BY <1>10 DEF LaunchDown
<1>11. CASE NotLaunched
  BY <1>11 DEF NotLaunched
<1>12. ASSUME NEW exit \in Exits, UpEnds(exit)
      PROVE  Owing'
  BY <1>12 DEF UpEnds
<1>13. ASSUME NEW exit \in Exits, ResetEnds(exit)
      PROVE  Owing'
  BY <1>13 DEF ResetEnds
<1>14. ASSUME NEW exit \in Exits, NEW writes \in BOOLEAN, NEW broken \in BOOLEAN, TestEnds(exit, writes, broken)
      PROVE  Owing'
  BY <1>14 DEF TestEnds
<1>15. ASSUME NEW exit \in Exits, DownEnds(exit)
      PROVE  Owing'
  BY <1>15 DEF DownEnds
<1>16. CASE UNCHANGED vars
  BY <1>16 DEF vars
<1>17. QED
  BY <1>1, <1>2, <1>3, <1>4, <1>5, <1>6, <1>7, <1>8, <1>9, <1>10, <1>11, <1>12, <1>13, <1>14, <1>15, <1>16, <1>18 DEF Next, Own, HookEnds, Over

LEMMA LeakStep ==
  ASSUME TypeOK, Control, Owing, LeakReported, [Next]_vars
  PROVE  LeakReported'
<1> USE HarnessAssumption DEF vars, control, process, disk, outside, Starts, Finished, Return, Proceed, LeaveTest,
         LeaveDown, CountRun, HookDue, Bounded, Ended, TypeOK, ControlTyped, DiskTyped,
         Control, Owing, LeakReported, AtRest, BeforeRun, ModeOf
<1>1. CASE Cancel
  BY <1>1 DEF Cancel
<1>18. CASE Kill
  BY <1>18 DEF Kill
<1>2. CASE OpenFails
  BY <1>2 DEF OpenFails
<1>3. CASE OpenFindsHooks
  BY <1>3 DEF OpenFindsHooks
<1>4. ASSUME NEW ph \in Phases, NEW t \in Trees, Worktree(ph, t)
      PROVE  LeakReported'
  BY <1>4 DEF Worktree
<1>5. ASSUME NEW ph \in Phases, Run(ph)
      PROVE  LeakReported'
  BY <1>5 DEF Run
<1>6. CASE Close
  BY <1>6 DEF Close
<1>7. CASE LaunchUp
  BY <1>7 DEF LaunchUp
<1>8. CASE LaunchReset
  BY <1>8 DEF LaunchReset
<1>9. CASE LaunchTest
  BY <1>9 DEF LaunchTest
<1>10. CASE LaunchDown
  BY <1>10 DEF LaunchDown
<1>11. CASE NotLaunched
  BY <1>11 DEF NotLaunched
<1>12. ASSUME NEW exit \in Exits, UpEnds(exit)
      PROVE  LeakReported'
  BY <1>12 DEF UpEnds
<1>13. ASSUME NEW exit \in Exits, ResetEnds(exit)
      PROVE  LeakReported'
  BY <1>13 DEF ResetEnds
<1>14. ASSUME NEW exit \in Exits, NEW writes \in BOOLEAN, NEW broken \in BOOLEAN, TestEnds(exit, writes, broken)
      PROVE  LeakReported'
  BY <1>14 DEF TestEnds
<1>15. ASSUME NEW exit \in Exits, DownEnds(exit)
      PROVE  LeakReported'
  BY <1>15 DEF DownEnds
<1>16. CASE UNCHANGED vars
  BY <1>16 DEF vars
<1>17. QED
  BY <1>1, <1>2, <1>3, <1>4, <1>5, <1>6, <1>7, <1>8, <1>9, <1>10, <1>11, <1>12, <1>13, <1>14, <1>15, <1>16, <1>18 DEF Next, Own, HookEnds, Over

LEMMA CleanStep ==
  ASSUME TypeOK, Counting, Control, Clean, [Next]_vars
  PROVE  Clean'
<1> USE HarnessAssumption DEF vars, control, process, disk, outside, Starts, Finished, Return, Proceed, LeaveTest,
         LeaveDown, CountRun, HookDue, Bounded, Ended, TypeOK, ControlTyped, DiskTyped,
         Control, Clean, BeforeRun, ModeOf
<1>1. CASE Cancel
  BY <1>1 DEF Cancel
<1>18. CASE Kill
  BY <1>18 DEF Kill
<1>2. CASE OpenFails
  BY <1>2 DEF OpenFails
<1>3. CASE OpenFindsHooks
  BY <1>3 DEF OpenFindsHooks
<1>4. ASSUME NEW ph \in Phases, NEW t \in Trees, Worktree(ph, t)
      PROVE  Clean'
  BY <1>4 DEF Worktree
<1>5. ASSUME NEW ph \in Phases, Run(ph)
      PROVE  Clean'
  BY <1>5 DEF Run
<1>6. CASE Close
  BY <1>6 DEF Close
<1>7. CASE LaunchUp
  BY <1>7 DEF LaunchUp
<1>8. CASE LaunchReset
  BY <1>8 DEF LaunchReset
<1>9. CASE LaunchTest
  BY <1>9 DEF LaunchTest
<1>10. CASE LaunchDown
  BY <1>10 DEF LaunchDown
<1>11. CASE NotLaunched
  BY <1>11 DEF NotLaunched
<1>12. ASSUME NEW exit \in Exits, UpEnds(exit)
      PROVE  Clean'
  BY <1>12 DEF UpEnds
<1>13. ASSUME NEW exit \in Exits, ResetEnds(exit)
      PROVE  Clean'
  BY <1>13 DEF ResetEnds
<1>14. ASSUME NEW exit \in Exits, NEW writes \in BOOLEAN, NEW broken \in BOOLEAN, TestEnds(exit, writes, broken)
      PROVE  Clean'
  <2>1. /\ pc = "test" /\ flying /\ flying' = FALSE /\ runs' = runs
        /\ mode' = mode /\ pc' \in {"down", "ready"}
    BY <1>14 DEF TestEnds
  <2>2. runs >= index[at] /\ index[at] >= 1 /\ runs \in Nat /\ index[at] \in Nat
    BY <2>1 DEF Counting
  <2>3. mode = "reused" => pc' = "ready"
    BY <2>1, <1>14 DEF TestEnds
  <2>4. QED BY <2>1, <2>2, <2>3
<1>15. ASSUME NEW exit \in Exits, DownEnds(exit)
      PROVE  Clean'
  BY <1>15 DEF DownEnds
<1>16. CASE UNCHANGED vars
  BY <1>16 DEF vars
<1>17. QED
  BY <1>1, <1>2, <1>3, <1>4, <1>5, <1>6, <1>7, <1>8, <1>9, <1>10, <1>11, <1>12, <1>13, <1>14, <1>15, <1>16, <1>18 DEF Next, Own, HookEnds, Over

LEMMA OwnFileStep ==
  ASSUME TypeOK, Counting, Control, OwnFile, [Next]_vars
  PROVE  OwnFile'
<1> USE HarnessAssumption DEF vars, control, process, disk, outside, Starts, Finished, Return, Proceed, LeaveTest,
         LeaveDown, CountRun, HookDue, Bounded, Ended, TypeOK, ControlTyped, DiskTyped,
         OwnFile, ResultsAreOwn
<1>1. CASE Cancel
  BY <1>1 DEF Cancel
<1>18. CASE Kill
  BY <1>18 DEF Kill
<1>2. CASE OpenFails
  BY <1>2 DEF OpenFails
<1>3. CASE OpenFindsHooks
  BY <1>3 DEF OpenFindsHooks
<1>4. ASSUME NEW ph \in Phases, NEW t \in Trees, Worktree(ph, t)
      PROVE  OwnFile'
  BY <1>4 DEF Worktree
<1>5. ASSUME NEW ph \in Phases, Run(ph)
      PROVE  OwnFile'
  <2>1. answer' = NoAnswer /\ ~flying /\ flying' = flying
    BY <1>5 DEF Run, Control
  <2>2. answer'.cases = 0
    BY <2>1 DEF NoAnswer
  <2>3. QED BY <2>1, <2>2
<1>6. CASE Close
  BY <1>6 DEF Close
<1>7. CASE LaunchUp
  BY <1>7 DEF LaunchUp
<1>8. CASE LaunchReset
  BY <1>8 DEF LaunchReset
<1>9. CASE LaunchTest
  BY <1>9, CountRunTyped DEF LaunchTest
<1>10. CASE LaunchDown
  BY <1>10 DEF LaunchDown
<1>11. CASE NotLaunched
  BY <1>11 DEF NotLaunched
<1>12. ASSUME NEW exit \in Exits, UpEnds(exit)
      PROVE  OwnFile'
  BY <1>12 DEF UpEnds
<1>13. ASSUME NEW exit \in Exits, ResetEnds(exit)
      PROVE  OwnFile'
  BY <1>13 DEF ResetEnds
<1>14. ASSUME NEW exit \in Exits, NEW writes \in BOOLEAN, NEW broken \in BOOLEAN, TestEnds(exit, writes, broken)
      PROVE  OwnFile'
  BY <1>14, TestEndsTyped DEF TestEnds
<1>15. ASSUME NEW exit \in Exits, DownEnds(exit)
      PROVE  OwnFile'
  BY <1>15 DEF DownEnds
<1>16. CASE UNCHANGED vars
  BY <1>16 DEF vars
<1>17. QED
  BY <1>1, <1>2, <1>3, <1>4, <1>5, <1>6, <1>7, <1>8, <1>9, <1>10, <1>11, <1>12, <1>13, <1>14, <1>15, <1>16, <1>18 DEF Next, Own, HookEnds, Over

\* A process that was killed can only report what the context check turns into an
\* error, so what a test leaves as an answer is not of a killed one.
LEMMA OwnExitStep ==
  ASSUME TypeOK, OwnExit, [Next]_vars
  PROVE  OwnExit'
<1> USE DEF OwnExit, KilledNeverAnswers, process, disk, Starts, Finished, NoAnswer
<1>1. CASE Cancel
  BY <1>1 DEF Cancel, control
<1>2. CASE Kill
  BY <1>2 DEF Kill
<1>3. ASSUME NEW ph \in Phases, NEW t \in Trees, Worktree(ph, t)
      PROVE  OwnExit'
  BY <1>3 DEF Worktree, Return
<1>4. ASSUME NEW ph \in Phases, Run(ph)
      PROVE  OwnExit'
  BY <1>4 DEF Run, Proceed
<1>5. CASE LaunchUp \/ LaunchReset \/ LaunchTest \/ LaunchDown
  BY <1>5 DEF LaunchUp, LaunchReset, LaunchTest, LaunchDown
<1>6. CASE OpenFails \/ OpenFindsHooks \/ Close \/ NotLaunched
  <2>1. UNCHANGED <<ctx, flying, killed, answer>> /\ (pc = "down" => ~flying)
    BY <1>6 DEF OpenFails, OpenFindsHooks, Close, NotLaunched
  <2>2. QED BY <2>1
<1>7. ASSUME NEW exit \in Exits, UpEnds(exit) \/ ResetEnds(exit) \/ DownEnds(exit)
      PROVE  OwnExit'
  BY <1>7 DEF UpEnds, ResetEnds, DownEnds
<1>8. ASSUME NEW exit \in Exits, NEW writes \in BOOLEAN, NEW broken \in BOOLEAN,
             TestEnds(exit, writes, broken)
      PROVE  OwnExit'
  <2>1. pc = "test" /\ killed' = FALSE
    BY <1>8 DEF TestEnds
  <2>2. CASE ~killed
    BY <1>8, <2>1, <2>2 DEF TestEnds
  <2>3. CASE killed
    <3>1. ctx = "dead" /\ exit \in {"nonzero", "interrupted"}
      BY <1>8, <2>1, <2>3 DEF Exits
    <3>2. ~IsAnswer(exit, ctx = "dead")
      BY <3>1 DEF IsAnswer
    <3>3. answer' = NoAnswer
      BY <1>8, <3>2 DEF TestEnds
    <3>4. QED BY <2>1, <3>3
  <2>4. QED BY <2>2, <2>3 DEF TypeOK, FlagsTyped
<1>9. CASE UNCHANGED vars
  BY <1>9 DEF vars
<1>10. QED
  BY <1>1, <1>2, <1>3, <1>4, <1>5, <1>6, <1>7, <1>8, <1>9 DEF Next, Own, HookEnds, Over

-----------------------------------------------------------------------------
(* The results.                                                            *)

LEMMA IInvStep == IInv /\ [Next]_vars => IInv'
<1> SUFFICES ASSUME IInv, [Next]_vars PROVE IInv'
  OBVIOUS
<1>1. TypeOK'
  BY ControlTypedStep, FlagsTypedStep, DiskTypedStep DEF IInv, TypeOK
<1>2. Counting' /\ Control' /\ Owing' /\ LeakReported' /\ Clean' /\ OwnFile' /\ OwnExit'
  BY CountingStep, ControlStep, OwingStep, LeakStep, CleanStep, OwnFileStep, OwnExitStep DEF IInv
<1>3. QED BY <1>1, <1>2 DEF IInv

LEMMA Inductive == Spec => []IInv
BY InitEstablishes, IInvStep, PTL DEF Spec

\* Every variable of a session keeps its type, its counters their bounds: run
\* numbers, and with them the results file names of Run, never outgrow the
\* calls made.
THEOREM SessionTyped == Spec => []TypeOK
<1>1. IInv => TypeOK
  BY DEF IInv
<1>2. QED BY <1>1, Inductive, PTL

\* Whatever fails or is killed, an env-up.sh that was launched is followed by
\* an attempt at env-down.sh before the session is over, and before the call
\* returns in fresh mode.
THEOREM TeardownAlwaysAttempted == Spec => []TeardownAttempted
<1>1. IInv => TeardownAttempted
  BY DEF IInv, Owing
<1>2. QED BY <1>1, Inductive, PTL

\* Services left running are never left running silently: a call has returned
\* an error to the caller.
THEOREM LeaksAreReported == Spec => []LeakReported
<1>1. IInv => LeakReported
  BY DEF IInv
<1>2. QED BY <1>1, Inductive, PTL

\* A run of test.sh reads the results its own script wrote, or none.
THEOREM RunsReadTheirOwnResults == Spec => []ResultsAreOwn
<1>1. IInv => ResultsAreOwn
  BY DEF IInv, OwnFile
<1>2. QED BY <1>1, Inductive, PTL

\* No Run returns what a killed test.sh reported: its non-zero exit looks like any
\* other, but the context that killed it is over, and hooks.run asks it.
THEOREM DeadlineNeverAnswers == Spec => []KilledNeverAnswers
<1>1. IInv => KilledNeverAnswers
  BY DEF IInv, OwnExit
<1>2. QED BY <1>1, Inductive, PTL

\* The only step that launches test.sh is LaunchTest, and the services are
\* clean where it is due.
THEOREM TestsStartClean == Spec => CleanStart
<1>1. IInv /\ [Next]_vars => [pc = "test" /\ ~flying /\ flying' => service = "clean"]_vars
  BY DEF IInv, Clean
<1>2. QED BY <1>1, Inductive, PTL DEF CleanStart, Spec

-----------------------------------------------------------------------------
(* Every step of the session is a step of its contract, or none.           *)

ContractStep == Contract!EnvNext \/ UNCHANGED Contract!envVars

LEMMA StepRefines ==
  ASSUME IInv, IInv', [Next]_vars
  PROVE  ContractStep
<1> USE DEF IInv, TypeOK, ControlTyped, FlagsTyped, Control, Owing, TeardownAttempted,
         LeakReported, Clean, AtRest, vars, control, process, disk, outside, Return, Proceed, Starts, Finished,
         HookDue, Bounded, Ended, ContractStep, Contract!EnvNext, Contract!envVars,
         Contract!MayReport, Contract!Idle
<1>1. CASE Cancel
  BY <1>1 DEF Cancel
<1>18. CASE Kill
  BY <1>18 DEF Kill
<1>2. CASE OpenFails
  BY <1>2 DEF OpenFails, Contract!End
<1>3. CASE OpenFindsHooks
  BY <1>3 DEF OpenFindsHooks
<1>4. ASSUME NEW ph \in Phases, NEW t \in Trees, Worktree(ph, t)
      PROVE  ContractStep
  BY <1>4 DEF Worktree, Contract!Report
<1>5. ASSUME NEW ph \in Phases, Run(ph)
      PROVE  ContractStep
  BY <1>5 DEF Run, BeforeRun
<1>6. CASE Close
  <2>1. CASE mode = "reused"
    BY <1>6, <2>1 DEF Close
  <2>2. CASE mode # "reused"
    <3>1. /\ pc = "ready" /\ pc' = "closed" /\ ~flying /\ ~flying' /\ ~owed /\ ~owed'
          /\ service' = service /\ mode = "fresh"
      BY <1>6, <2>2 DEF Close
    <3>2. told' \in {told, TRUE}
      BY <1>6, <2>2 DEF Close
    <3>3. service' = "down" \/ told'
      BY <3>1
    <3>4. QED BY <3>1, <3>2, <3>3 DEF Contract!End
  <2>3. QED BY <2>1, <2>2
<1>7. CASE LaunchUp
  BY <1>7 DEF LaunchUp, Contract!Start
<1>8. CASE LaunchReset
  BY <1>8 DEF LaunchReset
<1>9. CASE LaunchTest
  BY <1>9 DEF LaunchTest, Contract!StartTest
<1>10. CASE LaunchDown
  BY <1>10 DEF LaunchDown, Contract!AttemptStop
<1>11. CASE NotLaunched
  <2>1. ~flying /\ ~flying' /\ service' = service /\ pc \in HookDue
    BY <1>11 DEF NotLaunched
  <2>2. CASE pc = "down" /\ op = "run"
    <3>1. ~owed' /\ pc' = "ready" /\ told' = TRUE
      BY <1>11, <2>2 DEF NotLaunched, LeaveDown
    <3>2. UNCHANGED <<pc = "test" /\ flying, pc \in Ended>>
      BY <2>2, <3>1
    <3>3. owed' = FALSE
      BY <3>1
    <3>4. Contract!AttemptStop
      BY <2>1, <2>2, <3>1, <3>2, <3>3 DEF Contract!AttemptStop
    <3>5. QED BY <3>4
  <2>3. CASE pc = "down" /\ op # "run"
    <3>1. ~owed' /\ pc' \in {"failed", "closed"} /\ told' = TRUE
      BY <1>11, <2>3 DEF NotLaunched, LeaveDown
    <3>2. QED BY <2>1, <2>3, <3>1 DEF Contract!End
  <2>4. CASE pc # "down"
    <3>1. owed' = owed /\ pc' \in {"down", "ready"} /\ told' \in {told, TRUE}
      BY <1>11, <2>1, <2>4 DEF NotLaunched, LeaveTest
    <3>2. UNCHANGED <<service, owed, pc = "test" /\ flying, pc \in Ended>>
      BY <2>1, <2>4, <3>1
    <3>3. QED BY <3>1, <3>2 DEF Contract!Report
  <2>5. QED BY <2>2, <2>3, <2>4
<1>12. ASSUME NEW exit \in Exits, UpEnds(exit)
      PROVE  ContractStep
  <2>1. pc = "up" /\ flying /\ ~flying' /\ owed' = owed
    BY <1>12 DEF UpEnds
  <2>2. CASE exit = "zero"
    <3>1. service' = "clean" /\ pc' \in {"ready", "test"} /\ told' = told
      BY <1>12, <2>2 DEF UpEnds
    <3>2. QED BY <2>1, <3>1 DEF Contract!BecomeClean
  <2>3. CASE exit # "zero"
    BY <1>12, <2>1, <2>3 DEF UpEnds
  <2>4. QED BY <2>2, <2>3
<1>13. ASSUME NEW exit \in Exits, ResetEnds(exit)
      PROVE  ContractStep
  <2>1. pc = "reset" /\ flying /\ ~flying' /\ owed' = owed
    BY <1>13 DEF ResetEnds
  <2>2. CASE exit = "zero"
    <3>1. service' = "clean" /\ pc' = "test" /\ told' = told
      BY <1>13, <2>2 DEF ResetEnds
    <3>2. QED BY <2>1, <3>1 DEF Contract!BecomeClean
  <2>3. CASE exit # "zero"
    <3>1. service' = service /\ pc' = "ready" /\ told' = TRUE
      BY <1>13, <2>3 DEF ResetEnds
    <3>2. QED BY <2>1, <3>1 DEF Contract!Report
  <2>4. QED BY <2>2, <2>3
<1>14. ASSUME NEW exit \in Exits, NEW writes \in BOOLEAN, NEW broken \in BOOLEAN, TestEnds(exit, writes, broken)
      PROVE  ContractStep
  <2>1. /\ pc = "test" /\ flying /\ ~flying' /\ owed' = owed /\ service' = service
        /\ \E failure \in BOOLEAN : LeaveTest(failure)
    BY <1>14 DEF TestEnds, IsAnswer
  <2>2. pc' \in {"down", "ready"} /\ told' \in {told, TRUE}
    BY <2>1 DEF LeaveTest
  <2>3. (pc' = "test" /\ flying') = FALSE
    BY <2>1
  <2>4. UNCHANGED <<service, owed, pc \in Ended>>
    BY <2>1, <2>2
  <2>5. Contract!EndTest
    BY <2>1, <2>2, <2>3, <2>4 DEF Contract!EndTest
  <2>6. QED BY <2>5
<1>15. ASSUME NEW exit \in Exits, DownEnds(exit)
      PROVE  ContractStep
  <2>1. /\ pc = "down" /\ flying /\ ~flying' /\ ~owed /\ ~owed' /\ owed' = owed
        /\ service' = IF exit = "zero" THEN "down" ELSE service
    BY <1>15 DEF DownEnds
  <2>2. told' \in {told, TRUE} /\ (exit # "zero" => told')
    <3>1. LeaveDown(exit # "zero") /\ (op = "run" => err \in BOOLEAN)
      BY <1>15 DEF DownEnds
    <3>2. QED BY <3>1 DEF LeaveDown
  <2>3. CASE op = "run"
    <3>1. pc' = "ready"
      BY <1>15, <2>3 DEF DownEnds, LeaveDown
    <3>2. UNCHANGED <<owed, pc = "test" /\ flying, pc \in Ended>>
      BY <2>1, <3>1
    <3>3. QED BY <2>1, <2>2, <3>1, <3>2 DEF Contract!Stopped, Contract!Report
  <2>4. CASE op # "run"
    <3>1. pc' \in {"failed", "closed"}
      BY <1>15, <2>4 DEF DownEnds, LeaveDown
    <3>2. QED BY <2>1, <2>2, <3>1 DEF Contract!End
  <2>5. QED BY <2>3, <2>4
<1>16. CASE UNCHANGED vars
  BY <1>16 DEF vars
<1>17. QED
  BY <1>1, <1>2, <1>3, <1>4, <1>5, <1>6, <1>7, <1>8, <1>9, <1>10, <1>11, <1>12, <1>13, <1>14, <1>15, <1>16, <1>18 DEF Next, Own, HookEnds, Over

\* Whatever scripts, faults and deadline do, the session as internal/harness
\* writes it keeps the safety part of the contract of Environment: one start
\* per stop, tests on clean services only, nothing left running unreported.
THEOREM SessionKeepsContract == Spec => Contract!EnvSafety
<1>1. Init => Contract!EnvInit
  BY DEF Init, Ended, Contract!EnvInit
<1>2. IInv /\ IInv' /\ [Next]_vars => [Contract!EnvNext]_Contract!envVars
  BY StepRefines DEF ContractStep
<1>3. QED BY <1>1, <1>2, Inductive, PTL DEF Spec, Contract!EnvSafety

=============================================================================
