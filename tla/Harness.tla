------------------------------- MODULE Harness -------------------------------
(***************************************************************************)
(* The environment session of redfirst (internal/harness): one Session is  *)
(* opened, working copies are laid out in it, test.sh runs in them, and it *)
(* is closed. The session is driven from one goroutine; what interleaves   *)
(* with it is the context of the run, which a deadline or a signal cancels *)
(* at any moment, and the hook processes, which end as they like.          *)
(*                                                                         *)
(* A hook is due in state pc, is launched, may be killed, and ends.        *)
(* Between the launch and the end is where the deadline, the script and    *)
(* the services race. The caller (op = "open", "run", "close") decides     *)
(* where the session goes once the hook is over.                           *)
(***************************************************************************)
EXTENDS Naturals

CONSTANTS
  Phases,     \* the phases that own a working copy: base, head, suite
  Trees,      \* the git trees a working copy is laid out from
  NoTree,     \* no working copy is laid out
  MaxCalls    \* bound: Worktree and Run calls the caller makes

ASSUME HarnessAssumption ==
  /\ NoTree \notin Trees
  /\ MaxCalls \in Nat

VARIABLES
  ctx,        \* "live", or "dead" once the deadline or a signal struck
  op,         \* the call in progress
  pc,         \* where that call is
  flying,     \* the hook named by pc is running as a process
  killed,     \* the end of its context has killed that process
  err,        \* the call in progress has an error to return
  mode,       \* Session.mode
  at,         \* the phase a Run is for
  tree,       \* what the working copy of each phase holds
  index,      \* Worktree.runs of each phase
  runs,       \* Session.runs
  files,      \* results/<phase>-<index>: the run that wrote it, 0 for no file
  answer,     \* what the last Run returned
  service,    \* the services of the project
  owed,       \* env-up.sh was launched and no env-down.sh attempted since
  told,       \* some call has returned an error
  calls       \* calls made so far

process == <<flying, killed>>
control == <<op, pc, process, err, mode, at>>
disk    == <<tree, index, runs, files, answer>>
outside == <<service, owed>>
vars    == <<ctx, op, pc, process, err, mode, at, tree, index, runs, files,
             answer, service, owed, told, calls>>

Bounded == {"up", "reset", "test"}      \* hooks under the context of the run
HookDue == Bounded \union {"down"}
Ended   == {"closed", "failed"}
NoAnswer == [green |-> FALSE, killed |-> FALSE, cases |-> 0, run |-> 0]

\* What a Run found: the exit of its test.sh, and whose results it read. That
\* the process was killed is history: nothing tells the code so.
Answers == [green : BOOLEAN, killed : BOOLEAN,
            cases : 0..MaxCalls, run : 0..MaxCalls]

ResultFiles == [Phases -> [1..MaxCalls -> 0..MaxCalls]]

ControlTyped ==
  /\ ctx \in {"live", "dead"}
  /\ op \in {"open", "run", "close"}
  /\ pc \in HookDue \union Ended \union {"new", "ready"}
  /\ mode \in {"none", "fresh", "reused"}
  /\ at \in Phases
  /\ service \in {"down", "partial", "clean", "dirty"}
  /\ calls \in 0..MaxCalls

FlagsTyped ==
  /\ flying \in BOOLEAN /\ killed \in BOOLEAN
  /\ err \in BOOLEAN /\ owed \in BOOLEAN /\ told \in BOOLEAN

DiskTyped ==
  /\ tree \in [Phases -> Trees \union {NoTree}]
  /\ index \in [Phases -> 0..MaxCalls]
  /\ runs \in 0..MaxCalls
  /\ files \in ResultFiles
  /\ answer \in Answers

TypeOK == ControlTyped /\ FlagsTyped /\ DiskTyped

Init ==
  /\ ctx = "live" /\ op = "open" /\ pc = "new"
  /\ flying = FALSE /\ killed = FALSE /\ err = FALSE /\ mode = "none"
  /\ at \in Phases
  /\ tree = [p \in Phases |-> NoTree]
  /\ index = [p \in Phases |-> 0]
  /\ runs = 0
  /\ files = [p \in Phases |-> [i \in 1..MaxCalls |-> 0]]
  /\ answer = NoAnswer
  /\ service = "down" /\ owed = FALSE /\ told = FALSE
  /\ calls = 0

-----------------------------------------------------------------------------
(* Decisions of the code, one operator each. An operator whose name ends in *)
(* _bug is the mistake a run of the mutated module has to find; it is used *)
(* nowhere else.                                                           *)

\* Open: env-reset.sh on the base ref picks reuse, --fresh-env forbids it.
ModeOf(hasReset, fresh) ==
  IF hasReset /\ ~fresh THEN "reused" ELSE "fresh"

\* Counts from one: the second run of a reused session is not reset.
BeforeRun_bug ==
  IF mode = "fresh" THEN "up" ELSE IF runs > 1 THEN "reset" ELSE "test"

\* beforeRun: the hook that readies the services for one more run of test.sh.
BeforeRun ==
  IF mode = "fresh" THEN "up" ELSE IF runs > 0 THEN "reset" ELSE "test"

\* Takes every ExitError for an answer, whatever became of the context.
IsAnswer_bug(exit, contextOver) == exit \in {"zero", "nonzero"}

\* hooks.run: exit zero is an answer, and so is an ExitError unless the context
\* is over by then. Everything else is an error.
IsAnswer(exit, contextOver) ==
  exit = "zero" \/ (exit = "nonzero" /\ ~contextOver)

\* What cmd.Run reports of a process. A killed one shows the non-zero exit any
\* failure shows, or, where the kill met a script that had just exited zero, the
\* error of the context ("interrupted").
Exits == IF killed THEN {"nonzero", "interrupted"} ELSE {"zero", "nonzero"}

\* Leaves the file of an earlier run of the same name in place.
ClearResults_bug(ph, i) == files

\* Run: results file of the run about to start, removed before test.sh starts.
ClearResults(ph, i) == [files EXCEPT ![ph][i] = 0]

\* A call returns: its error, if there is one, reaches the caller.
Return(state, failure) ==
  /\ pc' = state
  /\ err' = failure
  /\ told' = (told \/ failure)

Proceed(state, failure) ==
  /\ pc' = state
  /\ err' = failure
  /\ UNCHANGED told

\* Forgets the deferred env-down.sh.
LeaveTest_bug(failure) == Return("ready", failure)

\* The body of Run has its result: the deferred env-down.sh of fresh mode
\* still comes, in reused mode the services stay.
LeaveTest(failure) ==
  IF mode = "fresh" THEN Proceed("down", failure) ELSE Return("ready", failure)

\* A Run drops the error of its own teardown.
LeaveDown_bug(failure) ==
  \/ op = "open"  /\ Return("failed", TRUE)
  \/ op = "run"   /\ Return("ready", err)
  \/ op = "close" /\ \E leftover \in BOOLEAN : Return("closed", failure \/ leftover)

\* env-down.sh is over. Open removes the run directory and fails; Close removes
\* it, which may fail; a Run keeps the error it has and takes the teardown's
\* otherwise.
LeaveDown(failure) ==
  \/ op = "open"  /\ Return("failed", TRUE)
  \/ op = "run"   /\ Return("ready", err \/ failure)
  \/ op = "close" /\ \E leftover \in BOOLEAN : Return("closed", failure \/ leftover)

-----------------------------------------------------------------------------
(* The context of the run ends: --timeout, SIGINT or SIGTERM.              *)
Cancel ==
  /\ ctx = "live" /\ pc \notin Ended
  /\ ctx' = "dead"
  /\ UNCHANGED <<control, disk, outside, told, calls>>

\* Runs env-down.sh without a deadline of its own, on a context nothing cancels.
Kill_bug ==
  /\ flying /\ ~killed
  /\ ctx = "dead" /\ pc # "down"
  /\ killed' = TRUE
  /\ UNCHANGED <<ctx, op, pc, flying, err, mode, at, disk, outside, told, calls>>

(* The end of its context kills a hook and its process group: the context  *)
(* of the run, or for env-down.sh its own teardownGrace.                   *)
Kill ==
  /\ flying /\ ~killed
  /\ ctx = "dead" \/ pc = "down"
  /\ killed' = TRUE
  /\ UNCHANGED <<ctx, op, pc, flying, err, mode, at, disk, outside, told, calls>>

(* Open up to the services: the run directory, the export of the hooks,    *)
(* their discovery and the check of env.sh. Each can fail, and git fails   *)
(* under a dead context.                                                   *)
OpenFails ==
  /\ pc = "new"
  /\ Return("failed", TRUE)
  /\ UNCHANGED <<ctx, op, process, mode, at, disk, outside, calls>>

OpenFindsHooks ==
  /\ pc = "new" /\ ctx = "live"
  /\ \E hasReset, fresh \in BOOLEAN : mode' = ModeOf(hasReset, fresh)
  /\ IF mode' = "reused" THEN Proceed("up", FALSE) ELSE Return("ready", FALSE)
  /\ UNCHANGED <<ctx, op, process, at, disk, outside, calls>>

(* Session.Worktree: clear the directory, lay the tree out. Run indices of *)
(* the phase start over. The export fails under a dead context.            *)
Worktree(ph, t) ==
  /\ pc = "ready" /\ calls < MaxCalls
  /\ calls' = calls + 1
  /\ index' = [index EXCEPT ![ph] = 0]
  /\ \/ /\ ctx = "live"
        /\ tree' = [tree EXCEPT ![ph] = t]
        /\ Return("ready", FALSE)
     \/ /\ tree' = [tree EXCEPT ![ph] = NoTree]
        /\ Return("ready", TRUE)
  /\ UNCHANGED <<ctx, op, process, mode, at, runs, files, answer, outside>>

(* Worktree.Run begins: it first readies the services.                     *)
Run(ph) ==
  /\ pc = "ready" /\ calls < MaxCalls /\ tree[ph] # NoTree
  /\ calls' = calls + 1
  /\ op' = "run" /\ at' = ph
  /\ answer' = NoAnswer
  /\ Proceed(BeforeRun, FALSE)
  /\ UNCHANGED <<ctx, process, mode, tree, index, runs, files, outside>>

(* Session.Close: only reused mode still has services to stop.             *)
Close ==
  /\ pc = "ready"
  /\ op' = "close"
  /\ \/ mode = "reused" /\ Proceed("down", FALSE)
     \/ mode # "reused" /\ \E failure \in BOOLEAN : Return("closed", failure)
  /\ UNCHANGED <<ctx, process, mode, at, disk, outside, calls>>

\* Counts the run once for the session and once more for the working copy.
CountRun_bug ==
  /\ runs' = runs + 2
  /\ index' = [index EXCEPT ![at] = @ + 1]

\* Run counts the run for the session and for the working copy.
CountRun ==
  /\ runs' = runs + 1
  /\ index' = [index EXCEPT ![at] = @ + 1]

\* On the way to test.sh the results file of the run is removed.
Cleared == ClearResults(at, index[at] + 1)

(* A hook that is due becomes a process. Only env-down.sh starts under a   *)
(* dead context: it has a context of its own.                              *)
Starts(hook) ==
  /\ pc = hook /\ ~flying
  /\ ctx = "live" \/ hook = "down"
  /\ flying' = TRUE /\ UNCHANGED killed
  /\ UNCHANGED <<ctx, op, pc, err, mode, at, tree, answer, told, calls>>

LaunchUp ==
  /\ Starts("up")
  /\ service' = "partial" /\ owed' = TRUE
  /\ UNCHANGED <<runs, index, files>>

LaunchReset ==
  /\ Starts("reset")
  /\ UNCHANGED <<service, owed, runs, index, files>>

LaunchTest ==
  /\ Starts("test")
  /\ CountRun /\ files' = Cleared
  /\ service' = "dirty" /\ UNCHANGED owed

LaunchDown ==
  /\ Starts("down")
  /\ service' = IF service = "down" THEN "down" ELSE "partial"
  /\ owed' = FALSE
  /\ UNCHANGED <<runs, index, files>>

(* A hook that is due never becomes a process: its context is dead, or its *)
(* output file cannot be created, or for test.sh the results file of the   *)
(* run cannot be removed.                                                  *)
NotLaunched ==
  /\ pc \in HookDue /\ ~flying
  /\ \/ pc = "up"    /\ Proceed("down", TRUE)
     \/ pc = "reset" /\ Return("ready", TRUE)
     \/ pc = "test"  /\ LeaveTest(TRUE)
     \/ pc = "down"  /\ LeaveDown(TRUE)
  /\ owed' = IF pc = "down" THEN FALSE ELSE owed
  /\ IF pc = "test" THEN CountRun /\ files' \in {files, Cleared}
                    ELSE UNCHANGED <<runs, index, files>>
  /\ UNCHANGED <<ctx, op, process, mode, at, tree, answer, service, calls>>

\* The process of the hook is over.
Finished == flying' = FALSE /\ killed' = FALSE

(* env-up.sh ends. One that failed is followed by env-down.sh, because it  *)
(* may have brought half of the services up.                               *)
UpEnds(exit) ==
  /\ pc = "up" /\ flying
  /\ Finished
  /\ IF exit = "zero"
       THEN /\ service' = "clean"
            /\ IF op = "open" THEN Return("ready", FALSE) ELSE Proceed("test", FALSE)
       ELSE Proceed("down", TRUE) /\ UNCHANGED service
  /\ UNCHANGED <<ctx, op, mode, at, disk, owed, calls>>

(* env-reset.sh ends.                                                      *)
ResetEnds(exit) ==
  /\ pc = "reset" /\ flying
  /\ Finished
  /\ IF exit = "zero"
       THEN service' = "clean" /\ Proceed("test", FALSE)
       ELSE Return("ready", TRUE) /\ UNCHANGED service
  /\ UNCHANGED <<ctx, op, mode, at, disk, owed, calls>>

(* test.sh ends, having written its results file, whole or broken, or not  *)
(* having written it. The file that is there is then read.                 *)
TestEnds(exit, writes, broken) ==
  /\ pc = "test" /\ flying
  /\ Finished
  /\ LET i       == index[at]
         written == IF writes THEN [files EXCEPT ![at][i] = runs] ELSE files
         failure == \/ ~IsAnswer(exit, ctx = "dead")
                    \/ written[at][i] # 0 /\ broken
     IN /\ files' = written
        /\ answer' = IF failure THEN NoAnswer
                     ELSE [green |-> exit = "zero", killed |-> killed,
                           cases |-> written[at][i], run |-> runs]
        /\ LeaveTest(failure)
  /\ UNCHANGED <<ctx, op, mode, at, tree, index, runs, service, owed, calls>>

(* env-down.sh ends.                                                       *)
DownEnds(exit) ==
  /\ pc = "down" /\ flying
  /\ Finished
  /\ service' = IF exit = "zero" THEN "down" ELSE service
  /\ LeaveDown(exit # "zero")
  /\ UNCHANGED <<ctx, op, mode, at, disk, owed, calls>>

(* The session is over and nothing happens any more.                       *)
Over ==
  /\ pc \in Ended
  /\ UNCHANGED vars

HookEnds ==
  \/ \E exit \in Exits : UpEnds(exit)
  \/ \E exit \in Exits : ResetEnds(exit)
  \/ \E exit \in Exits, writes, broken \in BOOLEAN : TestEnds(exit, writes, broken)
  \/ \E exit \in Exits : DownEnds(exit)

\* The steps of the session's own goroutine.
Own ==
  \/ OpenFails
  \/ OpenFindsHooks
  \/ \E ph \in Phases, t \in Trees : Worktree(ph, t)
  \/ \E ph \in Phases : Run(ph)
  \/ Close
  \/ LaunchUp \/ LaunchReset \/ LaunchTest \/ LaunchDown
  \/ NotLaunched

Next == Own \/ HookEnds \/ Cancel \/ Kill \/ Over

(* The goroutine is always scheduled, and its caller, whose calls are      *)
(* finite, closes the session through a defer. A hook left alone may run   *)
(* for ever: what ends it is --timeout, which always strikes in the end    *)
(* (verify and doctor set one), the kill that follows, and WaitDelay,      *)
(* which bounds the wait for a process that was killed.                    *)
Fairness ==
  /\ WF_vars(Own)
  /\ WF_vars(Cancel)
  /\ WF_vars(Kill)
  /\ WF_vars(killed /\ HookEnds)

Spec == Init /\ [][Next]_vars /\ Fairness

-----------------------------------------------------------------------------
(* Properties.                                                             *)

\* A test only ever starts on services that came up and were cleaned since the
\* test before it, in either mode, after failed calls as much as after good
\* ones: data one run left behind may not decide the next (beforeRun).
CleanStart ==
  [][pc = "test" /\ ~flying /\ flying' => service = "clean"]_vars

\* No call leaves services behind that nobody tried to stop: when the session
\* is over, or between two calls in fresh mode, every env-up.sh that was
\* launched has been followed by an env-down.sh, whatever was killed (up, down,
\* the defers of Run and Close).
AtRest == pc \in Ended \/ (pc = "ready" /\ mode = "fresh")
TeardownAttempted == AtRest => ~owed

\* Services that survive a teardown are never silent: some call has returned
\* an error by the time the session is over (Run keeps the teardown's error
\* where it has none of its own, Close returns it, Open joins it).
LeakReported == AtRest /\ service # "down" => told

\* The deadline never answers for test.sh. A process it killed ends with a
\* non-zero exit like any red suite; still no Run returns it as a result. A
\* killed base probe would otherwise be the red that red-green wants.
KilledNeverAnswers == ~answer.killed

\* A run reports what its own test.sh wrote or nothing, also when a phase is
\* laid out again and its run numbers, and so its file names, start over.
ResultsAreOwn == answer.cases \in {0, answer.run}

\* The session keeps the contract of Environment, its end included: a hook that
\* never ends of its own accord does not keep the session from ending, because
\* the deadline does, and teardownGrace for env-down.sh.
Contract == INSTANCE Environment WITH
  using <- pc = "test" /\ flying,
  over  <- pc \in Ended
KeepsContract == Contract!EnvSpec

=============================================================================
