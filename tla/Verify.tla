------------------------------- MODULE Verify -------------------------------
(***************************************************************************)
(* One run of redfirst verify (cmd/redfirst): the rules and the diff are   *)
(* settled, the runner walks the gates, the environment is torn down, the  *)
(* report is written, and the process exits with one of six codes:         *)
(* 0 pass, 1 refused, 2 broken harness or repository, 3 invalid config,    *)
(* 4 internal error, 5 refused and only a human can help.                  *)
(***************************************************************************)
EXTENDS Runner

CONSTANTS
  Configs     \* the configurations of interest: [only, disabled, lowered]

\* A config that lowers suite-green or red-green is invalid (checkSeverity).
ASSUME ConfigsAssumption ==
  Configs \subseteq [only : SUBSET GateIDs, disabled : SUBSET GateIDs,
                     lowered : SUBSET (GateIDs \ Executing)]

VARIABLES
  stage,      \* "prepare", "judge", "teardown", "report" or "exited"
  session,    \* "none", "open" or "closed": env.session
  err,        \* the code of the error judge returns, 0 for none
  leaked,     \* the report carries the warning of a failed teardown
  code        \* what the process exits with, -1 before it does

vars == <<options, walk, stage, session, err, leaked, code>>

ExitCodes == 0..5

TypeOK ==
  /\ RunnerTypeOK
  /\ stage \in {"prepare", "judge", "teardown", "report", "exited"}
  /\ session \in {"none", "open", "closed"}
  /\ err \in ExitCodes
  /\ leaked \in BOOLEAN
  /\ code \in ExitCodes \union {-1}

Init ==
  /\ only = {} /\ disabled = {} /\ lowered = {} /\ cases = FALSE
  /\ Unstarted
  /\ stage = "prepare" /\ session = "none"
  /\ err = 0 /\ leaked = FALSE /\ code = -1

-----------------------------------------------------------------------------
\* Keeps the mode a run without hooks cannot judge.
CasesMode_bug(wanted, hooks) == wanted

\* downgradeWarnings: without hooks mode cases becomes append-only.
CasesMode(wanted, hooks) == wanted /\ hooks

(* prepare, parseGateIDs and baseProbeKey: a flag, a config, a ref or git  *)
(* itself can be what is wrong, and nothing was opened by then.            *)
PrepareFails(failure) ==
  /\ stage = "prepare"
  /\ failure \in {2, 3, 4}
  /\ stage' = "exited" /\ code' = failure
  /\ UNCHANGED <<options, walk, session, err, leaked>>

Prepare ==
  /\ stage = "prepare"
  /\ \E c \in Configs :
       only' = c.only /\ disabled' = c.disabled /\ lowered' = c.lowered
  /\ \E wantsCases, hooks, testFiles \in BOOLEAN :
       cases' = CasesMode(wantsCases, hooks) /\ Start(hooks, testFiles)
  /\ stage' = "judge"
  /\ UNCHANGED <<session, err, leaked, code>>

\* The runner's own steps. The session exists once it opened; one that fails
\* to open has torn itself down.
Judge ==
  /\ stage = "judge" /\ at \notin {"done", "aborted"}
  /\ WalkStep
  /\ session' = IF at = "open" /\ at' = "inventory" THEN "open" ELSE session
  /\ UNCHANGED <<stage, err, leaked, code>>

(* runner.Run is over. An aborted one leaves judge with the error of the   *)
(* step that did not finish: the harness, or a bug of redfirst.            *)
RunnerReturns(failure) ==
  /\ stage = "judge" /\ at \in {"done", "aborted"}
  /\ failure \in IF at = "aborted" THEN {2, 4} ELSE {0}
  /\ err' = failure
  /\ stage' = "teardown"
  /\ UNCHANGED <<options, walk, session, leaked, code>>

\* The gates reached a verdict of their own.
Refused == at = "done" /\ Outcome(results) # 0

\* A teardown that fails takes the verdict with it.
TeardownFails_bug ==
  /\ stage = "teardown" /\ session = "open"
  /\ session' = "closed" /\ stage' = "report"
  /\ err' = 2 /\ UNCHANGED leaked
  /\ UNCHANGED <<options, walk, code>>

(* The deferred close of judge, where env-down.sh or the removal of the    *)
(* run directory fails. A refusal keeps its code and gains a warning.      *)
TeardownFails ==
  /\ stage = "teardown" /\ session = "open"
  /\ session' = "closed" /\ stage' = "report"
  /\ IF err # 0 \/ ~Refused
       THEN err' = 2 /\ UNCHANGED leaked
       ELSE leaked' = TRUE /\ UNCHANGED err
  /\ UNCHANGED <<options, walk, code>>

TeardownSucceeds ==
  /\ stage = "teardown"
  /\ session' = IF session = "open" THEN "closed" ELSE session
  /\ stage' = "report"
  /\ UNCHANGED <<options, walk, err, leaked, code>>

\* Prints the verdict of the gates it has, error or no error.
Exit_bug(written) ==
  /\ stage = "report"
  /\ stage' = "exited"
  /\ code' = IF ~written THEN 4 ELSE Outcome(results)
  /\ UNCHANGED <<options, walk, session, err, leaked>>

(* verify: an error of judge is the exit code and leaves no report. A      *)
(* verdict exits with its code, unless its report could not be written.    *)
Exit(written) ==
  /\ stage = "report"
  /\ stage' = "exited"
  /\ code' = IF err # 0 THEN err ELSE IF ~written THEN 4 ELSE Outcome(results)
  /\ UNCHANGED <<options, walk, session, err, leaked>>

Exited == stage = "exited" /\ UNCHANGED vars

\* What the command does around the walk.
Around ==
  \/ \E failure \in ExitCodes : PrepareFails(failure)
  \/ Prepare
  \/ \E failure \in ExitCodes : RunnerReturns(failure)
  \/ TeardownFails \/ TeardownSucceeds
  \/ \E written \in BOOLEAN : Exit(written)

Step == Around \/ Judge

Next == Step \/ Exited

\* What a run may do, whatever its gates ask and answer. Judge says what they do,
\* and that a run ends.
Spec == Init /\ [][Next]_vars

-----------------------------------------------------------------------------
(* Properties.                                                             *)

\* A code that says something about the diff (0, 1 or 5) is only ever the code
\* of a walk that ended: every gate has its line, and no gate, no inventory
\* and no environment gave up on the way. A broken harness is no acquittal.
NoVerdictWithoutAnswers ==
  code \in {0, 1, 5} => at = "done" /\ \A i \in Slots : results[i] # "none"

\* Exit code 0 is earned: no line refuses, no gate was cut off before it could,
\* and the environment that judged the diff came down without an error.
AcquittalIsEarned ==
  code = 0 =>
    /\ err = 0 /\ ~leaked /\ session # "open"
    /\ \A i \in Slots : results[i] \notin Refusals \union {"cut"}

\* A refusal outlives everything that happens after the gates: a teardown that
\* fails neither softens it into a harness failure nor hides that a human is
\* needed. Only a report that could not be written replaces its code.
RefusalOutlivesTeardown ==
  code # -1 /\ at = "done" /\ (\E i \in Slots : results[i] \in Refusals) =>
    code \in {4, IF \E i \in Slots : results[i] = "human" THEN 5 ELSE 1}

\* The environment, which costs minutes, is never brought up for a diff some
\* gate already refused with effect. A lowered refusal is not one of those.
LazyEnvironment ==
  [][~opened /\ opened' => \A i \in Slots : results[i] \notin Refusals]_vars

\* A gate that could have used the hooks is cut off exactly when a gate before
\* it refused: never cut off by a mere warning, never run on a refused diff.
CutIffRefused ==
  \A j \in Slots :
    /\ results[j] # "none" /\ Hooked(Registry[j])
    /\ Selected(Registry[j]) /\ Registry[j] \notin disabled
    => (results[j] = "cut" <=> \E i \in 1..(j - 1) : results[i] \in Refusals)

\* No configuration switches test-immutability off by asking for a mode the run
\* cannot judge: without hooks it falls back to reading lines, and with hooks
\* it is unavailable only after an inventory that named no case.
ImmutabilityJudges ==
  \A i \in Slots :
    Registry[i] = "test-immutability" /\ results[i] = "unavailable" =>
      opened /\ "case-names" \notin caps

=============================================================================
