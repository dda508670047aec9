# redfirst in TLA+

redfirst is a deterministic judge of a pull request for CI. It runs a fixed list
of gates over the diff between a merge base and a head. Some gates read the diff
only; others drive the project's own test suite through shell hooks the
repository keeps in `.redfirst/` on its base ref. The process answers with one of
six exit codes, and everything downstream (an agent's retry budget, a call for a
human) hangs on that code being right.

This directory models redfirst from the git output it reads to the code it
exits with: the environment session and its hooks, the probe that lays out trees
and runs tests in them, the gates and the walk over them, the config they go by,
and the commands around them.

## 1. Inventory

| Part | State it keeps | Operations | Talks to |
|---|---|---|---|
| `cmd/redfirst` verify | flags, the judgement (config, diff, capabilities), `env` | prepare, judge, deferred close, write the report, exit | everything below |
| `internal/runner` runner | `execution`: caps, first refusal, opened, probe | decide and step per gate, bringUp, Outcome | gates, `env.open`, probe |
| `internal/runner` probe | base and suite copies, five memos | Inventory, Overlaid, Head, Suite, Retry, BaseSuite | session, git |
| `internal/harness` session | mode, runs, closed; a run directory with working copies and results files; the services of the project | Open, Worktree, Run, Close | hook processes, git |
| `internal/gates/exec` | none | suite-green, red-green | probe |
| `internal/gates/tests`, `paths`, `blast` | none | test-immutability, new-test-present, no-disabled-tests, suppression-scan, protected-paths, diff-budget, blast-radius | diff; probe in mode `cases` |
| `internal/config` | none | Load from the base ref, validate, downgrade | git |
| `internal/domain` | none | gates, statuses, remediations, exit codes, diffs, case outcomes, patterns | - |
| `internal/gitx` | none | diff, patch, export, show file, history | git processes |
| `internal/audit` | the mode, the units and their categories | the static gates over past commits | runner, git |
| `internal/cliux` | the rows of a diagnosis, the files written so far | doctor, init, explain | git, session |
| `internal/report` | none | text and JSON | - |

One goroutine drives all of it. What is concurrent is the world around that
goroutine: hook processes that end as they like, and a context that a deadline
(`--timeout`) or a signal cancels at any moment. What makes the program hard is

- **failure in the middle**: an `env-up.sh` that dies half way, a kill that races
  the script's own exit, a teardown that fails after the verdict is known;
- **state that outlives a step**: services that hold the data of the run before,
  results files whose names repeat, a working copy another phase took over, a
  memo, a short-circuit armed by one gate and read by another;
- **order**: which tree a run of the tests reads, and which runs came before it;
- **moving ground**: a base branch that moves between two reads of it;
- **pairing**: four git commands that describe one diff and have to agree on which
  file is which, and lists that claim one file twice.

What makes each part correct:

- *session*: no test starts on services that hold earlier data; no services are
  left without an attempt to stop them, nor in silence; the exit of a killed
  process is no answer; a run reports its own results; the session ends, hooks
  that hang included.
- *probe*: each run reads the tree its question is about, with a filter that
  exists there; red-green's base before its head; one whole answer per question.
- *walk and gates*: the gates that drive the suite ask and answer as the walk takes
  them to, and no gate reports a status the walk does not know of it.
- *walk*: a gate is cut off exactly when one before it refused; the environment
  is brought up once and only for a diff nothing has refused.
- *verify*: a verdict only from a walk that ended; exit 0 is earned; a refusal
  outlives what fails later; every run exits.
- *executing gates*: a pass is a reproduction; a failure is excused only where it
  is shown to be none of the diff's; the blame falls where base was red.
- *diff reader*: a file carries its own added lines and no other file's.
- *static gates*: what a gate clears really stayed as its list demands, however git
  tells the story of the diff.
- *config*: whatever the file sets, the rules that carry the claim stay on, and one
  run goes by one commit's rules.
- *doctor, init, audit*: a diagnosis accuses the script of nothing it does not do; no
  advice ends in a refusal; a hook set is written whole or not at all; a window of
  history has the units it was asked for.

## 2. Modules

| Module | Models | Extends / instantiates |
|---|---|---|
| `Environment` | abstract: what a session promises about the services | - |
| `Harness` | `internal/harness`: session, hooks, working copies, results files | implements `Environment` |
| `GateProtocol` | what the walk takes a gate for: its statuses, its questions and when it may answer | - |
| `Runner` | `internal/runner`: the walk, its capabilities and its outcome | `GateProtocol` |
| `Verify` | `cmd/redfirst`: prepare, judge, teardown, report, exit code | `Runner` |
| `Probe` | `internal/runner/probe.go`: questions, copies, overlay, memo | - |
| `Judge` | a whole run: `Verify` with the executing gates asking one `Probe` | `Verify`, `Probe` |
| `Outcomes` | `internal/domain/probe.go`: what runs of `test.sh` say about cases | - |
| `RedGreen` | `internal/gates/exec`: the verdict of red-green | `Outcomes`, `GateProtocol` |
| `SuiteGreen` | `internal/gates/exec`: the verdict of suite-green | `Outcomes`, `GateProtocol` |
| `GitDiff` | `internal/gitx` diff and patch: four git commands and how their output is paired | - |
| `StaticGates` | `internal/gates/tests`, `paths`: every gate that judges the diff itself | `GitDiff`, `Outcomes`, `GateProtocol` |
| `Rules` | `internal/config` and the reads `verify` and `explain` make before the first gate | - |
| `Adoption` | `init`, and the part of `doctor` that says what is missing | `Rules` |
| `Doctor` | `doctor`: the diagnosis, and the probe of the harness | `Adoption` |
| `Audit` | `audit`: the walk over history, its units and the summary | `Rules` |
| `Commands` | one run of the binary, whichever command it is | `Doctor`, `Audit` |
| `HarnessProofs`, `ProbeProofs`, `JudgeProofs`, `OutcomesProofs`, `RedGreenProofs`, `SuiteGreenProofs`, `StaticGatesProofs`, `CommandsProofs` | theorems about the module they are named after; `JudgeProofs` also those about `Verify`, `StaticGatesProofs` those about `GitDiff` | that module |
| `MC...` | the instances TLC checks | one per component |

**Harness.** A call of the session (`op`) is a walk through control states (`pc`):
each hook is *due*, is *launched* (`Launch...`), and *ends* (`UpEnds`,
`TestEnds`, ...). Between launch and end the context may die (`Cancel`) and its
death may kill the process (`Kill`), which is where the deadline, the exit of the
script and the services race: a script may exit by itself under a dead context, and
a killed one shows the non-zero exit of a red suite (`Exits`). What the code makes of
an exit is `IsAnswer`, which sees the exit and the context and not the kill. A hook that
is due may never become a process (`NotLaunched`: dead context, no output file).
`LeaveTest` and `LeaveDown` are the code's defers: they decide where a call goes
when a hook is over and which of two errors it keeps. `service` is the external
world: `partial` after an `env-up.sh` or `env-down.sh` that did not finish,
`dirty` once a test has used it. `owed` and `told` are history: a teardown is
owed, an error was returned. `answer` carries with a run's result whether its process
was killed and which run wrote the file, which the code does not keep; the properties
are about them.

**Runner and Verify.** A report line is one of eight statuses; a failure that only
a human can answer (`human`) and a skip by the short-circuit (`cut`) are told
apart from the others. `at` is the position inside `execution.decide`: choosing,
opening the environment, waiting for the inventory, inside a gate. What a gate
finds is any status that gate can give; only gates that drive hooks can fail to
answer. `Verify` adds the stages of the command around the walk. Code 4 stands
for any error of redfirst itself, and `Prepare` for all reads of git and config.

**Probe.** A diff is a set of changes with git's status, both paths, and what is there
before and after: a file or a symbolic link. A tree says of each path whether nothing,
a file or a link is there and whose content it has. `Due`
picks the phase a call needs next, following `Before` (Overlaid asks Inventory,
Head asks Overlaid); a phase then reuses or lays out a copy (`Reuse`, `Lay`,
`LayFails`), overlays it file by file (`OverlayFile`, `todo` is what is left), and runs
as often as `Times` says. The order of the files is open, the code takes that of
the diff. `Removed` and `Written` are the two halves of the overlay of one file; the
second writes a plain file whatever head has, and through a link that is in the way.
`OverlayFails` stops before a file, between the halves, or in the middle of the second.
`last` and `ran` are history: what the latest run read, and how often each phase has run.

**GateProtocol and Judge.** `StatusesOf` is what a gate may report. `...Asks` and
`...Answers` say for each gate that drives the suite which question follows which and
which answer it can give by then. `Judge` takes the gates for that and leaves open
what a run of the tests reveals; that a pass of red-green needs a head run is the
gate's code. The modules of the gates show that they keep to it: `KeepsProtocol` of
`RedGreen` and `SuiteGreen`, and in `StaticGates` the type invariant, which asks of each
gate a status `StatusesOf` gives it. So what `Judge` checks of the whole run holds
for the gates as their own modules have them.

**Outcomes, RedGreen, SuiteGreen.** These open up what `Judge` leaves open. A run
is an exit code and a list of cases, each with a file, a name and an outcome;
file and name may be missing. One step of a gate is one question to the probe:
it takes any report for an answer, and the verdict operators, named after the
functions of `verdict.go` and `suite_green.go`, say whether the gate ends there.
`AskRetry` is the retry with the sorting that follows it. The order of lists
matters, because a lookup by name or by pair reads the first case that matches;
the properties are stated over sets of listings instead, so they do not repeat
the lookup.

**GitDiff.** The trees are given. `Pairings` leaves open which added file git takes
for a rename or a copy of which other, as long as the two ends are equal, are
both binary, or share a line. `RawDiff`, `Numstat` and the patch are what the commands
print of the same trees. The reader runs them one by one; each may fail
(`GitFails`), and where two of them disagree the reader gives up with an internal
error. The patch is read as it is printed: `PatchPrints` is the next file of it, in
path order, its header first and then its hunk, and `PatchEnds` hands the lines to
the files. `reader` is the state in between: how much git has printed, the file the
reader stands at, and the lines it has found for each. A file is a kind and a set of
lines, so that a type change, a binary file and an attribute that hides a patch are all
there; how a line ends is part of it, so that a link and a file have a line in common only
where the file ends in it without a newline. Line order and hunk headers are not there.

**StaticGates.** A gate is one operator over config and files, named after the
function that decides it, and one action asks one gate. The properties compare
the trees, not the diff the gate saw: `ProtectedStaysPut` says that a path kept its
content, whatever git called the change. What diff-budget counts (`Spent`) is a set of
units, a line at its place in a file, and `BudgetHolds` compares it with what the two
trees differ in: paths, added lines and deleted lines, without generated files and
tests as the merge base has them.

**Rules, Adoption, Doctor, Audit, Commands.** `at` is the next read or write of a
command, in the order of its function, and `BranchMoves` may put the base branch
one commit on between any two of them. `from` keeps which commit each thing was read
from. The config is a partial function from keys to values; joining, validating
and lowering are operators, one conjunct per row of the code's table (`unknown` stands
for an unknown key and an unknown gate or scope). A git that fails is exit 2 or, where its
output does not parse, 4. `Adoption` has the directory `.redfirst` as an entry of the work
tree beside the hook files, because `doctor` asks for the directory and `init` for the
files. `Doctor` gives the project's `test.sh` a truth (`suite.script`), of which the code
sees the runs and whether a line names `REDFIRST_PROBE_INDEX` (`mentions`), and compares
the diagnosis with it. `Audit` has the branch as a shape:
parents, whether the subject carries a number, the date. What a unit's gates
raise is open there, since `StaticGates` has them.

Operators whose name ends in `_bug` are not part of the model. Each is a
plausible mistake in the operator below it, which the property named in
`PROJECT.json` must catch when it takes that operator's place.

## 3. Runs

| Run | Checks | Distinct states |
|---|---|---|
| `harness` | types, `TeardownAttempted`, `LeakReported`, `KilledNeverAnswers`, `ResultsAreOwn`, `CleanStart`, `KeepsContract` (refinement of `Environment`, its end included) | 51,138 |
| `judge` | `RunsAsVerify` (refinement of `Verify`), `NoVerdictWithoutAnswers`, `AcquittalIsEarned`, `RefusalOutlivesTeardown`, `CutIffRefused`, `ImmutabilityJudges`, `LazyEnvironment`, `PassRestsOnBothProbes`, `BaseSuiteIsLast`, `JudgementEnds` | 513,264 |
| `probe` | `ReadsItsTree`, `SharedAnswers`, `BaseBeforeHead` | 107,048 |
| `red_green` | `PassIsReproduction`, `BuildFailureProvesNoCase`, `KeepsProtocol` | 41,414 |
| `suite_green` | `PassIsExcused`, `AgentAnswersForNoOther`, `BlameIsProven`, `KeepsProtocol` | 346,652 |
| `static_gates` | types, `LinesAreOwn`, `ProtectedStaysPut`, `InsuranceStays`, `TestLinesAreJudged`, `BudgetHolds` | 627,512 |
| `commands` | types, `RulesAreSound`, `AdviceIsTaken`, `HookSetIsWhole`, `DiagnosisIsHonest`, `UnitsAreWhole` | 1,918,267 |
| `overlay_leak` | `NothingElseTravels`, which the code violates | |
| `shared_name` | `SharedNamesAreRefused`, which the code violates | |
| `type_change` | `EveryDiffIsRead`, which the code violates | |
| `softer_list` | `RemovalAnswersToAll`, which the code violates | |
| `moving_ref` | `OneRuleSet`, which the code violates | |

The types of `Verify` and of `Probe` are proved (`RunTyped`, `ProbeTyped`) and so no
longer among what a run checks.

Bounds and why they are enough:

- `harness`: two phases, two trees, four calls (`MaxCalls`). Four calls lay out a
  phase, run it, lay it out again and run it again, which is the shortest way to
  a repeated results file; in reused mode they reach the second run and its
  reset; two phases tell the session's run count from a phase's.
- `judge`: a registry with one gate of each kind, in the order of the code: a static
  one, test-immutability in either mode, the two that drive the suite, the stub.
  Configurations select or leave out any one and lower any that may be lowered. A
  test modified, added or deleted beside a fix; two runs per probe, so that a
  probe can stop in the middle; one rerun, so that it can follow the suite on base.
- `probe`: two test files and a source file, sixteen diffs that together use every
  status inside the surface (A, M, D, R, C, T), for files and for links: added, edited,
  renamed, deleted, turned into a file or made from one. A link of base leads to a
  source file the diff fixes, to another test, or out of the repository. Three runs per
  probe; two reruns (`RetryFailed`) and up to two retries (`MaxRetries`). The gates ask
  in any order, which is more than the code's gates do. No diff of the instance has a
  rename across the border of the surface (`NothingCrosses`): `overlay_leak` is about
  those. Not in the model: links the diff leaves alone, links to links or to directories
  (`ShortLinks`), and submodules.
- `red_green`: two runs per probe, so that runs can disagree; lists of up to two
  cases over one old and one new name, the new one in either of two files, each pair
  of file and name at most once. Two listings are enough for a name to be shared, or to
  be in one run only.
- `suite_green`: lists of up to two out of one name in two files, a case without
  a name and one without a file, each at most once; two reruns. Any set of files
  in the diff; `known_flaky` empty, a name, or a file.
- `static_gates`: three paths (a source file, a test, a fixture that is also a
  test), two lines, one of which is a disabling line and a suppression. Each path is
  absent, a file of one line or of two, a link or binary. The test changes together
  with any one other path in every way, and any one file becomes several. Seven
  configs pair every mode of one list with an equal, a softer and a harder one of
  the other. Two paths are enough for a rename, a copy, and a patch out of step by
  one file; the third lets a list differ at both ends.
- `commands`: a branch of six commits, with each kind of config (weak but sound,
  sound with a lowered gate, clashing with a default, none, lowering a gate that
  may not be, one that cannot be fetched), hooks that change and disappear, and
  every shape of commit (a root, a plain one, numbered ones, a merge, an octopus,
  dates out of order). The branch may move between any two reads. Work trees with
  no file, an empty `.redfirst`, and some of the files; markers of no stack, one and two;
  scripts that read the filter as a file, a directory or not at all, and that name the
  probe index or do not, over suites of one directory and of several, with or without
  names and files in the results.

The deadlock check is on in every run but `commands` and `moving_ref`, whose
processes exit and then do nothing. In the others the ended states stutter
explicitly.

**Fairness.** Only the two specifications with a liveness property have any. `Harness`
has four conditions. The goroutine's own steps are weakly fair, `Close` among them,
because the caller's calls are finite and the close is deferred. A hook is under no
fairness: left alone it may hang for ever. The deadline strikes in the end (`Cancel`):
`verify` and `doctor` run under `context.WithTimeout` always, thirty minutes unless
`--timeout` says otherwise (`verify.go:42`, `doctor.go:36`). A dead context kills the
process (`Kill`: `exec.CommandContext`, and `teardownGrace` for `env-down.sh`, whose context
no deadline reaches). And a killed process ends, or `WaitDelay` ends the wait for it. Take the
kill of `env-down.sh` away (`Kill_bug`) and the session of `KeepsContract` has no end. `Judge`
takes a whole run of a hook for one step, and its fairness says that a run once
started goes on to its exit; `Harness` is what justifies it.

**Disagreements between code and documents.**

1. `overlay_leak`. "Nothing else travels" and "moved out of the surface, is not on
   head" (`probe.go:265-274`): a test renamed to a path outside the surface is on
   head for `HeadPath`, so its head version lands on the base copy.
2. `shared_name`. "Unique across the files one probe runs", "red-green refuses that
   outright" (`docs/HOOKS.md:105`). Only the base runs are asked. In the run both base
   runs list the case of one file, failed; the other file does not build there and its
   case of the same name appears on head alone. Both head runs list the first file's
   case as passed and then the second's as failed. A lookup by name reads the first
   listing, and red-green passes with a new case that fails in each run.
3. `type_change`. A type change "prints twice" in the patch (`patch.go:84`), and the
   reader pairs both halves with the one record. `--numstat` counts by content
   alone: where the file is binary, as in the run, the counts differ from the patch,
   and an ordinary diff ends with code 4, which is for bugs of redfirst
   (`errors.go:15`). So they do where a text file ends in the link's target without a
   newline, the one line it can share with a link. It refuses too much and acquits
   nothing.
4. `softer_list`. "A removal answers to all of them" (`test_immutability.go:175`),
   "a file that disappears answers to both lists" (`docs/CONFIG.md:186`). When the
   first list that claims a file is in mode `cases`, the loop goes on before the other
   is asked. In the run a snapshot of both lists is renamed to a source path, which the
   code counts as a removal (`left`), and the strict list is not heard; a deletion goes
   the same way.
5. `moving_ref`. "A branch that moved mid-run would hand two phases two rule sets"
   (`verify.go:216`) is the reason the session gets a resolved commit. Config, diff,
   presence of the hooks and the key of the base probe are still read by name, one
   after another.

Seen while modelling, and without a run of their own:

- The specification (`docs/redfirst-spec.md:527`) and `docs/HOOKS.md:240` promise
  base first, then head, always. The registry asks suite-green before red-green, so
  the suite runs on head before the overlaid base probe. `BaseBeforeHead` holds
  between the phases that are named base and head.
- A results file may list one file and name twice, and a lookup reads the first
  listing. The instances and the blame theorems keep to reports that list a pair
  once (`ListsOnce`).
- The overlay of a symbolic link is not the head version "whole"
  (`docs/redfirst-spec.md:672`). `write` opens the path and copies the blob
  (`probe.go:290-322`): a link of head lands as a plain file that holds its target, and
  what replaces a link of base is written to the file the link leads to, which may lie
  outside the test surface. `ReadsItsTree` excepts those paths by name (`Linked`), and
  nothing else: links that were renamed or deleted are removed as they should be.
- `doctor` takes an empty directory `.redfirst` for hooks in the work tree and says to
  commit it, which git cannot do (`doctor.go:120`, `detect.go:186`). `AdviceIsTaken` says
  of the hooks no more than that the directory is there.
- `doctor` tells a script that stages its first run without naming
  `REDFIRST_PROBE_INDEX` in `test.sh` itself (through a helper, by the presence of a
  directory) that it "does the same work in both" (`probe.go:225`, `252-276`).
  `DiagnosisIsHonest` promises the gap between the two runs, and not its cause.
- A report that cannot be written turns the code of a refusal into 4 (`verify.go:60`).
  `RefusalOutlivesTeardown` leaves that code open.
- A write of `init` that fails half way leaves half a hook set. `HookSetIsWhole` sets it
  apart (`spoiled`).
- A teardown that fails replaces the error of the run, so an internal error (4)
  leaves as a harness failure (2) (`verify.go:175`).
- A suite copy whose second layout failed is gone while the probe still describes
  it (`probe.go:230`). Nothing reads it then, since the walk ends with the error.
- `audit` sees two sides of an octopus merge, not the third; `--since` stops at the
  first older commit, and dates need not be in order; a subject with two numbers
  answers with the first.
- `doctor` calls a filter ignored when the results carry neither names nor files to
  tell by. `DiagnosisIsHonest` excuses that (`Alike`).
- `init --ci` refuses in every build of this commit, because the version and the
  hash to pin are empty. `Released` is the parameter for it, and the instance sets it
  so that the path is checked.

## 4. Proofs

TLAPS proves, for every value of the constants the assumptions admit:

| Module | Theorem | States |
|---|---|---|
| `HarnessProofs` | `SessionTyped`, `TeardownAlwaysAttempted`, `LeaksAreReported`, `RunsReadTheirOwnResults`, `DeadlineNeverAnswers`, `TestsStartClean` | the safety properties of the run `harness` |
| | `SessionKeepsContract` | every step of `Harness` is a step of `Environment` or a stutter |
| `ProbeProofs` | `ProbeTyped`, `AnswersAreShared`, `BaseComesFirst` | of `Probe`, for any diffs and any questions in any order |
| | `RunsReadTheirTree` | `ReadsItsTree`, for any diffs of files and links git can list whose renames stay in or out of the surface |
| `JudgeProofs` | `RunTyped`, `VerdictsHaveAnswers`, `AcquittalsAreEarned`, `RefusalsOutliveTeardown`, `CutsFollowRefusals`, `ImmutabilityAlwaysJudges`, `EnvironmentIsLazy` | the properties of `Verify`, for any registry and any configs |
| | `JudgementsAreRuns` | `Judge` implements `Verify` |
| | `JudgementsAreSound` | what is proved of `Verify` therefore holds of `Judge` |
| | `PassesRestOnBothProbes`, `BaseSuiteComesLast` | the two properties of the composition |
| | `GatesReadTheirTree` | `ReadsItsTree` of the probe under the gates |
| `RedGreenProofs` | `PassesReproduce`, `BuildFailuresProveNoCase` | for any reports, of any length |
| | `RedGreenKeepsProtocol` | red-green is the gate `Judge` takes it for |
| `SuiteGreenProofs` | `PassesAreExcused` | for any reports |
| | `AgentsAnswerForNoOther`, `BlamesAreProven` | for reports that list no file and name twice |
| | `SuiteGreenKeepsProtocol` | suite-green is the gate `Judge` takes it for |
| `StaticGatesProofs` | `ReadLinesAreOwn` | `LinesAreOwn`: for any two trees, any renames and copies, any number of files |
| | `AnswersAreTyped` | types; each gate reports a status the walk expects of it |
| | `ProtectedPathsHold`, `TestLinesHold`, `BudgetIsKept`, `InsuranceHolds` | what protected-paths, no-disabled-tests and new-test-present, diff-budget and test-immutability clear, for any trees, pairing and config |
| `CommandsProofs` | `CommandsAreTyped` | the types of all the commands |
| | `RulesStaySound` | `RulesAreSound`, for any branch and any config files on it |
| | `HookSetsAreWhole` | `HookSetIsWhole`, for any work tree and any order to init |
| | `AdviceHolds` | `AdviceIsTaken`, for any markers and work tree |
| | `DiagnosesAreHonest` | `DiagnosisIsHonest`, for any suite and script |
| | `UnitsStayWhole` | `UnitsAreWhole`, for any first-parent history and flags |

Every safety property a passing run checks is therefore proved.

`OutcomesProofs` holds the lemmas about lookups that `RedGreenProofs` and
`SuiteGreenProofs` rest on: a lookup
answers with the outcome of the first case that matches, and with "absent" only
where none does. That a first one exists is well-foundedness of `<`.

*Assumptions.* Each is named in the module that declares the constants:
`HarnessAssumption` (`NoTree` is no tree, `MaxCalls` a natural number),
`RegistryAssumption` (a sequence of known gates, repeats allowed),
`ConfigsAssumption` (suite-green and red-green cannot be lowered, which
`config.validate` enforces and `RulesAreSound` checks), `ProbeAssumption` (diffs are sets
of changes, at least one run per probe), `DiffsAssumption` (each diff is one git can
list: one change at a path; an addition, a rename or a copy arrives where base has no
file, a rename leaves a path head does not have; and no link of base leads to another,
`ShortLinks`), `JudgeAssumption` (those, and
one retry at least), `RedGreenAssumption` and `SuiteGreenAssumption` (reports are
reports), `GitDiffAssumption` (paths are listed once, lines are finitely many, trees and
attributes are of their kind), `StaticGatesAssumption` (configs and runs are of
theirs), `RulesAssumption`, `AdoptionAssumption`, `DoctorAssumption`,
`AuditAssumption` and `CommandsAssumption` (commits are finitely many and numbered from
one, a config file sets known keys to values of their kind, a work tree with a hook file
has the directory `.redfirst`, and flags, trees and orders are of their kind).

Two hypotheses stand in theorems and not in a module, because the code does not see to
them. `AgentsAnswerForNoOther` and `BlamesAreProven` assume that no
report lists a file and name twice: a lookup reads the first of two listings, so
that a red one behind a green one is not seen. `RunsReadTheirTree` and
`GatesReadTheirTree` assume `StaysInSurface`, that no rename crosses the border of the
test surface: `overlay_leak` shows what happens otherwise.

*Harness.* None of the properties is inductive by itself: that a test starts
clean depends on which mode a call is in, on whether the session has run
anything yet, and on where a failed call leaves the services; that no answer is a killed
process's, on the context being dead wherever one was killed that is not `env-down.sh`
(`OwnExit`). `IInv` says so in
named parts: `Counting` (each call counts one run, so file names stay in range),
`Control` (which call and mode each control state belongs to), `Owing` (where a
teardown is owed), `Clean` (where the services are clean) and `OwnFile` (the
results file was removed before the test in flight started). One lemma per part
shows the step, one case per action. The refinement uses the same invariant: a
start is only ever made where nothing is owed.

*Verify.* `WalkInv` is about the walk alone: the lines written are those behind
`pos` (`Written`), the short-circuit stands for a refusal among them and the other
way round (`Armed`), a gate with hooks is asked only while nothing refused
(`Unrefused`), and no line says that names are missing while the inventory that
settles them is under way (`NamesPending`). `Staged` is about the command around it:
what each stage may hold in `err`, `leaked` and `code`. Each step changes one of the
two, so that the proof of a step is two short ones.

*Probe.* `Phase` says where the one call in progress stands, `Counts` how often
each phase ran while and after it was asked, and `Chained` that what a question
waits for was answered. `BaseComesFirst` needs the last two: once head has
run, the base phases are settled, and a settled phase runs no more. For
`RunsReadTheirTree`, `CopiesHold` says what each copy holds while something may read it: the
base copy is the merge base until the overlaid probe takes it, and the merge base under
the test files of head while that probe runs. `OverlaySoFar` is that for the files laid
over so far, in any order: the paths they touch hold what head has, those still in `todo` what
base has, but for the paths of `Linked`, and `ShortLinks` keeps a write through a link from
reaching further. `BaseInOrder` and `StopsAsking` are what it rests on: the
inventory is settled before the overlay is begun, and once a phase has failed nobody
asks again, which matters because a copy may be left half overlaid.

*Judge.* The refinement needs of `Verify` only that a gate is at work in stage
judge, and that each of a gate's answers is a status. Where a pass rests on both
probes, the walk's invariant and the probe's are joined by `Asking` (a question in
progress is the latest, and belongs to the gate at work) and `Answered` (a question
that returned without an error has its answer in the memo). `LastWord` is the
invariant behind `BaseSuiteComesLast`: once base was asked for its suite, either
suite-green is at work and has no question left, or something refused or gave up,
and no gate with hooks follows.

*RedGreen, SuiteGreen.* `Settled` keeps what each question so far decided; the rest
is one lemma per way to a verdict. `KeepsProtocol` is an action property over the same
invariant: each step asks what may be asked next or answers what may be answered by
then. Stating it for all gates showed that the walk had left out the skip of
new-test-present where the config demands no test (`new_test_present.go:46`);
`StatusesOf` has it.

*GitDiff.* `DiffInv` describes the files after each of the four commands: `FilesMatch`
(each record of the raw diff is a changed path of the trees with its status and old
path, once and in order), `CountsMatch` and `MarksMatch` (what `--numstat` and the
attributes add to it is of that path), `PatchMatches` (the reader stands at the file the
patch has come to, and each file behind it has the lines the trees give it),
`LinesMatch` (so it stays once the patch is read) and `GivenUp` (an internal error means
one of the type changes of `type_change`). `PatchMatches` is the hard one: it needs that
path order is one order for all the commands, and that no two records have the same two
paths.

*StaticGates.* `GateInv` adds the answer, `Promises` says for each gate what a clear answer
says of the trees, as a function of the trees, the pairing and the config alone, which
no step changes after the diff was read. The budget is a comparison of cardinalities:
`LinesInject` embeds the lines two trees differ in into the units the gate counted, so
no arithmetic over sums is needed. `InsuranceHolds` rests on `ChangeIsListed` (a path
whose content differs is the new or the old path of a file of the diff) and on
`OneRename` (git takes a deleted path for the source of at most one rename).

*Commands.* `RulesInv` holds what validation asks of a config (`Sound`) beside what
a command has read when it gets to a step (`Reached`): behind the diff its commit,
behind the hooks a mode that can be judged without them. What `init`, `doctor` and
`audit` do besides is one lemma, `Elsewhere`: they leave the rules alone, exit with
0 or 4, or lower mode `cases`. `HookInv` says that what `init` still has to write is
of one preset that was free when it was checked, so that its second look at a path
never refuses half way. `AdviceHolds` rests on `AdoptionTyped`: a hook file in the work
tree brings the directory with it, also where a write failed, so that where doctor sends
somebody to `init --hooks` no path is taken. `Stations` says which steps belong to which command, so that an
invariant about one command holds by default under the steps of the others. For
`DiagnosesAreHonest`, `Probing` ties each run of the probe to the truth about the script
and the copy it ran in, and `Honest` ties each row to the runs before it. For
`UnitsStayWhole`, `Waiting` and `Walking` say that the commits judged are the newest so many
of the window; that a window has as many commits as it may and that they are the
newest (`WindowIsCapped`, `WindowIsYoung`) is a fact about ranks in a finite set of
commits, `Ranked`, and needs no recursion along the parents.

*Left to TLC.* Liveness (`JudgementEnds`, the liveness conjunct of `KeepsContract`),
which the prover cannot do, and the violation runs, which are counterexamples.

## 5. What is not modelled

- Text: the grammars of git's output, JUnit, TAP and TOML, glob and regex matching.
  The models keep the outcomes (parsed, missing, broken; the set a list matches)
  and not the grammars.
- `internal/report` and the rows of `explain` and of `audit`: formatting of what is
  modelled. Writing a report is a step that may fail.
- The contents of the files `init` writes: shell scripts and a workflow, which are
  not executed by redfirst before they are on base.
- Digests: hashes of fields that no part of the program reads back.
- `internal/testkit`: used by tests only.
- Time. A deadline is an event that may strike at any moment; how long it is
  plays no part. The dates of `Audit` are ordinals.
- A plain file where the directory `.redfirst` belongs.
- Panics. Go runs the same defers on a panic as on an error return.
- Two processes at once: every run has a directory of its own.

## 6. Plan

1. Done: `Environment`, `Harness`, `Runner`, `Verify`, `Probe`, `Judge`, and that
   `Judge` implements `Verify`.
2. Done: `Outcomes`, `RedGreen`, `SuiteGreen`; `GitDiff` and `StaticGates`; `Rules`,
   `Adoption`, `Doctor`, `Audit` and `Commands`.
3. Done: proofs of `Harness`, `Verify`, `Probe`, `Judge`, `RedGreen`, `SuiteGreen`,
   `StaticGates` with its diff, and `Commands`: every safety property of the passing runs.
4. Done: red-green and suite-green, as opened up in their own modules, ask and answer
   what `Judge` lets them (`KeepsProtocol`); the gates of `StaticGates` answer what `Runner`
   lets them.
5. Open: `Judge` with the two gates replaced by their modules, so that a verdict and the
   cases under it are one behaviour. The protocol makes it a refinement of today's.
6. Open: results files as sequences of suites, if a property about the merge of
   several files earns it.
