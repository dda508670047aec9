----------------------------- MODULE SuiteGreen -----------------------------
(***************************************************************************)
(* The verdict of suite-green (internal/gates/exec): the suite runs on     *)
(* head once, and if it is red the gate finds out whose red it is, the     *)
(* diff's or the repository's. It reruns the files that failed, and asks   *)
(* for the suite on base where nothing the diff wrote failed and a failure *)
(* survived the retry.                                                     *)
(***************************************************************************)
EXTENDS Outcomes, GateProtocol

CONSTANTS
  RetryFailed,   \* suite.retry_failed
  KnownFlaky,    \* the lists tests.known_flaky may hold: of names and files
  Runs,          \* what a run of the suite may report
  Reruns         \* what a run of the files that failed may report

ASSUME SuiteGreenAssumption ==
  /\ RetryFailed \in Nat
  /\ KnownFlaky \subseteq SUBSET (Files \union CaseNames)
  /\ Runs \subseteq Reports /\ Reruns \subseteq Reports

VARIABLES
  diff,        \* the files the diff wrote, under their old paths too
  knownFlaky,  \* tests.known_flaky of the base ref
  suite,       \* the suite's run on head
  retried,     \* the runs of the retry
  base,        \* the suite's run on base, if it was asked for
  at,          \* the question the gate asks next, "done" after the verdict
  verdict      \* "pass", "fail", "harness" for exit code 2, or "none"

vars == <<diff, knownFlaky, suite, retried, base, at, verdict>>

Init ==
  /\ diff \in SUBSET Files /\ knownFlaky \in KnownFlaky
  /\ suite = <<>> /\ retried = <<>> /\ base = <<>>
  /\ at = "suite" /\ verdict = "none"

-----------------------------------------------------------------------------
\* Takes a case without a file for one the diff did not write.
Touched_bug(c) == c.file \in diff

\* A case of no file counts as the diff's.
Touched(c) == c.file \in diff \union {Unknown}

Exempt(c) == {c.name, c.file} \intersect knownFlaky # {}

\* failures and judged. Two cases are one if file and name agree, which they
\* do where a set is taken of failed cases.
Lost(runs) == UNION {Failed(runs[i]) : i \in DOMAIN runs}
Judged(runs) == {c \in Lost(runs) : ~Exempt(c)}

\* Looks a case up by its name alone.
GreenOnRetry_bug(runs, c) ==
  runs # <<>> /\ IF c.name # Unknown THEN AllAre(OutcomesNamed(runs, c.name), "pass")
                 ELSE \A d \in Lost(runs) : d.file # c.file

\* greenOnRetry: a case without a name goes by what its file lost.
GreenOnRetry(runs, c) ==
  runs # <<>> /\ IF c.name # Unknown THEN AllAre(OutcomesOf(runs, c.file, c.name), "pass")
                 ELSE \A d \in Lost(runs) : d.file # c.file

Blocking(runs) == {c \in Judged(runs) : Touched(c)}
Inherited(runs, reruns) ==
  {c \in Judged(runs) : ~Touched(c) /\ ~GreenOnRetry(reruns, c)}

\* A base suite that is red and names no case is broken outright.
Broken(runs) == ~AllGreen(runs) /\ Names(runs) = {}

\* Takes any red base suite for a repository that was broken before.
RepositoryBroken_bug(runs) == ~AllGreen(runs)

\* blameTheRepository: was any of the inherited failures red on base already?
RepositoryBroken(runs) ==
  \E c \in Inherited(suite, retried) :
    Broken(runs) \/ AnyIs(OutcomesOf(runs, c.file, c.name), "fail")

\* clean: nothing the gate judges failed.
Clean(runs) == IF AllGreen(runs) \/ Lost(runs) # {} THEN "pass" ELSE "fail"

-----------------------------------------------------------------------------
(* The questions to the probe, each with what follows from its answer.     *)

Conclude(reason) == at' = "done" /\ verdict' = reason
GoOn(next) == at' = next /\ UNCHANGED verdict

\* Saves the retry where the diff wrote none of what failed.
AskSuite_bug ==
  /\ at = "suite"
  /\ suite' \in {<<r>> : r \in Runs}
  /\ IF Judged(suite') = {} THEN Conclude(Clean(suite'))
     ELSE GoOn(IF Blocking(suite') # {} THEN "retry" ELSE "base")
  /\ UNCHANGED <<diff, knownFlaky, retried, base>>

AskSuite ==
  /\ at = "suite"
  /\ suite' \in {<<r>> : r \in Runs}
  /\ IF Judged(suite') = {} THEN Conclude(Clean(suite')) ELSE GoOn("retry")
  /\ UNCHANGED <<diff, knownFlaky, retried, base>>

(* Probe.Retry: no run where the failures name no file or the config asks  *)
(* for none.                                                               *)
AskRetry ==
  /\ at = "retry"
  /\ retried' \in IF RetryFailed = 0 \/ {c.file : c \in Judged(suite)} = {Unknown}
                    THEN {<<>>} ELSE [1..RetryFailed -> Reruns]
  /\ IF Blocking(suite) # {} THEN Conclude("fail")
     ELSE IF Inherited(suite, retried') # {} THEN GoOn("base") ELSE Conclude("pass")
  /\ UNCHANGED <<diff, knownFlaky, suite, base>>

AskBaseSuite ==
  /\ at = "base"
  /\ base' \in {<<r>> : r \in Runs}
  /\ Conclude(IF RepositoryBroken(base') THEN "harness" ELSE "fail")
  /\ UNCHANGED <<diff, knownFlaky, suite, retried>>

Done == at = "done" /\ UNCHANGED vars

Next == AskSuite \/ AskRetry \/ AskBaseSuite \/ Done

Spec == Init /\ [][Next]_vars

-----------------------------------------------------------------------------
(* Properties.                                                             *)

\* The question of the probe's the gate stands before.
Question == IF at = "base" THEN "baseSuite" ELSE at

\* An answer, or the next question, in its turn.
InTurn ==
  IF at' # "done" THEN Question' \in SuiteGreenAsks(Question)
  ELSE verdict' \in SuiteGreenAnswers(Question)
         \union IF Question = "baseSuite" THEN {"harness"} ELSE {}

\* The gate is the one Judge takes it for, whatever the runs report: the suite on base
\* comes after a retry, no pass comes after the suite on base, and the repository is
\* blamed after nothing else.
KeepsProtocol == Question \in SuiteGreenAsks("none") /\ [][InTurn]_vars

\* The outcomes a run lists for the case of that file and name.
Listed(run, c) ==
  {d.outcome : d \in {e \in CasesOf(run) : e.file = c.file /\ e.name = c.name}}

\* A rerun that cleared a case: it lists the case as passed, or for a case
\* without a name it lost nothing in the file.
Cleared(run, c) ==
  IF c.name # Unknown THEN "pass" \in Listed(run, c)
  ELSE \A d \in Failed(run) : d.file # c.file

\* A failure a pass lets go was taken out of the gate by the config of base, or
\* sits in a file the diff did not write and every run of a retry that took
\* place cleared that very case. Silence is never a pass: a red suite that
\* names no failure is refused.
PassIsExcused ==
  verdict = "pass" =>
    /\ suite[1].green \/ Failed(suite[1]) # {}
    /\ \A c \in Failed(suite[1]) :
         \/ {c.name, c.file} \intersect knownFlaky # {}
         \/ /\ c.file # Unknown /\ c.file \notin diff
            /\ RetryFailed > 0 /\ Len(retried) = RetryFailed
            /\ \A i \in 1..RetryFailed : Cleared(retried[i], c)

\* The failures nobody exempted and no retry cleared.
Standing ==
  {c \in Failed(suite[1]) :
     /\ {c.name, c.file} \intersect knownFlaky = {}
     /\ retried = <<>> \/ \E i \in DOMAIN retried : ~Cleared(retried[i], c)}

\* What the base suite proves of one failure: it was red there under the same
\* file and name, or base is red without naming any case.
RedOnBase(c) ==
  "fail" \in Listed(base[1], c)
    \/ (~base[1].green /\ \A d \in CasesOf(base[1]) : d.name = Unknown)

\* The agent does not answer for what it inherited: a refusal that rests on no
\* failure of the diff's own files asked for the suite on base, and found none
\* of the failures that stand red there already.
AgentAnswersForNoOther ==
  verdict = "fail" /\ Failed(suite[1]) # {} =>
    \/ \E c \in Failed(suite[1]) :
         c.file \in diff \union {Unknown} /\ {c.name, c.file} \intersect knownFlaky = {}
    \/ base # <<>> /\ Standing # {} /\ \A c \in Standing : ~RedOnBase(c)

\* Exit code 2 is no way out for the agent: the repository is blamed where a
\* failure that stands was red on base too, and no failure is the diff's.
BlameIsProven ==
  verdict = "harness" =>
    /\ \A c \in Failed(suite[1]) :
         c.file \in diff \union {Unknown} => {c.name, c.file} \intersect knownFlaky # {}
    /\ \E c \in Standing : RedOnBase(c)

=============================================================================
