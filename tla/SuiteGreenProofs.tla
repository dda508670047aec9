--------------------------- MODULE SuiteGreenProofs ---------------------------
(***************************************************************************)
(* Proofs about SuiteGreen, for reports of any length and any number of    *)
(* reruns: what excuses a pass, and whom a red suite is put down to.       *)
(***************************************************************************)
EXTENDS SuiteGreen, OutcomesProofs, SequenceTheorems

\* A report that lists no case of one file and one name twice. A lookup reads the
\* first of two, which is then the only one.
ListsOnce(run) ==
  \A c, d \in CasesOf(run) : c.file = d.file /\ c.name = d.name => c = d

One(runs, kinds) == \E r \in kinds : runs = <<r>>
Retry(runs) == runs = <<>> \/ (RetryFailed # 0 /\ runs \in [1..RetryFailed -> Reruns])

\* A red suite nobody of the diff is to answer for, by the cases themselves.
Foreign ==
  /\ Judged(suite) # {} /\ Blocking(suite) = {} /\ Retry(retried)

\* What each answer settled before the gate went on.
Settled ==
  /\ at # "done" => verdict = "none"
  /\ at = "suite" => retried = <<>>
  /\ at \in {"retry", "base", "done"} => One(suite, Runs)
  /\ at = "retry" => Judged(suite) # {}
  /\ at = "base" => Foreign /\ Inherited(suite, retried) # {}
  /\ verdict = "pass" =>
       \/ Judged(suite) = {} /\ Clean(suite) = "pass"
       \/ Foreign /\ Inherited(suite, retried) = {}
  /\ verdict = "fail" =>
       \/ Judged(suite) = {} /\ Clean(suite) = "fail"
       \/ Blocking(suite) # {}
       \/ Foreign /\ Inherited(suite, retried) # {} /\ One(base, Runs) /\ ~RepositoryBroken(base)
  /\ verdict = "harness" =>
       Foreign /\ Inherited(suite, retried) # {} /\ One(base, Runs) /\ RepositoryBroken(base)

LEMMA InitSettles == Init => Settled
  BY DEF Init, Settled

\* The verdict of a question depends on the runs and on the lists of the start.
LEMMA ListsFrame ==
  ASSUME UNCHANGED <<diff, knownFlaky>>
  PROVE  /\ Judged(suite)' = Judged(suite')
         /\ Blocking(suite)' = Blocking(suite')
         /\ Inherited(suite, retried)' = Inherited(suite', retried')
         /\ UNCHANGED suite /\ UNCHANGED retried => RepositoryBroken(base)' = RepositoryBroken(base')
<1>1. \A c : (Exempt(c)' <=> Exempt(c)) /\ (Touched(c)' <=> Touched(c))
  BY DEF Exempt, Touched
<1>2. Judged(suite)' = Judged(suite')
  BY <1>1 DEF Judged
<1>3. Blocking(suite)' = Blocking(suite')
  BY <1>1 DEF Blocking, Judged
<1>4. Inherited(suite, retried)' = Inherited(suite', retried')
  BY <1>1 DEF Inherited, Judged
<1>5. UNCHANGED suite /\ UNCHANGED retried => RepositoryBroken(base)' = RepositoryBroken(base')
  BY <1>1 DEF RepositoryBroken, Inherited, Judged
<1>6. QED BY <1>2, <1>3, <1>4, <1>5

LEMMA StepSettles ==
  ASSUME Settled, [Next]_vars
  PROVE  Settled'
<1> USE DEF Settled
<1>1. CASE AskSuite
  <2>1. /\ One(suite', Runs) /\ retried' = <<>> /\ verdict = "none"
        /\ UNCHANGED <<diff, knownFlaky, retried, base>>
        /\ IF Judged(suite') = {}
             THEN at' = "done" /\ verdict' = Clean(suite')
             ELSE at' = "retry" /\ verdict' = "none"
    BY <1>1 DEF AskSuite, Conclude, GoOn, One
  <2>2. Judged(suite)' = Judged(suite') /\ Clean(suite)' = Clean(suite')
    BY <2>1, ListsFrame DEF Clean
  <2>3. Clean(suite') \in {"pass", "fail"}
    BY DEF Clean
  <2>4. QED BY <2>1, <2>2, <2>3 DEF One
<1>2. CASE AskRetry
  <2>1. /\ One(suite, Runs) /\ Judged(suite) # {} /\ verdict = "none"
        /\ UNCHANGED <<diff, knownFlaky, suite, base>>
        /\ Retry(retried')
        /\ IF Blocking(suite) # {} THEN at' = "done" /\ verdict' = "fail"
           ELSE IF Inherited(suite, retried') # {} THEN at' = "base" /\ verdict' = "none"
           ELSE at' = "done" /\ verdict' = "pass"
    BY <1>2 DEF AskRetry, Conclude, GoOn, Retry
  <2>2. /\ Judged(suite)' = Judged(suite) /\ Blocking(suite)' = Blocking(suite)
        /\ Inherited(suite, retried)' = Inherited(suite, retried') /\ Retry(retried)' = Retry(retried')
        /\ One(suite, Runs)' = One(suite, Runs)
    BY <2>1, ListsFrame DEF Retry, One
  <2>3. QED BY <2>1, <2>2 DEF Foreign
<1>3. CASE AskBaseSuite
  <2>1. /\ Foreign /\ Inherited(suite, retried) # {} /\ One(suite, Runs)
        /\ UNCHANGED <<diff, knownFlaky, suite, retried>>
        /\ One(base', Runs) /\ at' = "done"
        /\ verdict' = IF RepositoryBroken(base') THEN "harness" ELSE "fail"
    BY <1>3 DEF AskBaseSuite, Conclude, One
  <2>2. /\ Judged(suite)' = Judged(suite) /\ Blocking(suite)' = Blocking(suite)
        /\ Inherited(suite, retried)' = Inherited(suite, retried) /\ Retry(retried)' = Retry(retried)
        /\ One(suite, Runs)' = One(suite, Runs) /\ One(base, Runs)' = One(base', Runs)
        /\ RepositoryBroken(base)' = RepositoryBroken(base')
    BY <2>1, ListsFrame DEF Retry, One
  <2>3. QED BY <2>1, <2>2 DEF Foreign
<1>4. CASE UNCHANGED vars
  <2>1. /\ Judged(suite)' = Judged(suite) /\ Blocking(suite)' = Blocking(suite)
        /\ Inherited(suite, retried)' = Inherited(suite, retried) /\ Retry(retried)' = Retry(retried)
        /\ One(suite, Runs)' = One(suite, Runs) /\ One(base, Runs)' = One(base, Runs)
        /\ RepositoryBroken(base)' = RepositoryBroken(base) /\ Clean(suite)' = Clean(suite)
    BY <1>4, ListsFrame DEF vars, Retry, One, Clean
  <2>2. QED BY <1>4, <2>1 DEF vars, Foreign
<1>5. QED BY <1>1, <1>2, <1>3, <1>4 DEF Next, Done

LEMMA SettledHolds == Spec => []Settled
<1>1. Settled /\ [Next]_vars => Settled'
  BY StepSettles
<1>2. QED BY InitSettles, <1>1, PTL DEF Spec

-----------------------------------------------------------------------------
(* What the lists say of the reports.                                      *)

LEMMA OneRun ==
  ASSUME NEW runs, One(runs, Runs)
  PROVE  /\ runs # <<>> /\ DOMAIN runs = 1..1 /\ runs[1] \in Runs /\ runs[1] \in Reports
         /\ Lost(runs) = Failed(runs[1])
         /\ AllGreen(runs) <=> runs[1].green
         /\ AllCases(runs) = CasesOf(runs[1])
<1>1. PICK r \in Runs : runs = <<r>>
  BY DEF One
<1>2. DOMAIN runs = 1..1 /\ runs[1] = r /\ runs # <<>> /\ r \in Reports
  BY <1>1, SuiteGreenAssumption
<1>3. Lost(runs) = Failed(runs[1]) /\ AllCases(runs) = CasesOf(runs[1])
  BY <1>2 DEF Lost, AllCases
<1>4. AllGreen(runs) <=> runs[1].green
  BY <1>2 DEF AllGreen
<1>5. QED BY <1>1, <1>2, <1>3, <1>4

LEMMA Reran ==
  ASSUME Retry(retried), retried # <<>>
  PROVE  /\ RetryFailed \in Nat \ {0} /\ DOMAIN retried = 1..RetryFailed /\ Len(retried) = RetryFailed
         /\ \A i \in 1..RetryFailed : retried[i] \in Reruns /\ retried[i] \in Reports
<1>1. RetryFailed \in Nat \ {0} /\ retried \in [1..RetryFailed -> Reruns] /\ DOMAIN retried = 1..RetryFailed
  BY SuiteGreenAssumption DEF Retry
<1>2. Len(retried) = RetryFailed
  BY <1>1
<1>3. QED BY <1>1, <1>2, SuiteGreenAssumption

\* A file the case names, so that a lookup takes that file and no other.
LEMMA LookupLists ==
  ASSUME NEW run \in Reports, NEW c \in Cases, c.file # Unknown
  PROVE  /\ OutcomeIn(run, c.file, c.name) # "absent" =>
              OutcomeIn(run, c.file, c.name) \in Listed(run, c)
         /\ ListsOnce(run) /\ Listed(run, c) # {} =>
              Listed(run, c) = {OutcomeIn(run, c.file, c.name)}
         /\ Listed(run, c) = {} => OutcomeIn(run, c.file, c.name) = "absent"
<1>1. \A d : Matches(d, c.file, c.name) <=> d.file = c.file /\ d.name = c.name
  BY DEF Matches
<1>2. CASE /\ OutcomeIn(run, c.file, c.name) = "absent"
           /\ \A d \in CasesOf(run) : ~Matches(d, c.file, c.name)
  BY <1>1, <1>2 DEF Listed
<1>3. CASE \E d \in CasesOf(run) :
             Matches(d, c.file, c.name) /\ OutcomeIn(run, c.file, c.name) = d.outcome
  <2>1. PICK d \in CasesOf(run) :
          d.file = c.file /\ d.name = c.name /\ OutcomeIn(run, c.file, c.name) = d.outcome
    BY <1>1, <1>3
  <2>2. d.outcome \in Listed(run, c)
    BY <2>1 DEF Listed
  <2>3. ListsOnce(run) => \A e \in CasesOf(run) : e.file = c.file /\ e.name = c.name => e = d
    BY <2>1 DEF ListsOnce
  <2>4. ListsOnce(run) => Listed(run, c) = {d.outcome}
    BY <2>1, <2>3 DEF Listed
  <2>5. QED BY <2>1, <2>2, <2>4
<1>4. QED BY <1>2, <1>3, LookupFinds

\* A failure that is not the diff's was cleared by the retry or stands.
LEMMA ClearedByRetry ==
  ASSUME Retry(retried), NEW c \in Cases, c.file # Unknown, GreenOnRetry(retried, c)
  PROVE  /\ RetryFailed > 0 /\ Len(retried) = RetryFailed
         /\ \A i \in 1..RetryFailed : Cleared(retried[i], c)
<1>1. retried # <<>>
  BY DEF GreenOnRetry
<1>2. RetryFailed > 0 /\ Len(retried) = RetryFailed
  BY <1>1, Reran
<1>3. CASE c.name # Unknown
  <2> SUFFICES ASSUME NEW i \in 1..RetryFailed
               PROVE  Cleared(retried[i], c)
    BY <1>2
  <2>1. OutcomeIn(retried[i], c.file, c.name) = "pass"
    BY <1>1, <1>3, Reran DEF GreenOnRetry, AllAre, OutcomesOf
  <2>2. "pass" \in Listed(retried[i], c)
    BY <1>1, <2>1, Reran, LookupLists
  <2>3. QED BY <1>3, <2>2 DEF Cleared
<1>4. CASE c.name = Unknown
  BY <1>1, <1>2, <1>4, Reran DEF GreenOnRetry, Lost, Cleared
<1>5. QED BY <1>3, <1>4

LEMMA StandsAfterRetry ==
  ASSUME Retry(retried), NEW c \in Cases, c.file # Unknown, ~GreenOnRetry(retried, c),
         \A run \in Reruns : ListsOnce(run)
  PROVE  retried = <<>> \/ \E i \in DOMAIN retried : ~Cleared(retried[i], c)
<1> SUFFICES ASSUME retried # <<>>
             PROVE  \E i \in DOMAIN retried : ~Cleared(retried[i], c)
  OBVIOUS
<1>1. CASE c.name # Unknown
  <2>1. PICK i \in DOMAIN retried : OutcomeIn(retried[i], c.file, c.name) # "pass"
    BY <1>1, Reran DEF GreenOnRetry, AllAre, OutcomesOf
  <2>2. "pass" \notin Listed(retried[i], c)
    BY <2>1, Reran, LookupLists
  <2>3. QED BY <1>1, <2>1, <2>2 DEF Cleared
<1>2. CASE c.name = Unknown
  BY <1>2, Reran DEF GreenOnRetry, Lost, Cleared
<1>3. QED BY <1>1, <1>2

LEMMA FailuresTyped ==
  ASSUME One(suite, Runs)
  PROVE  /\ Failed(suite[1]) \subseteq Cases
         /\ Judged(suite) = {c \in Failed(suite[1]) : ~Exempt(c)}
  BY OneRun, CasesTyped DEF Judged, Failed

-----------------------------------------------------------------------------
(* The properties of SuiteGreen.                                           *)

LEMMA PassExcused ==
  ASSUME Settled, verdict = "pass"
  PROVE  PassIsExcused
<1>1. One(suite, Runs)
  BY DEF Settled
<1>2. CASE Judged(suite) = {} /\ Clean(suite) = "pass"
  <2>1. suite[1].green \/ Failed(suite[1]) # {}
    BY <1>1, <1>2, OneRun DEF Clean
  <2>2. \A c \in Failed(suite[1]) : {c.name, c.file} \intersect knownFlaky # {}
    BY <1>1, <1>2, FailuresTyped DEF Exempt
  <2>3. QED BY <2>1, <2>2 DEF PassIsExcused
<1>3. CASE Foreign /\ Inherited(suite, retried) = {}
  <2>1. Failed(suite[1]) # {}
    BY <1>1, <1>3, FailuresTyped DEF Foreign
  <2>2. ASSUME NEW c \in Failed(suite[1]), {c.name, c.file} \intersect knownFlaky = {}
        PROVE  /\ c.file # Unknown /\ c.file \notin diff
               /\ RetryFailed > 0 /\ Len(retried) = RetryFailed
               /\ \A i \in 1..RetryFailed : Cleared(retried[i], c)
    <3>1. c \in Judged(suite) /\ c \in Cases
      BY <1>1, <2>2, FailuresTyped DEF Exempt
    <3>2. ~Touched(c)
      BY <1>3, <3>1 DEF Foreign, Blocking
    <3>3. GreenOnRetry(retried, c)
      BY <1>3, <3>1, <3>2 DEF Inherited
    <3>4. c.file # Unknown /\ c.file \notin diff
      BY <3>2 DEF Touched
    <3>5. QED BY <1>3, <3>1, <3>3, <3>4, ClearedByRetry DEF Foreign
  <2>3. QED BY <2>1, <2>2 DEF PassIsExcused
<1>4. QED BY <1>2, <1>3 DEF Settled

\* A failure a pass lets go is exempt, or foreign and cleared in every rerun.
THEOREM PassesAreExcused == Spec => []PassIsExcused
<1>1. Settled => PassIsExcused
  BY PassExcused DEF PassIsExcused
<1>2. QED BY SettledHolds, <1>1, PTL

\* The failures the gate calls inherited are the ones that stand.
LEMMA InheritedStand ==
  ASSUME One(suite, Runs), Foreign, \A run \in Reruns : ListsOnce(run)
  PROVE  Standing = Inherited(suite, retried)
<1> USE DEF Foreign
<1>1. ASSUME NEW c \in Failed(suite[1]), ~Exempt(c)
      PROVE  c \in Cases /\ c \in Judged(suite) /\ ~Touched(c) /\ c.file # Unknown
  BY <1>1, FailuresTyped DEF Blocking, Touched
<1>2. ASSUME NEW c \in Inherited(suite, retried)
      PROVE  c \in Standing
  <2>1. c \in Failed(suite[1]) /\ ~Exempt(c) /\ ~GreenOnRetry(retried, c)
    BY <1>2, FailuresTyped DEF Inherited
  <2>2. retried = <<>> \/ \E i \in DOMAIN retried : ~Cleared(retried[i], c)
    BY <1>1, <2>1, StandsAfterRetry
  <2>3. QED BY <2>1, <2>2 DEF Standing, Exempt
<1>3. ASSUME NEW c \in Standing
      PROVE  c \in Inherited(suite, retried)
  <2>1. c \in Failed(suite[1]) /\ ~Exempt(c)
    BY <1>3 DEF Standing, Exempt
  <2>2. retried = <<>> \/ \E i \in DOMAIN retried : ~Cleared(retried[i], c)
    BY <1>3 DEF Standing
  <2>3. ~GreenOnRetry(retried, c)
    <3>1. CASE retried = <<>>
      BY <3>1 DEF GreenOnRetry
    <3>2. CASE retried # <<>>
      BY <1>1, <2>1, <2>2, <3>2, ClearedByRetry, Reran
    <3>3. QED BY <3>1, <3>2
  <2>4. QED BY <1>1, <2>1, <2>3 DEF Inherited
<1>4. QED BY <1>2, <1>3

\* What the suite on base says of them is what it lists.
LEMMA BlameIsListed ==
  ASSUME One(suite, Runs), One(base, Runs), Foreign, \A run \in Runs \union Reruns : ListsOnce(run)
  PROVE  RepositoryBroken(base) <=> \E c \in Standing : RedOnBase(c)
<1>1. Standing = Inherited(suite, retried)
  BY InheritedStand
<1>2. \A c \in Standing : c \in Cases /\ c.file # Unknown
  BY <1>1, FailuresTyped DEF Inherited, Touched
<1>3. Broken(base) <=> ~base[1].green /\ \A d \in CasesOf(base[1]) : d.name = Unknown
  BY OneRun DEF Broken, Names
<1>4. \A c : AnyIs(OutcomesOf(base, c.file, c.name), "fail")
             <=> OutcomeIn(base[1], c.file, c.name) = "fail"
  BY OneRun DEF AnyIs, OutcomesOf
<1>5. \A c \in Standing :
        OutcomeIn(base[1], c.file, c.name) = "fail" <=> "fail" \in Listed(base[1], c)
  BY <1>2, OneRun, LookupLists
<1>6. QED BY <1>1, <1>3, <1>4, <1>5 DEF RepositoryBroken, RedOnBase

LEMMA FailAnswered ==
  ASSUME Settled, verdict = "fail", Failed(suite[1]) # {},
         \A run \in Runs \union Reruns : ListsOnce(run)
  PROVE  AgentAnswersForNoOther
<1>1. One(suite, Runs)
  BY DEF Settled
<1>2. ~(Judged(suite) = {} /\ Clean(suite) = "fail")
  BY <1>1, OneRun DEF Clean
<1>3. CASE Blocking(suite) # {}
  <2>1. PICK c \in Failed(suite[1]) : ~Exempt(c) /\ Touched(c)
    BY <1>1, <1>3, FailuresTyped DEF Blocking
  <2>2. QED BY <2>1 DEF AgentAnswersForNoOther, Exempt, Touched
<1>4. CASE Foreign /\ Inherited(suite, retried) # {} /\ One(base, Runs) /\ ~RepositoryBroken(base)
  BY <1>1, <1>4, OneRun, InheritedStand, BlameIsListed DEF AgentAnswersForNoOther
<1>5. QED BY <1>2, <1>3, <1>4 DEF Settled

LEMMA BlameProven ==
  ASSUME Settled, verdict = "harness", \A run \in Runs \union Reruns : ListsOnce(run)
  PROVE  BlameIsProven
<1>1. Foreign /\ One(suite, Runs) /\ One(base, Runs) /\ RepositoryBroken(base)
  BY DEF Settled
<1>2. \A c \in Failed(suite[1]) :
        c.file \in diff \union {Unknown} => {c.name, c.file} \intersect knownFlaky # {}
  BY <1>1, FailuresTyped DEF Foreign, Blocking, Touched, Exempt
<1>3. \E c \in Standing : RedOnBase(c)
  BY <1>1, BlameIsListed
<1>4. QED BY <1>2, <1>3 DEF BlameIsProven

\* Where a report lists no case twice, a refusal without a failure of the diff's
\* own asked base, and base cleared every failure that stands.
THEOREM AgentsAnswerForNoOther ==
  ASSUME \A run \in Runs \union Reruns : ListsOnce(run)
  PROVE  Spec => []AgentAnswersForNoOther
<1>1. Settled => AgentAnswersForNoOther
  BY FailAnswered DEF AgentAnswersForNoOther
<1>2. QED BY SettledHolds, <1>1, PTL

\* And the repository is blamed only for a failure that stands and was red before.
THEOREM BlamesAreProven ==
  ASSUME \A run \in Runs \union Reruns : ListsOnce(run)
  PROVE  Spec => []BlameIsProven
<1>1. Settled => BlameIsProven
  BY BlameProven DEF BlameIsProven
<1>2. QED BY SettledHolds, <1>1, PTL

\* What Judge builds on: suite-green asks for the suite on base after a retry alone, and
\* once it has, it refuses or blames the repository (suite_green.go, Run).
THEOREM SuiteGreenKeepsProtocol == Spec => KeepsProtocol
<1>1. Init => Question \in SuiteGreenAsks("none")
  BY DEF Init, Question, SuiteGreenAsks
<1>2. [Next]_vars => [InTurn]_vars
  <2> SUFFICES ASSUME Next PROVE InTurn \/ UNCHANGED vars
    OBVIOUS
  <2>1. CASE AskSuite
    BY <2>1 DEF AskSuite, Clean, Conclude, GoOn, InTurn, Question, SuiteGreenAsks, SuiteGreenAnswers
  <2>2. CASE AskRetry
    BY <2>2 DEF AskRetry, Conclude, GoOn, InTurn, Question, SuiteGreenAsks, SuiteGreenAnswers
  <2>3. CASE AskBaseSuite
    BY <2>3 DEF AskBaseSuite, Conclude, InTurn, Question, SuiteGreenAnswers
  <2>4. QED BY <2>1, <2>2, <2>3 DEF Next, Done
<1>3. QED BY <1>1, <1>2, PTL DEF Spec, KeepsProtocol

=============================================================================
