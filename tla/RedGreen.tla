------------------------------ MODULE RedGreen ------------------------------
(***************************************************************************)
(* The verdict of red-green (internal/gates/exec): does the diff add a     *)
(* case that fails without the fix and passes with it? The gate asks the   *)
(* probe three times at most: for the cases base already had, for          *)
(* ProbeRuns runs of the new tests on base, and for as many on head. What  *)
(* comes back is anything the project's harness can report.                *)
(***************************************************************************)
EXTENDS Outcomes, GateProtocol

CONSTANTS
  ProbeRuns,     \* red_green.probe_runs
  Inventories,   \* what the inventory run may return
  Runs           \* what a run of the probes may report

ASSUME RedGreenAssumption ==
  /\ ProbeRuns \in Nat \ {0}
  /\ Inventories \subseteq Reports /\ Runs \subseteq Reports

VARIABLES
  strict,     \* compile_failure_on_base = "fail"
  inventory,  \* the runs on base as it was: one, or none where the diff
              \* modifies no test file
  base,       \* the runs of the new tests on base
  head,       \* the runs on head
  at,         \* the question the gate asks next, "done" after the verdict
  verdict     \* the reason of the refusal (verdict.go), "pass", or "none"

vars == <<strict, inventory, base, head, at, verdict>>

Probes == [1..ProbeRuns -> Runs]

Init ==
  /\ strict \in BOOLEAN
  /\ inventory = <<>> /\ base = <<>> /\ head = <<>>
  /\ at = "inventory" /\ verdict = "none"

-----------------------------------------------------------------------------
\* missing: the names the runs mention that the inventory did not.
Added(runs) == Names(runs) \ Names(inventory)

Ambiguous(runs, names) == \E n \in names : Cardinality(Sharing(runs, n)) > 1

\* One red run is enough.
JudgeBase_bug(runs, names) ==
  IF \E n \in names : ~AnyIs(OutcomesNamed(runs, n), "fail") THEN "green on base"
  ELSE "none"

\* judgeBase: what is wrong with the added cases on base, "none" if nothing is.
\* Red in every run, and not in one of them.
JudgeBase(runs, names) ==
  IF \E n \in names : ~AnyIs(OutcomesNamed(runs, n), "fail") THEN "green on base"
  ELSE IF \E n \in names : ~AllAre(OutcomesNamed(runs, n), "fail") THEN "flaky on base"
  ELSE "none"

\* judgeHead: green in every run, and the three ways to miss that.
JudgeHead(runs, names) ==
  LET wrong == {n \in names : ~AllAre(OutcomesNamed(runs, n), "pass")}
  IN IF wrong = {} THEN "pass"
     ELSE IF \E n \in wrong : AllAre(OutcomesNamed(runs, n), "absent") THEN "gone on head"
     ELSE IF \E n \in wrong : ~AnyIs(OutcomesNamed(runs, n), "pass") THEN "red on head"
     ELSE "flaky on head"

\* The same with the set of files as the unit, for runs that name no case.
JudgeBaseByFile(runs) ==
  IF ~AnyGreen(runs) THEN "none"
  ELSE IF AllGreen(runs) THEN "green on base" ELSE "flaky on base"

JudgeHeadByFile(runs) ==
  IF AllGreen(runs) THEN "pass"
  ELSE IF ~AnyGreen(runs) THEN "red on head" ELSE "flaky on head"

\* Goes by the files wherever head names nothing new.
JudgeHeadByName_bug(runs) ==
  IF Added(runs) # {}
    THEN IF Ambiguous(runs, Added(runs)) THEN "shared name"
         ELSE JudgeHead(runs, Added(runs))
  ELSE JudgeHeadByFile(runs)

\* judgeHeadByName, after a base probe that named nothing: the names head
\* reports stand in for the added ones.
JudgeHeadByName(runs) ==
  IF Added(runs) # {}
    THEN IF Ambiguous(runs, Added(runs)) THEN "shared name"
         ELSE JudgeHead(runs, Added(runs))
  ELSE IF Named(runs) THEN "no new case"
  ELSE JudgeHeadByFile(runs)

\* What the base probe settles: a refusal, or "none" where head is asked.
BaseVerdict(runs) ==
  IF runs = <<>> THEN "no new case"
  ELSE IF Added(runs) # {}
    THEN IF Ambiguous(runs, Added(runs)) THEN "shared name"
         ELSE JudgeBase(runs, Added(runs))
  ELSE IF Named(runs) THEN "no new case"
  ELSE IF strict THEN "does not build"
  ELSE JudgeBaseByFile(runs)

\* byCase goes on with the names of the base probe, byFile with those of head.
HeadVerdict(runs) ==
  IF Added(base) # {} THEN JudgeHead(runs, Added(base)) ELSE JudgeHeadByName(runs)

-----------------------------------------------------------------------------
\* What the report says of a verdict: namesMissing asks for a human, refuse does not.
StatusOf(reason) ==
  IF reason = "pass" THEN "pass" ELSE IF reason = "names missing" THEN "human" ELSE "fail"

\* A verdict ends the gate, "none" sends it to its next question.
Go(next, reason) ==
  /\ verdict' = reason
  /\ at' = IF reason = "none" THEN next ELSE "done"

\* Goes on whatever the inventory names.
TakeInventory_bug ==
  /\ at = "inventory"
  /\ inventory' \in {<<>>} \union {<<r>> : r \in Inventories}
  /\ Go("overlaid", "none")
  /\ UNCHANGED <<strict, base, head>>

(* Probe.Inventory: the run the diff's existing test files give on base.   *)
TakeInventory ==
  /\ at = "inventory"
  /\ inventory' \in {<<>>} \union {<<r>> : r \in Inventories}
  /\ Go("overlaid", IF inventory' # <<>> /\ ~Named(inventory') THEN "names missing"
                    ELSE "none")
  /\ UNCHANGED <<strict, base, head>>

(* Probe.Overlaid: no run where the diff leaves no test file on head.      *)
ProbeBase ==
  /\ at = "overlaid"
  /\ base' \in {<<>>} \union Probes
  /\ Go("head", BaseVerdict(base'))
  /\ UNCHANGED <<strict, inventory, head>>

(* Probe.Head.                                                             *)
ProbeHead ==
  /\ at = "head"
  /\ head' \in Probes
  /\ Go("done", HeadVerdict(head'))
  /\ UNCHANGED <<strict, inventory, base>>

Done == at = "done" /\ UNCHANGED vars

Next == TakeInventory \/ ProbeBase \/ ProbeHead \/ Done

Spec == Init /\ [][Next]_vars

-----------------------------------------------------------------------------
(* Properties.                                                             *)

\* What a run reports under a name, wherever it reports it.
Reported(run, name) == {c.outcome : c \in {d \in CasesOf(run) : d.name = name}}

\* A pass is a reproduction: every case name the base probe adds failed in each
\* run without the fix and passed in each run with it. One flaky run on either
\* side is enough to refuse, and a run that leaves the case out is one. Test files
\* whose inventory names no case leave no way to tell which case is new.
PassIsReproduction ==
  verdict = "pass" =>
    /\ inventory # <<>> => Named(inventory)
    /\ \A n \in Added(base), i \in 1..ProbeRuns :
         "fail" \in Reported(base[i], n) /\ "pass" \in Reported(head[i], n)

\* A test edit that merely fails to build on base proves nothing: where the base
\* probe named no case, a pass takes red runs only on base, and on head either
\* a case the inventory did not hold that passed in each run, or green runs of a
\* harness that names none at all.
BuildFailureProvesNoCase ==
  verdict = "pass" /\ ~Named(base) =>
    /\ ~AnyGreen(base) /\ ~strict
    /\ IF Named(head)
         THEN /\ Added(head) # {}
              /\ \A n \in Added(head), i \in 1..ProbeRuns : "pass" \in Reported(head[i], n)
         ELSE AllGreen(head)

\* The inventory named the cases, or there was no file to name any.
CasesKnown == inventory = <<>> \/ Named(inventory)

\* An answer, or the next question, in its turn.
InTurn ==
  IF at' = "done" THEN StatusOf(verdict') \in RedGreenAnswers(at, CasesKnown')
  ELSE at' \in RedGreenAsks(at, CasesKnown', base' = <<>>)

\* The gate is the one Judge takes it for, whatever the runs report: it asks its
\* questions in that order and gives no answer before Judge lets it.
KeepsProtocol == at \in RedGreenAsks("none", FALSE, FALSE) /\ [][InTurn]_vars

\* A name two files carry is one case for every lookup, so a probe that reports
\* one is refused (HOOKS.md: the names have to be unique across the files one
\* probe runs).
SharedNamesAreRefused ==
  verdict = "pass" =>
    \A n \in Added(base) : ~Ambiguous(base, {n}) /\ ~Ambiguous(head, {n})

=============================================================================
