---------------------------- MODULE StaticGates ----------------------------
(***************************************************************************)
(* The gates that judge the diff itself: internal/gates/paths and          *)
(* internal/gates/tests. Each is a function of the config and the files    *)
(* GitDiff read; test-immutability in mode cases also asks the probe what  *)
(* the inventory and the head run named (Outcomes).                        *)
(*                                                                         *)
(* A glob list of the config is the set of paths it matches, a list of     *)
(* regexes the set of lines. The state ends with the answer of one gate:   *)
(* no gate reads what another one said.                                    *)
(***************************************************************************)
EXTENDS GitDiff, Outcomes, GateProtocol

CONSTANTS
  Configs,      \* the configs of interest
  RunSets       \* what the probe may report: sets of runs

Gates == {"protected-paths", "diff-budget", "test-immutability", "new-test-present",
          "no-disabled-tests", "suppression-scan"}

LineModes == {"strict", "append-only"}
Blocking  == LineModes \union {"cases"}

ConfigSpace ==
  [protected : SUBSET Paths, guarded : SUBSET Paths, allowed : SUBSET Paths,
   restricted : BOOLEAN,              \* paths.allowed is not empty
   patterns : SUBSET Paths, fixtures : SUBSET Paths,
   immutability : Blocking, fixturesImmutability : Blocking \union {"warn"},
   requireNew : BOOLEAN, suppression : BOOLEAN,
   forbidDisabled : SUBSET Lines, suppressed : SUBSET Lines,
   budget : [files : Nat, added : Nat, deleted : Nat]]

ASSUME StaticGatesAssumption ==
  Configs \subseteq ConfigSpace /\ RunSets \subseteq Seq(Reports)

VARIABLES
  config,
  inventory, head,   \* what the probe reported, for mode cases
  answer             \* the answer of a gate: [gate, status, remediation, evidence, warnings]

gateVars == <<diffVars, config, inventory, head, answer>>

NoAnswer == [gate |-> "none", status |-> "none", remediation |-> "none",
             evidence |-> {}, warnings |-> {}]

TypeOK ==
  /\ DiffTypeOK
  /\ config \in Configs /\ inventory \in RunSets \union {<<>>} /\ head \in RunSets \union {<<>>}
  /\ answer.gate \in Gates \union {"none"}
  /\ answer.status \in IF answer.gate = "none" THEN {"none"} ELSE StatusesOf(answer.gate)
  /\ answer.remediation \in {"none", "revert-paths", "reduce-scope", "add-test", "fix-code"}
  /\ answer.status = "fail" <=> answer.remediation # "none"

Init ==
  /\ DiffInit
  /\ config \in Configs
  /\ inventory = <<>> /\ head = <<>> /\ answer = NoAnswer

DiffFiles == {files[i] : i \in DOMAIN files}

Pass == [NoAnswer EXCEPT !.status = "pass"]
Skip == [NoAnswer EXCEPT !.status = "skip"]
Fail(remediation, evidence) ==
  [NoAnswer EXCEPT !.status = "fail", !.remediation = remediation, !.evidence = evidence]

-----------------------------------------------------------------------------
(* protected-paths.                                                        *)

\* Looks at where the file is, and not at where it came from.
Matched_bug(set, f) == IF f.path \in set THEN f.path ELSE NoPath

\* The end of a file that a list matches, the head path first.
Matched(set, f) ==
  IF f.path \in set THEN f.path ELSE IF f.old \in set THEN f.old ELSE NoPath

Ends(f) == {f.path, f.old} \ {NoPath}

\* The first rule the file breaks, and the end that broke it.
Offence(f) ==
  IF Matched(config.protected, f) # NoPath
    THEN <<"protected", Matched(config.protected, f)>>
  ELSE IF config.restricted /\ ~(Ends(f) \subseteq config.allowed)
    THEN <<"outside", Matched(Ends(f) \ config.allowed, f)>>
  ELSE <<>>

\* Only a file that broke no rule is worth a reviewer's line.
ProtectedPaths ==
  LET broken == {f \in DiffFiles : Offence(f) # <<>>}
      guarded == {Matched(config.guarded, f) : f \in DiffFiles \ broken} \ {NoPath}
  IN IF broken = {} THEN [Pass EXCEPT !.warnings = guarded]
     ELSE [Fail("revert-paths", {Offence(f) : f \in broken}) EXCEPT !.warnings = guarded]

-----------------------------------------------------------------------------
(* diff-budget.                                                            *)

\* Tests are asked for, and nobody writes a generated file.
Countable(f) == ~f.generated /\ f.path \notin config.patterns

\* A sum of counts is the number of the lines they count, a binary file's none.
LinesIn(count, counted) == UNION {{i} \X (1..count[i]) : i \in counted}

Spent ==
  LET counted == {i \in DOMAIN files : Countable(files[i])}
  IN [files |-> Cardinality(counted),
      added |-> Cardinality(LinesIn([i \in counted |-> files[i].added], counted)),
      deleted |-> Cardinality(LinesIn([i \in counted |-> files[i].deleted], counted))]

Overruns == {unit \in DOMAIN config.budget : Spent[unit] > config.budget[unit]}

DiffBudget == IF Overruns = {} THEN Pass ELSE Fail("reduce-scope", Overruns)

-----------------------------------------------------------------------------
(* test-immutability.                                                      *)

\* The two lists in the order that settles an edit: fixtures first.
Surfaces ==
  <<[set |-> config.fixtures, mode |-> config.fixturesImmutability],
    [set |-> config.patterns, mode |-> config.immutability]>>

First(S) == CHOOSE i \in S : \A j \in S : i <= j

\* The lists that match a path, and the mode an edit of it answers to.
Claimants(path) == {i \in DOMAIN Surfaces : path \in Surfaces[i].set}
EditMode(path) == Surfaces[First(Claimants(path))].mode

\* Where the file was at the merge base, if it was there.
ExistingPath(f) ==
  IF f.status \in {"A", "C"} THEN NoPath ELSE IF f.status = "R" THEN f.old ELSE f.path

\* Goes by the path alone: a link in a test's place is still there.
Left_bug(f, set) == f.status = "D" \/ (f.status = "R" /\ f.path \notin set)

\* A rename out of the list and a change of type are removals too.
Left(f, set) == f.status \in {"D", "T"} \/ (f.status = "R" /\ f.path \notin set)

\* The lists a removal answers to.
Abandoned(f) == {i \in Claimants(ExistingPath(f)) : Left(f, Surfaces[i].set)}

\* The first that does not merely warn speaks for them.
RemovalMode(f) ==
  LET hard == {i \in Abandoned(f) : Surfaces[i].mode # "warn"}
  IN Surfaces[First(IF hard # {} THEN hard ELSE Abandoned(f))].mode

\* Git counts no line of a binary file, so none lost means none measured.
Shortened(f) == f.binary \/ f.deleted > 0

Offends(f, kind, mode) == {[file |-> ExistingPath(f), kind |-> kind, mode |-> mode]}

\* The rule one file breaks, if it breaks one; none where outcomes decide instead.
Broken(f) ==
  LET mode == EditMode(ExistingPath(f))
  IN IF Claimants(ExistingPath(f)) = {} \/ mode = "cases" THEN {}
     ELSE IF Abandoned(f) # {} THEN Offends(f, "removed", RemovalMode(f))
     ELSE IF mode \in {"strict", "warn"} THEN Offends(f, "edited", mode)
     ELSE IF Shortened(f) THEN Offends(f, "shortened", mode)
     ELSE {}

\* The offences of each file, in the order of the diff.
LineOffences == [i \in DOMAIN files |-> Broken(files[i])]

ByOutcome ==
  \E f \in DiffFiles :
    Claimants(ExistingPath(f)) # {} /\ EditMode(ExistingPath(f)) = "cases"

\* A case is gone, or some listing of it in some run on head is not green.
CasesOffences(before, after) ==
  {[case |-> n, kind |-> "removed", mode |-> "cases"] : n \in Names(before) \ Names(after)}
  \union
  {[case |-> n, kind |-> "regressed", mode |-> "cases"] :
     n \in {m \in Names(before) \intersect Names(after) : OutcomesAll(after, m) # {"pass"}}}

\* Names a remediation for a warning too.
Verdict_bug(byLine, byCase) ==
  LET hard == {i \in DOMAIN byLine : \E o \in byLine[i] : o.mode # "warn"}
      evidence == UNION {byLine[i] : i \in DOMAIN byLine} \union byCase
  IN IF hard # {} \/ byCase # {}
       THEN Fail(IF hard # {} /\ \A o \in byLine[First(hard)] : o.mode # "cases"
                 THEN "revert-paths" ELSE "fix-code", evidence)
     ELSE IF evidence # {} THEN [Fail("revert-paths", evidence) EXCEPT !.status = "warn"]
     ELSE Pass

\* The mode that speaks for the offences: the first that blocks, or the first.
Verdict(byLine, byCase) ==
  LET hard == {i \in DOMAIN byLine : \E o \in byLine[i] : o.mode # "warn"}
      evidence == UNION {byLine[i] : i \in DOMAIN byLine} \union byCase
  IN IF hard # {} \/ byCase # {}
       THEN Fail(IF hard # {} /\ \A o \in byLine[First(hard)] : o.mode # "cases"
                 THEN "revert-paths" ELSE "fix-code", evidence)
     ELSE IF evidence # {} THEN [Pass EXCEPT !.status = "warn", !.evidence = evidence]
     ELSE Pass

-----------------------------------------------------------------------------
(* new-test-present, no-disabled-tests, suppression-scan.                  *)

HoldsTestCases(path) == path \in config.patterns \ config.fixtures

NewTestPresent ==
  IF ~config.requireNew THEN Skip
  ELSE IF \E f \in DiffFiles : f.added > 0 /\ HoldsTestCases(f.path) THEN Pass
  ELSE Fail("add-test", {})

\* The added lines a set matches, in the files at the given head paths.
ScanAdded(paths, set) ==
  UNION {{<<f.path, l>> : l \in f.lines \intersect set} : f \in {g \in DiffFiles : g.path \in paths}}

\* Spares the fixtures, as new-test-present does.
NoDisabledTests_bug ==
  LET hits == ScanAdded(config.patterns \ config.fixtures, config.forbidDisabled)
  IN IF hits = {} THEN Pass ELSE Fail("revert-paths", hits)

NoDisabledTests ==
  LET hits == ScanAdded(config.patterns, config.forbidDisabled)
  IN IF hits = {} THEN Pass ELSE Fail("revert-paths", hits)

SuppressionScan ==
  LET hits == ScanAdded(Paths, config.suppressed)
  IN IF ~config.suppression THEN Skip
     ELSE IF hits = {} THEN Pass
     ELSE [Pass EXCEPT !.status = "warn", !.warnings = hits]

-----------------------------------------------------------------------------
Answers(gate, result) ==
  /\ at = "read" /\ answer = NoAnswer
  /\ answer' = [result EXCEPT !.gate = gate]
  /\ UNCHANGED <<diffVars, config>>

Scans ==
  /\ \/ Answers("protected-paths", ProtectedPaths)
     \/ Answers("diff-budget", DiffBudget)
     \/ Answers("new-test-present", NewTestPresent)
     \/ Answers("no-disabled-tests", NoDisabledTests)
     \/ Answers("suppression-scan", SuppressionScan)
  /\ UNCHANGED <<inventory, head>>

ImmutabilityByLine ==
  /\ ~ByOutcome
  /\ Answers("test-immutability", Verdict(LineOffences, {}))
  /\ UNCHANGED <<inventory, head>>

\* Whether head holds nothing of the test surface the diff touched.
HeadIdle ==
  \A f \in DiffFiles :
    Ends(f) \intersect (config.patterns \union config.fixtures) # {} => f.status = "D"

\* The runner lets the gate speak where the inventory, one run, named its cases.
ImmutabilityByOutcome ==
  /\ ByOutcome
  /\ inventory' \in {runs \in RunSets : Len(runs) = 1 /\ Named(runs)}
  /\ head' \in {runs \in RunSets : runs = <<>> <=> HeadIdle}
  /\ Answers("test-immutability", Verdict(LineOffences, CasesOffences(inventory', head')))

\* The probe failed, and the gate with it.
ImmutabilityFails ==
  /\ at = "read" /\ answer = NoAnswer /\ ByOutcome
  /\ at' = "broken"
  /\ UNCHANGED <<trees, attrs, origin, files, reader, config, inventory, head, answer>>

Reads == Read /\ UNCHANGED <<config, inventory, head, answer>>

Over ==
  /\ at \in {"broken", "internal"} \/ answer # NoAnswer
  /\ UNCHANGED gateVars

Next == Reads \/ Scans \/ ImmutabilityByLine \/ ImmutabilityByOutcome \/ ImmutabilityFails \/ Over

Spec == Init /\ [][Next]_gateVars

-----------------------------------------------------------------------------
(* Properties, about the two trees and not about the diff between them.    *)

Cleared(gate) == answer.gate = gate /\ answer.status # "fail"

Differs(p) == BaseTree[p] # HeadTree[p]

\* A diff protected-paths clears leaves every protected path as it was, whichever
\* way git tells the story (a move is an edit of both ends), and with
\* paths.allowed every path outside it.
ProtectedStaysPut ==
  Cleared("protected-paths") =>
    \A p \in Paths : Differs(p) =>
      p \notin config.protected /\ (config.restricted => p \in config.allowed)

\* Where git says a file of the merge base is now: its own path, or the one it
\* was renamed to.
Now(p) ==
  IF p \notin Deleted THEN {p} ELSE {q \in Takers(p) : Renamed(q)}

SameKind(p, q) == (BaseTree[p].kind = "link") = (HeadTree[q].kind = "link")

\* Nothing a list protects leaves it: the file is still there, still a file, and
\* still in the list.
StaysIn(p, set) == \E q \in Now(p) : q \in set /\ SameKind(p, q)

\* Strict forbids any edit, append-only an edit that loses or hides a line.
EditAllowed(p, mode) ==
  /\ mode = "strict" => ~Differs(p)
  /\ mode = "append-only" => \A q \in Now(p) :
       q # p \/ Differs(p) =>
         /\ BaseTree[p].lines \subseteq HeadTree[q].lines
         /\ ~Opaque(q, attrs.base)

\* Whatever list claims a file of the merge base, a diff test-immutability clears
\* does not take the file out of that list, and edits it only as its first list
\* allows; where that list goes by outcomes, every case base named is on head and
\* green in every listing of every run.
InsuranceStays ==
  Cleared("test-immutability") =>
    \A p \in Present(BaseTree) : Claimants(p) # {} =>
      IF EditMode(p) = "cases"
        THEN Differs(p) =>
               \A n \in Names(inventory) : \A i \in DOMAIN head :
                 /\ \E c \in CasesOf(head[i]) : c.name = n
                 /\ \A c \in CasesOf(head[i]) : c.name = n => c.outcome = "pass"
      ELSE /\ EditAllowed(p, EditMode(p))
           /\ \A i \in Claimants(p) :
                Surfaces[i].mode # "warn" => StaysIn(p, Surfaces[i].set)

\* "A removal answers to all of them" (test_immutability.go), and "a file that
\* disappears answers to both lists" (CONFIG.md): whichever list speaks first, a
\* file of a strict or an append-only list does not disappear.
RemovalAnswersToAll ==
  Cleared("test-immutability") =>
    \A p \in Present(BaseTree) :
      \A i \in Claimants(p) :
        Surfaces[i].mode \in LineModes => StaysIn(p, Surfaces[i].set)

\* No file of the head tree under tests.patterns holds a disabling line git can
\* show and its source on base did not have, and a test that was asked for brought
\* such a line of its own: the two gates divide the surface differently.
TestLinesAreJudged ==
  /\ Cleared("no-disabled-tests") =>
       \A p \in Added \union Changed : p \in config.patterns =>
         OwnLines([status |-> StatusOf(p), path |-> p]) \intersect config.forbidDisabled = {}
  /\ Cleared("new-test-present") /\ config.requireNew =>
       \E p \in Added \union Changed :
         HoldsTestCases(p) /\ HeadTree[p].lines \ Before(p).lines # {}

\* The changed files nobody generated and no test holds: generated is what the merge
\* base says, so that a diff cannot write itself out of the budget.
Judged == {p \in Shown : p \notin attrs.base.generated \union config.patterns}
Legible == {p \in Judged : ~Opaque(p, attrs.base)}

\* A diff the budget clears changes no more files, and adds and deletes no more
\* lines git can show, than the budget allows, measured on the trees.
BudgetHolds ==
  Cleared("diff-budget") =>
    /\ Cardinality(Judged) <= config.budget.files
    /\ Cardinality(UNION {{p} \X (HeadTree[p].lines \ Before(p).lines) : p \in Legible})
         <= config.budget.added
    /\ Cardinality(UNION {{p} \X (Before(p).lines \ HeadTree[p].lines) : p \in Legible})
         <= config.budget.deleted

=============================================================================
