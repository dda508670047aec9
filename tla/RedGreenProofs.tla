---------------------------- MODULE RedGreenProofs ----------------------------
(***************************************************************************)
(* Proofs about RedGreen, for reports of any length, any number of runs    *)
(* and any names: a pass is a reproduction.                                *)
(***************************************************************************)
EXTENDS RedGreen, OutcomesProofs

\* What each answer settled before the gate went on.
Settled ==
  /\ at \in {"inventory", "overlaid", "head"} => verdict = "none"
  /\ at \in {"overlaid", "head"} \/ verdict = "pass" =>
       (inventory # <<>> => Named(inventory))
  /\ at = "head" \/ verdict = "pass" => base \in Probes /\ BaseVerdict(base) = "none"
  /\ verdict = "pass" => at = "done" /\ head \in Probes /\ HeadVerdict(head) = "pass"

LEMMA BaseNeverPasses ==
  ASSUME NEW runs
  PROVE  BaseVerdict(runs) # "pass" /\ (BaseVerdict(runs) = "none" => runs # <<>>)
  BY DEF BaseVerdict, JudgeBase, JudgeBaseByFile

LEMMA InitSettles == Init => Settled
  BY DEF Init, Settled

LEMMA StepSettles ==
  ASSUME Settled, [Next]_vars
  PROVE  Settled'
<1> USE DEF Settled
<1>1. CASE TakeInventory
  <2>1. /\ verdict' # "pass"
        /\ at' = "overlaid" => verdict' = "none" /\ (inventory' # <<>> => Named(inventory'))
        /\ at' \in {"overlaid", "done"}
    BY <1>1 DEF TakeInventory, Go
  <2>2. Named(inventory)' = Named(inventory')
    BY DEF Named, AllCases, CasesOf
  <2>3. QED BY <2>1, <2>2
<1>2. CASE ProbeBase
  <2>1. /\ at' \in {"head", "done"} /\ verdict' = BaseVerdict(base') /\ UNCHANGED <<strict, inventory, head>>
        /\ at' = "head" => verdict' = "none"
        /\ base' \in {<<>>} \union Probes
    BY <1>2 DEF ProbeBase, Go
  <2>2. verdict' # "pass" /\ (verdict' = "none" => base' # <<>>)
    BY <2>1, BaseNeverPasses
  <2>3. Named(inventory)' <=> Named(inventory)
    BY <2>1 DEF Named, AllCases, CasesOf
  <2>4. BaseVerdict(base)' = BaseVerdict(base')
    BY <2>1 DEF BaseVerdict, Added
  <2>5. QED BY <1>2, <2>1, <2>2, <2>3, <2>4 DEF ProbeBase, Probes
<1>3. CASE ProbeHead
  <2>1. /\ at' = "done" /\ verdict' = HeadVerdict(head') /\ head' \in Probes
        /\ UNCHANGED <<strict, inventory, base>>
    BY <1>3 DEF ProbeHead, Go
  <2>2. BaseVerdict(base)' = BaseVerdict(base) /\ HeadVerdict(head)' = HeadVerdict(head')
    BY <2>1 DEF BaseVerdict, HeadVerdict, JudgeHeadByName, Added
  <2>3. at = "head" /\ Probes' = Probes
    BY <1>3 DEF ProbeHead, Probes
  <2>4. QED BY <2>1, <2>2, <2>3
<1>4. CASE UNCHANGED vars
  <2>1. BaseVerdict(base)' = BaseVerdict(base) /\ HeadVerdict(head)' = HeadVerdict(head)
        /\ Probes' = Probes
    BY <1>4 DEF vars, BaseVerdict, HeadVerdict, JudgeHeadByName, Added, Probes
  <2>2. QED BY <1>4, <2>1 DEF vars
<1>5. QED BY <1>1, <1>2, <1>3, <1>4 DEF Next, Done

LEMMA SettledHolds == Spec => []Settled
<1>1. Settled /\ [Next]_vars => Settled'
  BY StepSettles
<1>2. QED BY InitSettles, <1>1, PTL DEF Spec

\* The runs of a probe are as many as the config asks for, and reports each.
LEMMA ProbesTyped ==
  ASSUME NEW runs \in Probes
  PROVE  /\ DOMAIN runs = 1..ProbeRuns /\ ProbeRuns \in Nat \ {0} /\ runs # <<>>
         /\ \A i \in 1..ProbeRuns : runs[i] \in Reports
  BY RedGreenAssumption DEF Probes

\* A name all runs are of one mind about is listed so by each.
LEMMA NamedIsReported ==
  ASSUME NEW runs \in Probes, NEW name, NEW want \in Outcome,
         AllAre(OutcomesNamed(runs, name), want)
  PROVE  \A i \in 1..ProbeRuns : want \in Reported(runs[i], name)
<1>1. \A i \in 1..ProbeRuns :
        \E c \in CasesOf(runs[i]) : Matches(c, Unknown, name) /\ c.outcome = want
  BY ProbesTyped, AllRunsSay DEF OutcomesNamed
<1>2. QED BY <1>1 DEF Reported, Matches

\* Head passes a set of names only where every run passed every one of them.
LEMMA HeadPasses ==
  ASSUME NEW runs \in Probes, NEW names, JudgeHead(runs, names) = "pass"
  PROVE  \A n \in names, i \in 1..ProbeRuns : "pass" \in Reported(runs[i], n)
<1>1. \A n \in names : AllAre(OutcomesNamed(runs, n), "pass")
  BY DEF JudgeHead
<1>2. QED BY <1>1, NamedIsReported DEF Outcome

LEMMA BasePassed ==
  ASSUME Settled, verdict = "pass", Added(base) # {}
  PROVE  /\ \A n \in Added(base), i \in 1..ProbeRuns : "fail" \in Reported(base[i], n)
         /\ \A n \in Added(base), i \in 1..ProbeRuns : "pass" \in Reported(head[i], n)
<1>1. base \in Probes /\ head \in Probes /\ BaseVerdict(base) = "none" /\ HeadVerdict(head) = "pass"
  BY DEF Settled
<1>2. JudgeBase(base, Added(base)) = "none"
  BY <1>1 DEF BaseVerdict
<1>3. \A n \in Added(base) : AllAre(OutcomesNamed(base, n), "fail")
  BY <1>2 DEF JudgeBase
<1>4. JudgeHead(head, Added(base)) = "pass"
  BY <1>1 DEF HeadVerdict
<1>5. QED BY <1>1, <1>3, <1>4, NamedIsReported, HeadPasses DEF Outcome

\* A pass is a reproduction, whatever the harness reports.
THEOREM PassesReproduce == Spec => []PassIsReproduction
<1>1. Settled => PassIsReproduction
  <2> SUFFICES ASSUME Settled, verdict = "pass"
               PROVE  /\ inventory # <<>> => Named(inventory)
                      /\ \A n \in Added(base), i \in 1..ProbeRuns :
                           "fail" \in Reported(base[i], n) /\ "pass" \in Reported(head[i], n)
    BY DEF PassIsReproduction
  <2>1. inventory # <<>> => Named(inventory)
    BY DEF Settled
  <2>2. QED BY <2>1, BasePassed
<1>2. QED BY SettledHolds, <1>1, PTL

\* A test edit that fails to build on base is no proof by itself.
THEOREM BuildFailuresProveNoCase == Spec => []BuildFailureProvesNoCase
<1>1. Settled => BuildFailureProvesNoCase
  <2> SUFFICES ASSUME Settled, verdict = "pass", ~Named(base)
               PROVE  /\ ~AnyGreen(base) /\ ~strict
                      /\ IF Named(head)
                           THEN /\ Added(head) # {}
                                /\ \A n \in Added(head), i \in 1..ProbeRuns :
                                     "pass" \in Reported(head[i], n)
                           ELSE AllGreen(head)
    BY DEF BuildFailureProvesNoCase
  <2>1. base \in Probes /\ head \in Probes /\ BaseVerdict(base) = "none" /\ HeadVerdict(head) = "pass"
    BY DEF Settled
  <2>2. Added(base) = {}
    BY DEF Named, Added, Names
  <2>3. ~strict /\ JudgeBaseByFile(base) = "none"
    BY <2>1, <2>2 DEF BaseVerdict
  <2>4. ~AnyGreen(base)
    BY <2>3 DEF JudgeBaseByFile
  <2>5. JudgeHeadByName(head) = "pass"
    BY <2>1, <2>2 DEF HeadVerdict
  <2>6. CASE Added(head) # {}
    <3>1. Named(head)
      BY <2>6 DEF Named, Added, Names
    <3>2. JudgeHead(head, Added(head)) = "pass"
      BY <2>5, <2>6 DEF JudgeHeadByName
    <3>3. QED BY <2>1, <2>3, <2>4, <2>6, <3>1, <3>2, HeadPasses
  <2>7. CASE Added(head) = {}
    <3>1. ~Named(head) /\ JudgeHeadByFile(head) = "pass"
      BY <2>5, <2>7 DEF JudgeHeadByName
    <3>2. AllGreen(head)
      BY <3>1 DEF JudgeHeadByFile
    <3>3. QED BY <2>3, <2>4, <3>1, <3>2
  <2>8. QED BY <2>6, <2>7
<1>2. QED BY SettledHolds, <1>1, PTL

\* What Judge builds on: red-green asks for the inventory, for its runs on base where
\* cases can be told apart, and for its runs on head where there was one on base, and
\* answers where Judge lets it (red_green.go, Run).
THEOREM RedGreenKeepsProtocol == Spec => KeepsProtocol
<1>1. Init => at \in RedGreenAsks("none", FALSE, FALSE)
  BY DEF Init, RedGreenAsks
<1>2. [Next]_vars => [InTurn]_vars
  <2> SUFFICES ASSUME Next PROVE InTurn \/ UNCHANGED vars
    OBVIOUS
  <2>1. CASE TakeInventory
    <3>1. at = "inventory" /\ CasesKnown' = (inventory' = <<>> \/ Named(inventory'))
      BY <2>1 DEF TakeInventory, CasesKnown, Named, AllCases, CasesOf
    <3>2. CASE CasesKnown'
      BY <2>1, <3>1, <3>2 DEF TakeInventory, Go, InTurn, RedGreenAsks
    <3>3. CASE ~CasesKnown'
      BY <2>1, <3>1, <3>3 DEF TakeInventory, Go, InTurn, RedGreenAnswers, StatusOf
    <3>4. QED BY <3>2, <3>3
  <2>2. CASE ProbeBase
    <3>1. at = "overlaid" /\ verdict' = BaseVerdict(base')
          /\ at' = IF BaseVerdict(base') = "none" THEN "head" ELSE "done"
      BY <2>2 DEF ProbeBase, Go
    <3>2. /\ BaseVerdict(base') \notin {"pass", "names missing"}
          /\ BaseVerdict(base') = "none" => base' # <<>>
      BY DEF BaseVerdict, JudgeBase, JudgeBaseByFile
    <3>3. QED BY <3>1, <3>2 DEF InTurn, RedGreenAsks, RedGreenAnswers, StatusOf
  <2>3. CASE ProbeHead
    <3>1. at = "head" /\ at' = "done" /\ verdict' = HeadVerdict(head')
      BY <2>3 DEF ProbeHead, Go
    <3>2. HeadVerdict(head') # "names missing"
      BY DEF HeadVerdict, JudgeHead, JudgeHeadByName, JudgeHeadByFile
    <3>3. QED BY <3>1, <3>2 DEF InTurn, RedGreenAnswers, StatusOf
  <2>4. QED BY <2>1, <2>2, <2>3 DEF Next, Done
<1>3. QED BY <1>1, <1>2, PTL DEF Spec, KeepsProtocol

=============================================================================
