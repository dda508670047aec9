------------------------------ MODULE Outcomes ------------------------------
(***************************************************************************)
(* What runs of test.sh say about cases (internal/domain/probe.go). A run  *)
(* is whether the hook exited zero and the cases its results file lists;   *)
(* a case has the file it is attributed to, a name and an outcome, and     *)
(* file and name may be missing (""). Runs of one probe are a sequence.    *)
(*                                                                         *)
(* A name may occur more than once in a run: two files may carry it, and   *)
(* a results file may list it twice. A lookup reads the first occurrence.  *)
(***************************************************************************)
EXTENDS Naturals, Sequences, FiniteSets

CONSTANTS Files, CaseNames

Unknown == ""      \* no file, or no name
Outcome == {"pass", "fail", "skip"}

Cases == [file : Files \union {Unknown}, name : CaseNames \union {Unknown},
          outcome : Outcome]
Reports == [green : BOOLEAN, cases : Seq(Cases)]

CasesOf(run) == {run.cases[j] : j \in DOMAIN run.cases}
AllCases(runs) == UNION {CasesOf(runs[i]) : i \in DOMAIN runs}

Failed(run) == {c \in CasesOf(run) : c.outcome = "fail"}

\* Whether any run named a case.
Named(runs) == \E c \in AllCases(runs) : c.name # Unknown

\* An empty set of runs is not green.
AllGreen(runs) == runs # <<>> /\ \A i \in DOMAIN runs : runs[i].green
AnyGreen(runs) == \E i \in DOMAIN runs : runs[i].green

Names(runs) == {c.name : c \in AllCases(runs)} \ {Unknown}

\* The files the runs report a case of that name under.
Sharing(runs, name) == {c.file : c \in {d \in AllCases(runs) : d.name = name}}

\* A lookup by name alone takes any file, by pair the one file.
Matches(c, file, name) == c.name = name /\ file \in {Unknown, c.file}

\* What one run says about a case: the first case that matches, or "absent".
OutcomeIn(run, file, name) ==
  LET hits == {j \in DOMAIN run.cases : Matches(run.cases[j], file, name)}
  IN IF hits = {} THEN "absent"
     ELSE run.cases[CHOOSE j \in hits : \A k \in hits : j <= k].outcome

OutcomesOf(runs, file, name) == [i \in DOMAIN runs |-> OutcomeIn(runs[i], file, name)]
OutcomesNamed(runs, name) == OutcomesOf(runs, Unknown, name)

\* What the runs said about every listing of a name, "absent" where a run has none.
OutcomesAll(runs, name) ==
  UNION {LET said == {c.outcome : c \in {d \in CasesOf(runs[i]) : d.name = name}}
         IN IF said = {} THEN {"absent"} ELSE said : i \in DOMAIN runs}

\* Whether every run produced the outcome; none of no runs did.
AllAre(outcomes, want) ==
  outcomes # <<>> /\ \A i \in DOMAIN outcomes : outcomes[i] = want

AnyIs(outcomes, want) == \E i \in DOMAIN outcomes : outcomes[i] = want

=============================================================================
