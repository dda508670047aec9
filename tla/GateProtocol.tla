---------------------------- MODULE GateProtocol ----------------------------
(***************************************************************************)
(* What the walk and its gates agree on: the status a gate may report,     *)
(* and, for the gates that drive the project's test suite, which question  *)
(* to the probe may follow which and which answer may be given by then.    *)
(* Runner and Judge take the gates for what is said here; StaticGates,     *)
(* RedGreen and SuiteGreen are the gates, and keep to it.                  *)
(*                                                                         *)
(* after is the latest question of the gate, "none" before its first.      *)
(***************************************************************************)

\* What a gate can answer. Only red-green has a refusal for a human, and the
\* severity of a gate is not its own business.
StatusesOf(g) ==
  IF g = "red-green"              THEN {"pass", "fail", "human"}
  ELSE IF g = "blast-radius"      THEN {"skip"}
  ELSE IF g = "new-test-present"  THEN {"pass", "fail", "skip"}
  ELSE IF g = "suppression-scan"  THEN {"pass", "warn", "skip"}
  ELSE IF g = "test-immutability" THEN {"pass", "warn", "fail"}
  ELSE {"pass", "fail"}

\* Asks for the suite on base as soon as the suite on head lost a case.
SuiteGreenAsks_bug(after) ==
  IF after = "none" THEN {"suite"} ELSE IF after = "suite" THEN {"baseSuite"}
  ELSE IF after = "baseSuite" THEN {"retry"} ELSE {}

SuiteGreenAsks(after) ==
  IF after = "none" THEN {"suite"} ELSE IF after = "suite" THEN {"retry"}
  ELSE IF after = "retry" THEN {"baseSuite"} ELSE {}

\* At once where the suite lost nothing the gate judges; after the suite on base
\* there is a failure left.
SuiteGreenAnswers(after) ==
  IF after \in {"suite", "retry"} THEN {"pass", "fail"}
  ELSE IF after = "baseSuite" THEN {"fail"} ELSE {}

\* named: the inventory left no file whose cases have no name. idle: the diff
\* leaves no test file to run on base.
RedGreenAsks(after, named, idle) ==
  IF after = "none" THEN {"inventory"}
  ELSE IF after = "inventory" /\ named THEN {"overlaid"}
  ELSE IF after = "overlaid" /\ ~idle THEN {"head"} ELSE {}

\* Passes on the base probe alone.
RedGreenAnswers_bug(after, named) ==
  IF after = "inventory" /\ ~named THEN {"human"}
  ELSE IF after = "overlaid" THEN {"fail", "pass"}
  ELSE IF after = "head" THEN {"pass", "fail"} ELSE {}

\* An inventory without names is for a human, a base probe can only refuse, and
\* a pass takes a head run.
RedGreenAnswers(after, named) ==
  IF after = "inventory" /\ ~named THEN {"human"}
  ELSE IF after = "overlaid" THEN {"fail"}
  ELSE IF after = "head" THEN {"pass", "fail"} ELSE {}

\* test-immutability in mode cases compares the inventory with head.
ImmutabilityAsks(after) ==
  IF after = "none" THEN {"inventory"} ELSE IF after = "inventory" THEN {"head"} ELSE {}

\* It asks nothing where the diff claims no file of a list in mode cases.
ImmutabilityAnswers(after) ==
  IF after \in {"none", "head"} THEN {"pass", "warn", "fail"} ELSE {}

=============================================================================
