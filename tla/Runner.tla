------------------------------- MODULE Runner -------------------------------
(***************************************************************************)
(* The walk over the gate registry (internal/runner): every gate is asked  *)
(* once, in registry order, and leaves one line in the report. The runner  *)
(* owns what the gates may not know of each other: the short-circuit, the  *)
(* capabilities, the severity of a refusal and the one environment the     *)
(* executing gates share.                                                  *)
(*                                                                         *)
(* What a gate finds is any answer that gate can give, and a gate that     *)
(* needs the hooks may also fail to answer. The environment is reduced to  *)
(* whether it opens and whether its inventory run named the cases.         *)
(***************************************************************************)
EXTENDS GateProtocol, Integers, Sequences

CONSTANTS
  Registry    \* the gates in the mandatory execution order

Static == {"protected-paths", "diff-budget", "test-immutability",
           "new-test-present", "no-disabled-tests", "suppression-scan"}
Executing == {"suite-green", "red-green"}
GateIDs == Static \union Executing \union {"blast-radius"}

ASSUME RegistryAssumption == Registry \in Seq(GateIDs)

Slots == 1..Len(Registry)
Capability == {"diff", "hooks", "test-files", "case-names", "stack-trace"}

\* A report line: its status, with "human" for a failure only a human can
\* answer, "cut" for a skip by the short-circuit and "none" for no line yet.
Refusals == {"fail", "human"}
Status == Refusals \union {"none", "pass", "warn", "skip", "cut", "unavailable"}

VARIABLES
  only,       \* --gates, empty for every gate
  disabled,   \* gates.disabled
  lowered,    \* the gates with severity "warn"
  cases,      \* test-immutability judges outcomes, not lines
  caps,       \* execution.caps
  pos,        \* the slot the walk stands at
  at,         \* where the walk is, see RunnerTypeOK
  failed,     \* execution.failed: the first slot that refused, 0 for none
  opened,     \* execution.opened
  results     \* the report lines

options == <<only, disabled, lowered, cases>>
walk    == <<caps, pos, at, failed, opened, results>>

RunnerTypeOK ==
  /\ only \subseteq GateIDs /\ disabled \subseteq GateIDs
  /\ lowered \subseteq GateIDs
  /\ cases \in BOOLEAN
  /\ caps \subseteq Capability
  /\ pos \in 1..(Len(Registry) + 1)
  /\ at \in {"idle", "walk", "open", "inventory", "gate", "done", "aborted"}
  /\ failed \in 0..Len(Registry)
  /\ opened \in BOOLEAN
  /\ results \in [Slots -> Status]

-----------------------------------------------------------------------------
\* What a gate needs before it may speak (Requires of every gate).
Requires(g) ==
  IF g = "red-green"         THEN {"diff", "hooks", "test-files"}
  ELSE IF g = "suite-green"  THEN {"diff", "hooks"}
  ELSE IF g = "blast-radius" THEN {"diff", "stack-trace"}
  ELSE IF g = "test-immutability" /\ cases THEN {"diff", "hooks", "case-names"}
  ELSE {"diff"}

Selected(g) == only = {} \/ g \in only
NeedsHooks(g) == "hooks" \in Requires(g)

\* A lowered gate refuses nothing; a human-required refusal stays one.
ApplySeverity(g, status) ==
  IF status = "fail" /\ g \in lowered THEN "warn" ELSE status

\* Outcome and its exit code: a human-required line outranks every other.
Outcome(res) ==
  IF \E i \in Slots : res[i] = "human" THEN 5
  ELSE IF \E i \in Slots : res[i] = "fail" THEN 1
  ELSE 0

\* Capabilities: what the run starts with. Case names come later and a stack
\* trace never does.
Capabilities(hooks, testFiles) ==
  {"diff"} \union (IF hooks THEN {"hooks"} ELSE {})
           \union (IF testFiles THEN {"test-files"} ELSE {})

-----------------------------------------------------------------------------
\* No walk is under way: verify has not called the runner yet.
Unstarted ==
  /\ caps = {} /\ pos = 1 /\ at = "idle" /\ failed = 0 /\ opened = FALSE
  /\ results = [i \in Slots |-> "none"]

Start(hooks, testFiles) ==
  /\ caps' = Capabilities(hooks, testFiles)
  /\ at' = "walk"
  /\ UNCHANGED <<pos, failed, opened, results>>

\* Arms the short-circuit with a refusal the config has lowered.
Record_bug(status) ==
  /\ results' = [results EXCEPT ![pos] = status]
  /\ failed' = IF status \in Refusals \union {"warn"} /\ failed = 0 THEN pos ELSE failed
  /\ pos' = pos + 1
  /\ at' = "walk"

(* The end of step: the line is written and, if it is the first refusal,   *)
(* it arms the short-circuit.                                              *)
Record(status) ==
  /\ results' = [results EXCEPT ![pos] = status]
  /\ failed' = IF status \in Refusals /\ failed = 0 THEN pos ELSE failed
  /\ pos' = pos + 1
  /\ at' = "walk"

\* The gate at the walk's slot, which the config and --gates leave in the run.
Asked(g) == at = "walk" /\ pos \in Slots /\ g = Registry[pos]
Live(g) == Asked(g) /\ Selected(g) /\ g \notin disabled
Hooked(g) == NeedsHooks(g) /\ "hooks" \in caps

LeaveOut(g) ==
  /\ Asked(g) /\ (~Selected(g) \/ g \in disabled)
  /\ Record("skip")
  /\ UNCHANGED <<options, caps, opened>>

ShortCircuit(g) ==
  /\ Live(g) /\ Hooked(g) /\ failed # 0
  /\ Record("cut")
  /\ UNCHANGED <<options, caps, opened>>

\* Brings the environment up for every gate, whatever was refused before it.
BringUp_bug(g) ==
  /\ Live(g) /\ Hooked(g) /\ ~opened
  /\ opened' = TRUE
  /\ at' = "open"
  /\ UNCHANGED <<options, caps, pos, failed, results>>

(* bringUp, for the first gate that needs the hooks.                       *)
BringUp(g) ==
  /\ Live(g) /\ Hooked(g) /\ failed = 0 /\ ~opened
  /\ opened' = TRUE
  /\ at' = "open"
  /\ UNCHANGED <<options, caps, pos, failed, results>>

OpenSucceeds ==
  /\ at = "open"
  /\ at' = "inventory"
  /\ UNCHANGED <<options, caps, pos, failed, opened, results>>

\* Brings the environment up again until the inventory names a case.
InventoryEnds_bug(named) ==
  /\ at = "inventory"
  /\ caps' = IF named THEN caps \union {"case-names"} ELSE caps
  /\ at' = IF named THEN "walk" ELSE "open"
  /\ UNCHANGED <<options, pos, failed, opened, results>>

\* The inventory run ended. named: it named a case, or had no file to run on.
InventoryEnds(named) ==
  /\ at = "inventory"
  /\ caps' = IF named THEN caps \union {"case-names"} ELSE caps
  /\ at' = "walk"
  /\ UNCHANGED <<options, pos, failed, opened, results>>

\* Past the environment: it is up, or this gate or this run does without.
Settled(g) == Live(g) /\ (Hooked(g) => failed = 0 /\ opened)

Unavailable(g) ==
  /\ Settled(g) /\ ~(Requires(g) \subseteq caps)
  /\ Record("unavailable")
  /\ UNCHANGED <<options, caps, opened>>

AskGate(g) ==
  /\ Settled(g) /\ Requires(g) \subseteq caps
  /\ at' = "gate"
  /\ UNCHANGED <<options, caps, pos, failed, opened, results>>

GateAnswers(status) ==
  /\ at = "gate" /\ status \in StatusesOf(Registry[pos])
  /\ Record(ApplySeverity(Registry[pos], status))
  /\ UNCHANGED <<options, caps, opened>>

\* Hands the lines it has to the caller.
Abort_bug ==
  /\ at \in {"open", "inventory", "gate"}
  /\ at = "gate" => NeedsHooks(Registry[pos])
  /\ at' = "done"
  /\ UNCHANGED <<options, caps, pos, failed, opened, results>>

(* The environment, its inventory or a gate that drives it did not finish: *)
(* the walk ends without a verdict and without its lines.                  *)
Abort ==
  /\ at \in {"open", "inventory", "gate"}
  /\ at = "gate" => NeedsHooks(Registry[pos])
  /\ at' = "aborted"
  /\ results' = [i \in Slots |-> "none"]
  /\ UNCHANGED <<options, caps, pos, failed, opened>>

Finish ==
  /\ at = "walk" /\ pos = Len(Registry) + 1
  /\ at' = "done"
  /\ UNCHANGED <<options, caps, pos, failed, opened, results>>

WalkStep ==
  \/ \E g \in GateIDs : \/ LeaveOut(g) \/ ShortCircuit(g) \/ BringUp(g)
                        \/ Unavailable(g) \/ AskGate(g)
  \/ OpenSucceeds
  \/ \E named \in BOOLEAN : InventoryEnds(named)
  \/ \E status \in Status : GateAnswers(status)
  \/ Abort
  \/ Finish

=============================================================================
