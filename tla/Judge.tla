-------------------------------- MODULE Judge --------------------------------
(***************************************************************************)
(* A whole run: the walk of Verify with the gates that drive the project's *)
(* test suite (internal/gates/exec, internal/gates/tests) asking their     *)
(* questions of one shared Probe. What a question turns up is left open    *)
(* here; which question a gate asks next, and which answers it can give by *)
(* then, is what the gate's code says.                                     *)
(***************************************************************************)
EXTENDS Verify

CONSTANTS Paths, Surface, Diffs, LinkTo, NoPath, ProbeRuns, RetryFailed, MaxRetries

VARIABLES
  diff, copies, laid, memo, call, doing, todo, left, ran, last, asked, stopped,
  latest      \* the latest question of the gate at work, "none" before

P == INSTANCE Probe

probeVars == <<diff, copies, laid, memo, call, doing, todo, left, ran, last,
               asked, stopped>>
judgeVars == <<vars, probeVars, latest>>

ASSUME JudgeAssumption == P!ProbeAssumption /\ P!DiffsAssumption /\ MaxRetries >= 1

\* The gate at work, and whether the inventory named the cases.
Gate == Registry[pos]
InventoryNamed == "case-names" \in caps

\* What a gate may ask next, and what it may answer by now.
Follows(g, after) ==
  IF g = "suite-green" THEN SuiteGreenAsks(after)
  ELSE IF g = "red-green" THEN RedGreenAsks(after, InventoryNamed, P!Idle("overlaid"))
  ELSE ImmutabilityAsks(after)

Concludes(g, after) ==
  IF g = "suite-green" THEN SuiteGreenAnswers(after)
  ELSE IF g = "red-green" THEN RedGreenAnswers(after, InventoryNamed)
  ELSE ImmutabilityAnswers(after)

\* blameTheRepository: what failed on head was red on base before the diff.
RepositoryBroken == at = "gate" /\ Gate = "suite-green" /\ latest = "baseSuite"

Drives(g) == NeedsHooks(g) /\ "hooks" \in caps

-----------------------------------------------------------------------------
JudgeInit ==
  /\ Init /\ P!Init
  /\ latest = "none"

Quiet == call = "none"

\* The steps of verify and its runner that need no word from the probe.
Alone ==
  /\ Quiet /\ UNCHANGED probeVars
  /\ \/ Around /\ UNCHANGED latest
     \/ /\ stage = "judge"
        /\ \E g \in GateIDs : LeaveOut(g) \/ ShortCircuit(g) \/ BringUp(g)
                              \/ Unavailable(g) \/ AskGate(g)
        /\ latest' = "none"
        /\ UNCHANGED <<stage, session, err, leaked, code>>
     \/ /\ stage = "judge" /\ Finish
        /\ UNCHANGED <<stage, session, err, leaked, code, latest>>
     \/ /\ stage = "judge" /\ at = "open"
        /\ \/ OpenSucceeds /\ session' = "open"
           \/ Abort /\ UNCHANGED session
        /\ UNCHANGED <<stage, err, leaked, code, latest>>

Calls(op) ==
  /\ P!Ask(op)
  /\ latest' = op
  /\ UNCHANGED vars

\* The inventory run of bringUp, and the questions of a gate.
AsksInventory == at = "inventory" /\ latest # "inventory" /\ Calls("inventory")

GateAsks ==
  /\ at = "gate" /\ Drives(Gate)
  /\ \E op \in Follows(Gate, latest) : Calls(op)

ProbeWorks == call # "none" /\ P!Work /\ UNCHANGED <<vars, latest>>

\* bringUp has its answer. Where the run had no file the names are settled.
InventoryAnswered ==
  /\ at = "inventory" /\ latest = "inventory" /\ Quiet /\ ~stopped
  /\ \E named \in BOOLEAN : (P!Idle("inventory") => named) /\ InventoryEnds(named)
  /\ UNCHANGED <<stage, session, err, leaked, code, latest, probeVars>>

\* Writes what the gate said, whatever severity the config gives it.
GateConcludes_bug ==
  /\ at = "gate" /\ Quiet /\ ~stopped
  /\ \E status \in IF Drives(Gate) THEN Concludes(Gate, latest) ELSE StatusesOf(Gate) :
       Record(status)
  /\ UNCHANGED <<options, caps, opened, stage, session, err, leaked, code, latest, probeVars>>

GateConcludes ==
  /\ at = "gate" /\ Quiet /\ ~stopped
  /\ \E status \in IF Drives(Gate) THEN Concludes(Gate, latest) ELSE Status :
       GateAnswers(status)
  /\ UNCHANGED <<stage, session, err, leaked, code, latest, probeVars>>

GivesUp ==
  /\ Quiet /\ at \in {"inventory", "gate"}
  /\ stopped \/ RepositoryBroken
  /\ Abort
  /\ UNCHANGED <<stage, session, err, leaked, code, latest, probeVars>>

JudgeStep ==
  \/ Alone \/ AsksInventory \/ GateAsks \/ ProbeWorks
  \/ InventoryAnswered \/ GateConcludes \/ GivesUp

JudgeNext == JudgeStep \/ (stage = "exited" /\ UNCHANGED judgeVars)

(* As in Verify: one goroutine, always scheduled, and hooks that end.      *)
JudgeSpec == JudgeInit /\ [][JudgeNext]_judgeVars /\ WF_judgeVars(JudgeStep)

-----------------------------------------------------------------------------
(* Properties.                                                             *)

\* Whatever questions the gates ask, the run is one that Verify describes.
RunsAsVerify == Spec

\* A pass of red-green rests on K red runs on base and K runs on head, and is
\* never given on a base probe alone.
PassRestsOnBothProbes ==
  \A i \in Slots :
    Registry[i] = "red-green" /\ results[i] = "pass" =>
      ran["overlaid"] = ProbeRuns /\ ran["head"] = ProbeRuns

\* The suite on base, which takes over the working copy of the suite on head,
\* is the last resort and the last run: no run of any kind follows it, since
\* suite-green can only refuse or give up by then.
BaseSuiteIsLast ==
  [][\A op \in P!Memoised \union {"retry"} :
       ran["baseSuite"] > 0 => ran'[op] = ran[op]]_judgeVars

\* Every run ends with an exit code, whatever the hooks and the gates do.
JudgementEnds == <>(code \in ExitCodes)

=============================================================================
